SPECIFICATION FairSpec
CONSTANTS
    Acls <- MCAcls
INVARIANT TypeOK
INVARIANT ClientReleased
INVARIANT BannerFirst
INVARIANT PassedIsClean
INVARIANT BlindGateFails
PROPERTY Returns
