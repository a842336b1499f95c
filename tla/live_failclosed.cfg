SPECIFICATION Spec
CONSTANTS
    Acls <- MCAcls
INVARIANT FailsClosed
