SPECIFICATION FairSpec
CONSTANTS
    old = old
    new = new
    longer = longer
    Demo = Demo
    Docs <- MCDocs
    Size <- MCSize
    Files <- MCFiles
    Commands <- MCCommands
    MaxCollects = 2
INVARIANT TypeOK
INVARIANT SuccessIsStored
INVARIANT WholeOrError
INVARIANT DemoUnasked
INVARIANT ExitHonest
PROPERTY KeepsOld
PROPERTY Ends
