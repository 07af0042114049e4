\* Pauses and a crash between the file steps and the commits.
SPECIFICATION Spec
CONSTANTS
    NoOwner = NoOwner
    None = None
    Executors = {e1, e2}
    Inodes = {i1, i2}
    AssetChunks = 2
    SizesDeclared = {TRUE}
    DatabaseFails = FALSE
    MaxVersion = 4
    MaxCrashes = 1
INVARIANTS PausedIsResumable
SYMMETRY Symmetry
CHECK_DEADLOCK FALSE
