\* A superseded execution against its successor.
SPECIFICATION Spec
CONSTANTS
    NoOwner = NoOwner
    None = None
    Executors = {e1, e2}
    Inodes = {i1, i2}
    AssetChunks = 2
    SizesDeclared = {TRUE}
    DatabaseFails = FALSE
    MaxVersion = 5
    MaxCrashes = 0
PROPERTIES StaleExecutorIsFenced
SYMMETRY Symmetry
CHECK_DEADLOCK FALSE
