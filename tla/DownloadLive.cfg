\* Two executions of one download, fair scheduling, no crash.
SPECIFICATION FairSpec
CONSTANTS
    NoOwner = NoOwner
    None = None
    Executors = {e1, e2}
    Inodes = {i1, i2}
    AssetChunks = 2
    SizesDeclared = {TRUE}
    DatabaseFails = FALSE
    MaxVersion = 5
    MaxCrashes = 0
PROPERTIES ExecutorsFinish CancelEnds
CHECK_DEADLOCK FALSE
