\* Two executions of one download, with and without a declared size, and two crashes.
SPECIFICATION Spec
CONSTANTS
    NoOwner = NoOwner
    None = None
    Executors = {e1, e2}
    Inodes = {i1, i2, i3}
    AssetChunks = 2
    SizesDeclared = {TRUE, FALSE}
    DatabaseFails = TRUE
    MaxVersion = 8
    MaxCrashes = 2
SYMMETRY Symmetry
CHECK_DEADLOCK FALSE
INVARIANTS TypeOK PublishedFaithful OffsetNeverAhead SuccessIsProved
