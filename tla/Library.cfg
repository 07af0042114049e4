\* Local workflow, directories, uploads, lock and index, one at a time.
CONSTANTS
    Alike = {v1, v2}
    ImportItem = {v1, v2}
    Maintenance = {m1}
    MaxFiles = 3
    MaxPresses = 2
    MaxLocalTasks = 2
    NoOwner = NoOwner
    DirRef = {v1, v2}
    MaxDirs = 2
    MaxManifest = 2
    MaxConfirms = 1
    Digest = {v1, v2}
    URef = {o1}
    Inode = {1, 2, 3}
    MaxTampers = 1
    Proc = {v1, v2}
    MaxObjects = 5
    IPath = {x1}
    IObj = {o1}
    MaxVersions = 2
    MaxRoots = 2
    MaxRefreshes = 3
SPECIFICATION LibrarySpec
SYMMETRY Interchangeable
CHECK_DEADLOCK FALSE
INVARIANTS LibraryTypeOK LinksAreProved DirectoriesFaithful UploadsFaithful IndexHonest
PROPERTIES OnlyOwnFilesRemoved ExclusiveOrUnknown
