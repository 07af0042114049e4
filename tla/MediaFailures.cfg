\* Every operation with failing commits, unlinks and index writes, and lost commits where they are
\* inspected; and reference edits beside the operations whose commits hold.
SPECIFICATION FailuresSpec
CONSTANTS
    NoFile = NoFile
    NoPath = NoPath
    Paths = {p1, p2}
    Spares = {r1}
    Anchors = {a1}
    Objects = {o1, o2}
    Digests = {c1, bad}
    Damaged = bad
    Numbers = {n1, n2, n3}
    Operations = {"rename", "alias", "duplicate", "restore", "delete"}
    FailingCommits = {"rename", "alias", "duplicate", "restore"}
    LosingCommits = {"rename", "alias"}
    FileFaults = TRUE
    Assigning = {}
    MaxStrikes = 0
INVARIANTS TypeOK ReferencesKeepContent IndexFaithful
SYMMETRY Symmetry
