\* A validated reference assignment between the count and the unlink.
SPECIFICATION Spec
CONSTANTS
    NoFile = NoFile
    NoPath = NoPath
    Paths = {p1, p2, p3}
    Spares = {r1}
    Anchors = {a1}
    Objects = {o1, o2}
    Digests = {c1, bad}
    Damaged = bad
    Numbers = {n1, n2, n3, n4}
    Operations = {"duplicate"}
    FailingCommits = {}
    LosingCommits = {}
    FileFaults = FALSE
    Assigning = {"none", "duplicate"}
    MaxStrikes = 0
INVARIANTS ReferencesKeepContent
SYMMETRY Symmetry
