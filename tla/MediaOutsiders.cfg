\* Duplicate cleanup and restore, or rename and normalisation, while another program removes or replaces files.
SPECIFICATION OutsidersSpec
CONSTANTS
    NoFile = NoFile
    NoPath = NoPath
    Paths = {p1, p2, p3}
    Spares = {r1}
    Anchors = {a1}
    Objects = {o1}
    Digests = {c1, bad}
    Damaged = bad
    Numbers = {n1, n2, n3, n4}
    Operations = {"duplicate", "restore"}
    FailingCommits = {}
    LosingCommits = {}
    FileFaults = FALSE
    Assigning = {}
    MaxStrikes = 2
SYMMETRY Symmetry
PROPERTIES ContentSurvives
