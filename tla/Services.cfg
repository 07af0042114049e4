\* Schema, backup, import, provider services and catalogue pages, one at a time.
CONSTANTS
    Alike = {v1, v2}
    Starter = {v1, v2}
    MaxUpgrades = 2
    Word = {v1, v2}
    MaxRow = 2
    MaxLocal = 2
    MaxFile = 3
    MaxEdits = 1
    Name = {v1, v2}
    Request = {r1, r2}
    NoUrl = NoUrl
    MaxRows = 2
    Prober = {p1}
    Importer = {v1, v2}
    MaxVersion = 5
    Checker = {v1, v2}
    Proxy = {v1, v2}
    NoChoice = NoChoice
    MaxFailCount = 2
    MaxChecks = 2
    Call = {v1, v2, k3}
    Client = {c1}
    Endpoint = {e1, e2}
    GlobalLimit = 2
    ProviderLimit = 1
    ResponseLimit = 2
    Editor = {v1, v2}
    TagName = {t1, t2}
    Unfolded = {t2}
    MaxItem = 2
    MaxBirths = 3
    MaxEditorRuns = 3
SPECIFICATION ServiceSpec
SYMMETRY Interchangeable
CHECK_DEADLOCK FALSE
INVARIANTS ServicesTypeOK RecordTruthful CatalogCurrent FailuresCounted OutboundSafe
PROPERTIES ImportTruthful UpgradesTruthful RestoreTruthful RestoreIsUnion MergeKeepsSeen
