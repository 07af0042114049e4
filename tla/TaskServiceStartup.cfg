\* Restart recovery with a task that was being cancelled.
SPECIFICATION Spec
CONSTANTS
    NoOwner = NoOwner
    NoRow = NoRow
    Tasks = {t1}
    Sessions = {s1, s2}
    MaxConcurrency = 1
    WorkStages = {"downloading", "db_linked"}
    MaxVersion = 4
INVARIANTS StartupSucceeds
