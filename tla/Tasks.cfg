\* One task at a time through long histories; two tasks that compete for one slot.
SPECIFICATION InstanceSpec
CONSTANTS
    NoOwner = NoOwner
    NoRow = NoRow
    Tasks = {t1, t2}
    Sessions = {s1, s2}
    MaxConcurrency = 1
    WorkStages = {"downloading", "db_linked"}
    MaxVersion = 6
    ShortVersion = 3
SYMMETRY Symmetry
INVARIANTS TypeOK RowFactsAgree CancelSticks ConcurrencyBound
PROPERTIES ImplementsLifecycle DeadLeaseStaysDead
