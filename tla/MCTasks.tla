------------------------------- MODULE MCTasks -------------------------------
(* Small instances of TaskService: long histories of one task at a time, and     *)
(* short histories of tasks that compete for the running slots.                    *)
EXTENDS TaskRefinement, TLC

CONSTANT ShortVersion   \* bound on the versions of competing tasks

VARIABLE compete

WithinBounds(rows) ==
    IF compete THEN \A t \in Tasks : rows[t] # NoRow =>
                        rows[t].version <= ShortVersion /\ rows[t].stage # "downloading"
    ELSE Cardinality({t \in Tasks : rows[t] # NoRow}) <= 1

InstanceInit == Init /\ compete \in BOOLEAN
InstanceNext == Next /\ WithinBounds(task') /\ UNCHANGED compete
InstanceSpec == InstanceInit /\ [][InstanceNext]_<<vars, compete>>

Symmetry == Permutations(Tasks) \cup Permutations(Sessions)
=============================================================================
