---------------------------- MODULE TaskRefinement ----------------------------
(* TaskService implements TaskLifecycle: a task's status is its row's state. *)
EXTENDS TaskService

StatusOf(db) == [t \in Tasks |-> IF db[t] = NoRow THEN "absent" ELSE db[t].state]

Lifecycle == INSTANCE TaskLifecycle WITH status <- StatusOf(task)

\* Every commit of the service is a step of the task lifecycle: legal moves
\* only, no more than MaxConcurrency tasks running, nothing final reopened
\* (transition(), recover_interrupted(), mark_verification_unknown()).
ImplementsLifecycle == Lifecycle!Spec
=============================================================================
