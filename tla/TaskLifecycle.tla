---------------------------- MODULE TaskLifecycle ----------------------------
(***************************************************************************)
(* What the task service promises about a task, seen from outside: its     *)
(* status moves along the closed matrix, at most MaxConcurrency tasks run, *)
(* and a task that is cancelled, succeeded or of unknown outcome is never  *)
(* worked on again: all that can happen to it is that its history is       *)
(* deleted, or that a success is downgraded to an unknown outcome.         *)
(***************************************************************************)
EXTENDS TaskContracts

CONSTANTS Tasks, MaxConcurrency

VARIABLE status   \* a TaskState, or "absent"

\* One commit moves a task by one edge, or by a requeue and its start.
Reachable(s) ==
    CASE s = "absent"    -> {"queued", "running"}
      [] s = "succeeded" -> {"outcome_unknown", "absent"}
      [] OTHER -> TASK_TRANSITIONS[s] \cup {"absent"}
                  \cup (IF "queued" \in TASK_TRANSITIONS[s] THEN {"running"} ELSE {})

RunningTasks == {t \in Tasks : status[t] = "running"}

Init == status = [t \in Tasks |-> "absent"]

\* Restart recovery moves several tasks at once.
Advance ==
    /\ status' \in [Tasks -> TaskState \cup {"absent"}]
    /\ \A t \in Tasks : status'[t] = status[t] \/ status'[t] \in Reachable(status[t])
    /\ Cardinality(RunningTasks') <= MaxConcurrency

Spec == Init /\ [][Advance]_status
=============================================================================
