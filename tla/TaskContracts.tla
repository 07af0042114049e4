---------------------------- MODULE TaskContracts ----------------------------
(***************************************************************************)
(* The closed task state matrix of app/tasks/contracts.py and the row      *)
(* updates of app/tasks/service.py, as operators on one row of the         *)
(* operation_tasks table.  The modules that own the table (TaskService,    *)
(* DownloadExecutor, LocalWorkflow) apply them inside their transactions.  *)
(*                                                                         *)
(* A row keeps the columns the control flow reads: state, version, stage,  *)
(* cancel_requested and the lease.  lease_expires_at is kept as one bit,   *)
(* live: the expiry is set and lies in the future.  The display columns    *)
(* (timestamps, attempt_count, redacted error text) are left out.          *)
(***************************************************************************)
EXTENDS Naturals, FiniteSets

CONSTANT NoOwner     \* lease_owner IS NULL

TaskState == {"planned", "awaiting_confirmation", "queued", "running", "paused",
              "cancelling", "cancelled", "succeeded", "failed", "blocked",
              "outcome_unknown"}

CLOSED_TASK_STATES == {"cancelled", "succeeded", "failed", "outcome_unknown"}

TASK_TRANSITIONS ==
    [s \in TaskState |->
        CASE s = "planned"    -> {"awaiting_confirmation", "queued", "cancelled"}
          [] s = "awaiting_confirmation" -> {"queued", "cancelled"}
          [] s = "queued"     -> {"running", "paused", "cancelling", "cancelled", "blocked"}
          [] s = "running"    -> {"paused", "cancelling", "succeeded", "failed", "blocked",
                                  "outcome_unknown"}
          [] s = "cancelling" -> {"cancelled", "failed", "outcome_unknown"}
          [] s \in {"paused", "failed", "blocked"} -> {"queued", "cancelled"}
          [] OTHER            -> {}]

can_transition(current, target) == target \in TASK_TRANSITIONS[current]

\* Stages at which a task may already own a published file or a link.
RecoveryReviewStages == {"published", "db_linked", "index_coordinated", "durable_verified"}

(* Every stage the executors write; "planned" is the stage of a new row. *)
Stages == {"planned", "downloading", "verified", "integrity_check", "validation_failed",
           "recovery_required", "verification_unknown"} \cup RecoveryReviewStages

\* PAUSED, BLOCKED, QUEUED and the closed states drop the lease; CANCELLING keeps it.
ClearsLease == {"paused", "blocked", "queued"} \cup CLOSED_TASK_STATES

NewRow(initial) ==
    [state |-> initial, version |-> 1, stage |-> "planned", cancel |-> FALSE,
     owner |-> NoOwner, gen |-> 0, live |-> FALSE]

\* Mutant of TransitionRow: a requeue forgets to clear cancel_requested.
TransitionRowKeepsCancel(row, target) ==
    [row EXCEPT !.state   = target,
                !.version = @ + 1,
                !.owner   = IF target \in ClearsLease THEN NoOwner ELSE @,
                !.live    = IF target \in ClearsLease THEN FALSE ELSE @]

\* Mutant of TransitionRow: only closed states drop the lease.
TransitionRowKeepsLease(row, target) ==
    [row EXCEPT !.state   = target,
                !.version = @ + 1,
                !.owner   = IF target \in CLOSED_TASK_STATES THEN NoOwner ELSE @,
                !.live    = IF target \in CLOSED_TASK_STATES THEN FALSE ELSE @,
                !.cancel  = IF target = "queued" THEN FALSE ELSE @]

\* The values of transition()'s UPDATE; lease_generation is never reset.
TransitionRow(row, target) ==
    [row EXCEPT !.state   = target,
                !.version = @ + 1,
                !.owner   = IF target \in ClearsLease THEN NoOwner ELSE @,
                !.live    = IF target \in ClearsLease THEN FALSE ELSE @,
                !.cancel  = IF target = "queued" THEN FALSE ELSE @]

LeaseFree(row, owner) == ~row.live \/ row.owner = owner

AcquireRow(row, owner) ==
    [row EXCEPT !.owner = owner, !.gen = @ + 1, !.live = TRUE]

\* Mutant of FenceHolds: the expiry is not in the WHERE clause.
FenceIgnoresExpiry(row, owner, gen) ==
    row.state = "running" /\ row.owner = owner /\ row.gen = gen /\ ~row.cancel

\* The WHERE clause of heartbeat(): only the live lease of this very claim passes.
FenceHolds(row, owner, gen) ==
    /\ row.state = "running"
    /\ row.owner = owner
    /\ row.gen = gen
    /\ row.live
    /\ ~row.cancel

HeartbeatRow(row, stage) == [row EXCEPT !.live = TRUE, !.stage = stage]

\* Mutant of UnknownRow: the state's name is stored as the stage.
UnknownRowWrongStage(row) ==
    [row EXCEPT !.state = "outcome_unknown", !.stage = "outcome_unknown",
                !.version = @ + 1, !.owner = NoOwner, !.live = FALSE]

\* mark_verification_unknown(): the one move that is outside the matrix.
UnknownRow(row) ==
    [row EXCEPT !.state = "outcome_unknown", !.stage = "verification_unknown",
                !.version = @ + 1, !.owner = NoOwner, !.live = FALSE]

\* Where restart recovery sends an interrupted row.
RecoveryTarget(row) == IF row.stage \in RecoveryReviewStages THEN "blocked" ELSE "paused"
=============================================================================
