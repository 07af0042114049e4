----------------------------- MODULE TaskService -----------------------------
(***************************************************************************)
(* The persistent task service (app/tasks/service.py) behind the task      *)
(* routes of app/routers/tasks.py, the unleased check handlers             *)
(* (discover_assets, execute_source_check) and the restart recovery of     *)
(* app/main.py.                                                            *)
(*                                                                         *)
(* A web request runs in its own database session.  It SELECTs the row     *)
(* outside any transaction (SQLite opens one at the first UPDATE), so any  *)
(* other request may commit between that SELECT and its conditional        *)
(* UPDATE: Load and the action that follows it are separate steps.  From   *)
(* the first UPDATE to the commit SQLite's write lock is held, so that     *)
(* part is one step.                                                       *)
(*                                                                         *)
(* A task is named by its unique intent_key.                               *)
(***************************************************************************)
EXTENDS TaskContracts, Sequences

CONSTANTS
    Tasks,           \* intent keys
    Sessions,        \* web requests that may be in flight together
    MaxConcurrency,  \* settings.task_max_concurrency
    WorkStages,      \* the stages a leased executor may report
    MaxVersion,      \* bound: requests only load rows below this version
    NoRow            \* no row with this intent_key

ASSUME MaxConcurrencyAssumption == MaxConcurrency \in Nat \ {0}
ASSUME WorkStagesAssumption == WorkStages \subseteq Stages
ASSUME MaxVersionAssumption == MaxVersion \in Nat
ASSUME SessionsAssumption == NoOwner \notin Sessions
ASSUME TasksAssumption == IsFiniteSet(Tasks)

VARIABLES
    task,    \* operation_tasks
    events,  \* task_events: the from/to states of each row, in version order
    linked,  \* tasks that an item_local_assets row references
    req,     \* per session: what its request is doing
    app      \* "up", "down" (crashed or stopped), "failed" (startup raised)

vars == <<task, events, linked, req, app>>

RowType == [state : TaskState, version : Nat, stage : Stages, cancel : BOOLEAN,
            owner : Sessions \cup {NoOwner}, gen : Nat, live : BOOLEAN]

ASSUME NoRowAssumption == NoRow \notin RowType

Ops == {"start", "resume", "pause", "cancel", "retry", "delete"}

Idle == [pc |-> "idle"]
ReqType ==
    {Idle}
    \cup [pc : {"loaded"}, op : Ops, task : Tasks, row : RowType, room : BOOLEAN]
    \cup [pc : {"leased"}, task : Tasks, gen : Nat]
    \cup [pc : {"verifying"}, task : Tasks, version : Nat]
    \cup [pc : {"checking"}, task : Tasks]

----------------------------------------------------------------------------

Running(db) == {t \in Tasks : db[t] # NoRow /\ db[t].state = "running"}

\* The subquery running_count < max_concurrency of a claim of t.
HasRoom(db, t) == Cardinality(Running(db) \ {t}) < MaxConcurrency

Event(from, to) == [from |-> from, to |-> to]

Init ==
    /\ task = [t \in Tasks |-> NoRow]
    /\ events = [t \in Tasks |-> << >>]
    /\ linked = {}
    /\ req = [s \in Sessions |-> Idle]
    /\ app = "up"

\* create() and the commit of a confirm route; a second confirm of the same
\* intent returns the existing row and writes nothing.
Create(s, t) ==
    /\ app = "up" /\ req[s] = Idle
    /\ task[t] = NoRow
    /\ task' = [task EXCEPT ![t] = NewRow("queued")]
    /\ events' = [events EXCEPT ![t] = <<Event("none", "queued")>>]
    /\ UNCHANGED <<linked, req, app>>

\* The SELECT of get(), and for a start also of the running count.
Load(s, t, op) ==
    /\ app = "up" /\ req[s] = Idle
    /\ task[t] # NoRow /\ task[t].version < MaxVersion
    /\ req' = [req EXCEPT ![s] = [pc |-> "loaded", op |-> op, task |-> t, row |-> task[t],
                                  room |-> HasRoom(task, t)]]
    /\ UNCHANGED <<task, events, linked, app>>

Loaded(s, op) == app = "up" /\ req[s].pc = "loaded" /\ req[s].op = op

\* Mutant of TransitionAccepted: the UPDATE names only the id.
TransitionUnconditional(seen, current, target) ==
    can_transition(seen.state, target) /\ current # NoRow

\* transition()'s checks on the loaded row and the WHERE clause of its UPDATE.
TransitionAccepted(seen, current, target) ==
    /\ can_transition(seen.state, target)
    /\ current # NoRow
    /\ current.version = seen.version
    /\ current.state = seen.state

\* transition() with the commit of the route that called it.
Commit(s, row, moves) ==
    LET t == req[s].task IN
    /\ task' = [task EXCEPT ![t] = row]
    /\ events' = [events EXCEPT ![t] = @ \o moves]

PauseAccepted(s) == TransitionAccepted(req[s].row, task[req[s].task], "paused")

Pause(s) ==
    /\ Loaded(s, "pause") /\ PauseAccepted(s)
    /\ LET row == task[req[s].task] IN
       Commit(s, TransitionRow(row, "paused"), <<Event(row.state, "paused")>>)
    /\ req' = [req EXCEPT ![s] = Idle]
    /\ UNCHANGED <<linked, app>>

CancelTarget(row) == IF row.state = "running" THEN "cancelling" ELSE "cancelled"

CancelAccepted(s) ==
    LET seen == req[s].row IN
    /\ seen.state \notin CLOSED_TASK_STATES
    /\ TransitionAccepted(seen, task[req[s].task], CancelTarget(seen))

Cancel(s) ==
    /\ Loaded(s, "cancel") /\ CancelAccepted(s)
    /\ LET row    == task[req[s].task]
           target == CancelTarget(req[s].row)
       IN Commit(s, [TransitionRow(row, target) EXCEPT !.cancel = TRUE],
                 <<Event(row.state, target)>>)
    /\ req' = [req EXCEPT ![s] = Idle]
    /\ UNCHANGED <<linked, app>>

RetryAccepted(s) ==
    LET seen == req[s].row IN
    /\ seen.state \in {"failed", "blocked"}
    /\ seen.stage \notin RecoveryReviewStages
    /\ TransitionAccepted(seen, task[req[s].task], "queued")

Retry(s) ==
    /\ Loaded(s, "retry") /\ RetryAccepted(s)
    /\ LET row == task[req[s].task] IN
       Commit(s, TransitionRow(row, "queued"), <<Event(row.state, "queued")>>)
    /\ req' = [req EXCEPT ![s] = Idle]
    /\ UNCHANGED <<linked, app>>

\* The state check reads the loaded row; the DELETE names only the id, and the
\* foreign key of item_local_assets refuses it for a linked task.
DeleteAccepted(s) ==
    /\ req[s].row.state \in CLOSED_TASK_STATES \ {"outcome_unknown"}
    /\ req[s].task \notin linked

DeleteHistory(s) ==
    /\ Loaded(s, "delete") /\ DeleteAccepted(s)
    /\ task' = [task EXCEPT ![req[s].task] = NoRow]
    /\ events' = [events EXCEPT ![req[s].task] = << >>]
    /\ req' = [req EXCEPT ![s] = Idle]
    /\ UNCHANGED <<linked, app>>

\* The row a claim works on: resume requeues it first, in the same transaction.
ClaimBase(s) ==
    LET row == task[req[s].task] IN
    IF req[s].op = "resume" THEN TransitionRow(row, "queued") ELSE row

\* Mutant of ClaimAccepted: the running count is only read before the UPDATE.
ClaimWithoutRecount(s) ==
    LET t == req[s].task IN
    /\ TransitionAccepted(req[s].row, task[t],
                          IF req[s].op = "resume" THEN "queued" ELSE "running")
    /\ req[s].room
    /\ LeaseFree(ClaimBase(s), s) /\ ~ClaimBase(s).cancel

ClaimAccepted(s) ==
    LET t == req[s].task IN
    /\ TransitionAccepted(req[s].row, task[t],
                          IF req[s].op = "resume" THEN "queued" ELSE "running")
    /\ req[s].op = "start" => req[s].room
    /\ HasRoom(task, t)
    /\ LeaseFree(ClaimBase(s), s) /\ ~ClaimBase(s).cancel

\* _run_download: (re)queue, run, acquire the lease, commit.
Claim(s) ==
    /\ Loaded(s, "start") \/ Loaded(s, "resume")
    /\ ClaimAccepted(s)
    /\ LET row   == task[req[s].task]
           base  == ClaimBase(s)
           claim == AcquireRow(TransitionRow(base, "running"), s)
           moves == IF req[s].op = "resume"
                    THEN <<Event(row.state, "queued"), Event("queued", "running")>>
                    ELSE <<Event(row.state, "running")>>
       IN /\ Commit(s, claim, moves)
          /\ req' = [req EXCEPT ![s] = [pc |-> "leased", task |-> req[s].task,
                                        gen |-> claim.gen]]
    /\ UNCHANGED <<linked, app>>

Accepted(s) ==
    CASE req[s].op = "pause"  -> PauseAccepted(s)
      [] req[s].op = "cancel" -> CancelAccepted(s)
      [] req[s].op = "retry"  -> RetryAccepted(s)
      [] req[s].op = "delete" -> DeleteAccepted(s)
      [] OTHER                -> ClaimAccepted(s)

\* Any TaskTransitionError or IntegrityError: rollback, nothing written.
Refuse(s) ==
    /\ app = "up" /\ req[s].pc = "loaded"
    /\ ~Accepted(s)
    /\ req' = [req EXCEPT ![s] = Idle]
    /\ UNCHANGED <<task, events, linked, app>>

----------------------------------------------------------------------------
(* A leased executor, as the service sees it. *)

Working(s) == app = "up" /\ req[s].pc = "leased"

Fenced(s) ==
    LET row == task[req[s].task] IN
    row # NoRow /\ FenceHolds(row, s, req[s].gen)

\* heartbeat() and its commit; the db_linked report carries the ItemLocalAsset.
Heartbeat(s, stage) ==
    /\ Working(s) /\ Fenced(s)
    /\ task' = [task EXCEPT ![req[s].task] = HeartbeatRow(@, stage)]
    /\ linked' = IF stage = "db_linked" THEN linked \cup {req[s].task} ELSE linked
    /\ UNCHANGED <<events, req, app>>

Succeed(s) ==
    /\ Working(s) /\ Fenced(s)
    /\ LET done == [TransitionRow(task[req[s].task], "succeeded")
                        EXCEPT !.stage = "durable_verified"]
       IN /\ Commit(s, done, <<Event("running", "succeeded")>>)
          /\ req' = [req EXCEPT ![s] = [pc |-> "verifying", task |-> req[s].task,
                                        version |-> done.version]]
    /\ UNCHANGED <<linked, app>>

\* The executor's error path: the row it reads is whatever is there now.
Stop(s, target) ==
    /\ Working(s)
    /\ LET row == task[req[s].task] IN
       /\ row # NoRow /\ row.state \in {"running", "cancelling"}
       /\ can_transition(row.state, target)
       /\ Commit(s, TransitionRow(row, target), <<Event(row.state, target)>>)
    /\ req' = [req EXCEPT ![s] = Idle]
    /\ UNCHANGED <<linked, app>>

\* LEASE_LOST, LEASE_CONFLICT or PAUSED: the row is left as it is.
Abandon(s) ==
    /\ Working(s) /\ ~Fenced(s)
    /\ req' = [req EXCEPT ![s] = Idle]
    /\ UNCHANGED <<task, events, linked, app>>

\* mark_verification_unknown(), or a final verification that holds.
Verify(s, proved) ==
    /\ app = "up" /\ req[s].pc = "verifying"
    /\ LET t == req[s].task
           row == task[t]
           downgrade == /\ ~proved /\ row # NoRow
                        /\ row.state = "succeeded" /\ row.stage = "durable_verified"
                        /\ row.version = req[s].version
       IN IF downgrade
          THEN Commit(s, UnknownRow(row), <<Event("succeeded", "outcome_unknown")>>)
          ELSE UNCHANGED <<task, events>>
    /\ req' = [req EXCEPT ![s] = Idle]
    /\ UNCHANGED <<linked, app>>

----------------------------------------------------------------------------
(* Source and asset checks: one provider call under a RUNNING task without *)
(* a lease.                                                                *)

StartCheck(s, t) ==
    /\ app = "up" /\ req[s] = Idle
    /\ task[t] = NoRow /\ HasRoom(task, t)
    /\ task' = [task EXCEPT ![t] = TransitionRow(NewRow("queued"), "running")]
    /\ events' = [events EXCEPT ![t] = <<Event("none", "queued"), Event("queued", "running")>>]
    /\ req' = [req EXCEPT ![s] = [pc |-> "checking", task |-> t]]
    /\ UNCHANGED <<linked, app>>

\* After the await: SUCCEEDED or FAILED if the row is still RUNNING, else untouched.
FinishCheck(s, target) ==
    /\ app = "up" /\ req[s].pc = "checking"
    /\ LET row == task[req[s].task] IN
       IF row # NoRow /\ row.state = "running"
       THEN Commit(s, TransitionRow(row, target), <<Event("running", target)>>)
       ELSE UNCHANGED <<task, events>>
    /\ req' = [req EXCEPT ![s] = Idle]
    /\ UNCHANGED <<linked, app>>

----------------------------------------------------------------------------
(* Time, crash and restart. *)

ExpireLease(t) ==
    /\ task[t] # NoRow /\ task[t].live
    /\ task' = [task EXCEPT ![t].live = FALSE]
    /\ UNCHANGED <<events, linked, req, app>>

Crash ==
    /\ app = "up"
    /\ app' = "down"
    /\ req' = [s \in Sessions |-> Idle]
    /\ UNCHANGED <<task, events, linked>>

Interrupted == {t \in Tasks : task[t] # NoRow /\ task[t].state \in {"running", "cancelling"}}

RecoveryAccepted == \A t \in Interrupted : can_transition(task[t].state, RecoveryTarget(task[t]))

\* recover_interrupted() in the lifespan: one transaction for all rows; the
\* first refused transition raises out of startup and rolls all of them back.
Startup ==
    /\ app \in {"down", "failed"}
    /\ IF RecoveryAccepted
       THEN /\ task' = [t \in Tasks |-> IF t \in Interrupted
                                        THEN TransitionRow(task[t], RecoveryTarget(task[t]))
                                        ELSE task[t]]
            /\ events' = [t \in Tasks |->
                             IF t \in Interrupted
                             THEN Append(events[t], Event(task[t].state, RecoveryTarget(task[t])))
                             ELSE events[t]]
            /\ app' = "up"
       ELSE /\ app' = "failed"
            /\ UNCHANGED <<task, events>>
    /\ UNCHANGED <<linked, req>>

----------------------------------------------------------------------------

SessionStep(s) ==
    \/ \E t \in Tasks : \/ Create(s, t)
                        \/ \E op \in Ops : Load(s, t, op)
                        \/ StartCheck(s, t)
    \/ Pause(s) \/ Cancel(s) \/ Retry(s) \/ DeleteHistory(s) \/ Claim(s) \/ Refuse(s)
    \/ \E stage \in WorkStages : Heartbeat(s, stage)
    \/ Succeed(s)
    \/ \E target \in {"failed", "cancelled", "outcome_unknown"} : Stop(s, target)
    \/ Abandon(s)
    \/ \E proved \in BOOLEAN : Verify(s, proved)
    \/ \E target \in {"succeeded", "failed"} : FinishCheck(s, target)

Next ==
    \/ \E s \in Sessions : SessionStep(s)
    \/ \E t \in Tasks : ExpireLease(t)
    \/ Crash
    \/ Startup

Spec == Init /\ [][Next]_vars

----------------------------------------------------------------------------
(* Properties *)

TypeOK ==
    /\ task \in [Tasks -> RowType \cup {NoRow}]
    /\ events \in [Tasks -> Seq([from : TaskState \cup {"none"}, to : TaskState])]
    /\ linked \subseteq Tasks
    /\ req \in [Sessions -> ReqType]
    /\ app \in {"up", "down", "failed"}

\* A move the matrix allows, or the downgrade of an unprovable success.
LegalMove(e) ==
    \/ e.from \in TaskState /\ can_transition(e.from, e.to)
    \/ e.from = "succeeded" /\ e.to = "outcome_unknown"

\* The event history of a row is complete: version many events, the first one
\* its creation, each one a legal move from where the previous one ended, the
\* last one ending in the row's state.  Two requests that loaded the same row
\* must never both commit (the optimistic version of transition()).
HistoryFaithful ==
    \A t \in Tasks : task[t] # NoRow =>
        /\ Len(events[t]) = task[t].version
        /\ events[t][1].from = "none"
        /\ events[t][Len(events[t])].to = task[t].state
        /\ \A i \in 2..Len(events[t]) :
              /\ events[t][i].from = events[t][i - 1].to
              /\ LegalMove(events[t][i])

\* Concurrent Start and Resume claims never run more tasks than configured,
\* whatever count each of them saw before its UPDATE (transition()).
ConcurrencyBound == Cardinality(Running(task)) <= MaxConcurrency

\* A cancel request sticks: the task cannot run, be queued or succeed again
\* until a requeue has cleared the flag (request_cancel(), transition()).
CancelSticks ==
    \A t \in Tasks : task[t] # NoRow /\ task[t].cancel =>
        task[t].state \in {"cancelling", "cancelled", "failed", "outcome_unknown"}

\* A dead lease comes back to life only as a new claim with a new generation;
\* a late heartbeat of the old holder cannot renew it (heartbeat(),
\* acquire_lease()).
DeadLeaseStaysDead ==
    [][\A t \in Tasks :
          task[t] # NoRow /\ task'[t] # NoRow /\ ~task[t].live /\ task'[t].live
          => task'[t].gen = task[t].gen + 1]_vars

\* While a claim's fence holds, no other claim of that task can report progress
\* and the generation it holds is the row's newest (acquire_lease()).
LeaseIsNewest ==
    \A s \in Sessions : Working(s) /\ task[req[s].task] # NoRow =>
        LET row == task[req[s].task] IN
        /\ row.live /\ row.owner = s => row.gen = req[s].gen
        /\ row.owner = s => row.state \in {"running", "cancelling"}

\* The task of a linked local asset keeps its row, even when the link commits
\* between delete_history()'s checks and its DELETE.
LinkedHistoryKept == \A t \in linked : task[t] # NoRow

\* Restart recovery turns interrupted work into paused or blocked work; it
\* never keeps the application from starting.
StartupSucceeds == app # "failed"

\* Row, history, lease and link of a task agree in every state, whatever two
\* requests did to it meanwhile (transition(), acquire_lease(), delete_history()).
RowFactsAgree == HistoryFaithful /\ LinkedHistoryKept /\ LeaseIsNewest
=============================================================================
