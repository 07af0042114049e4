-------------------------- MODULE TaskServiceProofs --------------------------
(***************************************************************************)
(* Proofs about TaskService, for any tasks, sessions and concurrency       *)
(* limit: its rows and sessions stay well typed; what a step does to a row *)
(* is proved once for all actions, and from it that a cancel sticks, a     *)
(* dead lease stays dead, the stored facts of a row agree with each other, *)
(* the concurrency limit holds, and the service implements TaskLifecycle.  *)
(***************************************************************************)
EXTENDS TaskRefinement, FiniteSetTheorems, TLAPS

----------------------------------------------------------------------------
(* The row updates keep a row well typed. *)

\* transition() leaves a well-typed row.
LEMMA TransitionRowType ==
    ASSUME NEW row \in RowType, NEW target \in TaskState
    PROVE  TransitionRow(row, target) \in RowType
<1>1. /\ row.version + 1 \in Nat
      /\ (IF target \in ClearsLease THEN NoOwner ELSE row.owner) \in Sessions \cup {NoOwner}
      /\ row.stage \in Stages /\ row.gen \in Nat
  BY DEF RowType
<1>2. row.live \in BOOLEAN /\ row.cancel \in BOOLEAN
  BY DEF RowType
<1>3. (IF target \in ClearsLease THEN FALSE ELSE row.live) \in BOOLEAN
  BY <1>2, Zenon
<1>4. (IF target = "queued" THEN FALSE ELSE row.cancel) \in BOOLEAN
  BY <1>2, Zenon
<1> QED
  BY <1>1, <1>3, <1>4 DEF RowType, TransitionRow

\* create() makes a well-typed row.
LEMMA NewRowType == NewRow("queued") \in RowType
BY DEF NewRow, RowType, TaskState, Stages

\* acquire_lease(), heartbeat() and mark_verification_unknown() do too.
LEMMA LeaseRowTypes ==
    ASSUME NEW row \in RowType
    PROVE  /\ \A s \in Sessions : AcquireRow(row, s) \in RowType
           /\ \A stage \in Stages : HeartbeatRow(row, stage) \in RowType
           /\ UnknownRow(row) \in RowType
<1>0. row.gen + 1 \in Nat /\ row.version + 1 \in Nat
  BY DEF RowType
<1>1. ASSUME NEW s \in Sessions PROVE AcquireRow(row, s) \in RowType
  BY <1>0 DEF RowType, AcquireRow
<1>2. ASSUME NEW stage \in Stages PROVE HeartbeatRow(row, stage) \in RowType
  BY DEF RowType, HeartbeatRow
<1>3. "outcome_unknown" \in TaskState /\ "verification_unknown" \in Stages
  BY DEF TaskState, Stages
<1>4. UnknownRow(row) \in RowType
  BY <1>0, <1>3 DEF RowType, UnknownRow
<1> QED
  BY <1>1, <1>2, <1>4

\* Every target of the matrix is a state.
LEMMA MatrixType ==
    ASSUME NEW s \in TaskState, NEW target, can_transition(s, target)
    PROVE  target \in TaskState
BY DEF can_transition, TASK_TRANSITIONS, TaskState

EventType == [from : TaskState \cup {"none"}, to : TaskState]

\* An event between two states is well typed.
LEMMA EventTyped ==
    ASSUME NEW from \in TaskState \cup {"none"}, NEW to \in TaskState
    PROVE  Event(from, to) \in EventType
BY DEF Event, EventType

\* The request record that goes with each program counter.
LEMMA ReqShapes ==
    ASSUME NEW r \in ReqType
    PROVE  /\ r.pc = "loaded" => /\ r.op \in Ops /\ r.task \in Tasks
                                 /\ r.row \in RowType /\ r.room \in BOOLEAN
           /\ r.pc = "leased" => r.task \in Tasks /\ r.gen \in Nat
           /\ r.pc = "verifying" => r.task \in Tasks /\ r.version \in Nat
           /\ r.pc = "checking" => r.task \in Tasks
BY DEF ReqType, Idle

\* Committing a typed row and typed moves keeps the two tables typed.
LEMMA CommitType ==
    ASSUME TypeOK, NEW s \in Sessions, req[s].task \in Tasks,
           NEW row \in RowType, NEW moves \in Seq(EventType), Commit(s, row, moves)
    PROVE  /\ task' \in [Tasks -> RowType \cup {NoRow}]
           /\ events' \in [Tasks -> Seq(EventType)]
<1>1. events \in [Tasks -> Seq(EventType)]
  BY DEF TypeOK, EventType
<1>2. events[req[s].task] \o moves \in Seq(EventType)
  BY <1>1
<1> QED
  BY <1>1, <1>2 DEF TypeOK, Commit
----------------------------------------------------------------------------
(* Type correctness. *)

\* A row a session works on is typed unless it is gone.
LEMMA CurrentRowType ==
    ASSUME TypeOK, NEW t \in Tasks, task[t] # NoRow
    PROVE  task[t] \in RowType /\ task[t].state \in TaskState
BY DEF TypeOK, RowType

\* The routes that end in one transition keep the types.
LEMMA TransitionCommitType ==
    ASSUME TypeOK, NEW s \in Sessions, req[s].task \in Tasks, task[req[s].task] # NoRow,
           NEW target \in TaskState, NEW row \in RowType,
           Commit(s, row, <<Event(task[req[s].task].state, target)>>)
    PROVE  /\ task' \in [Tasks -> RowType \cup {NoRow}]
           /\ events' \in [Tasks -> Seq(EventType)]
<1>1. task[req[s].task].state \in TaskState
  BY CurrentRowType
<1>2. <<Event(task[req[s].task].state, target)>> \in Seq(EventType)
  BY <1>1, EventTyped
<1> QED
  BY <1>2, CommitType

\* Every step of the service keeps the types.
LEMMA TypeStep == TypeOK /\ [Next]_vars => TypeOK'
<1> SUFFICES ASSUME TypeOK, [Next]_vars PROVE TypeOK'
  OBVIOUS
<1>t. events \in [Tasks -> Seq(EventType)]
  BY DEF TypeOK, EventType
<1>i. Idle \in ReqType
  BY DEF ReqType
<1>q. {"queued", "running", "paused", "cancelling", "cancelled", "succeeded", "failed",
       "outcome_unknown", "blocked"} \subseteq TaskState
  BY DEF TaskState
<1>r. ASSUME NEW s \in Sessions, NEW r \in ReqType, req' = [req EXCEPT ![s] = r]
      PROVE  req' \in [Sessions -> ReqType]
  BY <1>r DEF TypeOK
<1>x. ASSUME task' \in [Tasks -> RowType \cup {NoRow}], events' \in [Tasks -> Seq(EventType)],
             linked' \subseteq Tasks, req' \in [Sessions -> ReqType],
             app' \in {"up", "down", "failed"}
      PROVE  TypeOK'
  BY <1>x DEF TypeOK, EventType
<1>1. ASSUME NEW s \in Sessions, NEW t \in Tasks, Create(s, t) PROVE TypeOK'
  <2>1. <<Event("none", "queued")>> \in Seq(EventType)
    BY EventTyped, <1>q
  <2>2. task' \in [Tasks -> RowType \cup {NoRow}]
    BY <1>1, NewRowType DEF Create, TypeOK
  <2>3. events' \in [Tasks -> Seq(EventType)]
    BY <1>1, <1>t, <2>1 DEF Create
  <2> QED
    BY <1>1, <1>x, <2>2, <2>3 DEF Create, TypeOK
<1>2. ASSUME NEW s \in Sessions, NEW t \in Tasks, NEW op \in Ops, Load(s, t, op) PROVE TypeOK'
  <2>1. task[t] \in RowType
    BY <1>2, CurrentRowType DEF Load
  <2>2. HasRoom(task, t) \in BOOLEAN
    BY DEF HasRoom
  <2>3. [pc |-> "loaded", op |-> op, task |-> t, row |-> task[t], room |-> HasRoom(task, t)] \in ReqType
    BY <2>1, <2>2 DEF ReqType
  <2>4. req' \in [Sessions -> ReqType]
    BY <1>2, <1>r, <2>3 DEF Load
  <2> QED
    BY <1>2, <1>x, <1>t, <2>4 DEF Load, TypeOK
<1>3. ASSUME NEW s \in Sessions, Pause(s) PROVE TypeOK'
  <2>1. req[s].task \in Tasks /\ task[req[s].task] # NoRow
    BY <1>3, ReqShapes DEF Pause, Loaded, PauseAccepted, TransitionAccepted, TypeOK
  <2>2. TransitionRow(task[req[s].task], "paused") \in RowType
    BY <2>1, <1>q, CurrentRowType, TransitionRowType
  <2>3. /\ task' \in [Tasks -> RowType \cup {NoRow}] /\ events' \in [Tasks -> Seq(EventType)]
    BY <1>3, <2>1, <2>2, <1>q, TransitionCommitType DEF Pause
  <2> QED
    BY <1>3, <1>x, <1>r, <1>i, <2>3 DEF Pause, TypeOK
<1>4. ASSUME NEW s \in Sessions, Cancel(s) PROVE TypeOK'
  <2>1. req[s].task \in Tasks /\ task[req[s].task] # NoRow
    BY <1>4, ReqShapes DEF Cancel, Loaded, CancelAccepted, TransitionAccepted, TypeOK
  <2> DEFINE target == CancelTarget(req[s].row)
             row    == [TransitionRow(task[req[s].task], target) EXCEPT !.cancel = TRUE]
  <2>2. target \in TaskState
    BY <1>q DEF CancelTarget
  <2>3. TransitionRow(task[req[s].task], target) \in RowType
    BY <2>1, <2>2, CurrentRowType, TransitionRowType
  <2>4. row \in RowType
    BY <2>3 DEF RowType
  <2>5. Commit(s, row, <<Event(task[req[s].task].state, target)>>)
    BY <1>4 DEF Cancel
  <2>6. /\ task' \in [Tasks -> RowType \cup {NoRow}] /\ events' \in [Tasks -> Seq(EventType)]
    BY <2>1, <2>2, <2>4, <2>5, TransitionCommitType
  <2> QED
    BY <1>4, <1>x, <1>r, <1>i, <2>6 DEF Cancel, TypeOK
<1>5. ASSUME NEW s \in Sessions, Retry(s) PROVE TypeOK'
  <2>1. req[s].task \in Tasks /\ task[req[s].task] # NoRow
    BY <1>5, ReqShapes DEF Retry, Loaded, RetryAccepted, TransitionAccepted, TypeOK
  <2>2. TransitionRow(task[req[s].task], "queued") \in RowType
    BY <2>1, <1>q, CurrentRowType, TransitionRowType
  <2>3. /\ task' \in [Tasks -> RowType \cup {NoRow}] /\ events' \in [Tasks -> Seq(EventType)]
    BY <1>5, <2>1, <2>2, <1>q, TransitionCommitType DEF Retry
  <2> QED
    BY <1>5, <1>x, <1>r, <1>i, <2>3 DEF Retry, TypeOK
<1>6. ASSUME NEW s \in Sessions, DeleteHistory(s) PROVE TypeOK'
  <2>1. req[s].task \in Tasks
    BY <1>6, ReqShapes DEF DeleteHistory, Loaded, TypeOK
  <2>2. << >> \in Seq(EventType)
    OBVIOUS
  <2>3. task' \in [Tasks -> RowType \cup {NoRow}] /\ events' \in [Tasks -> Seq(EventType)]
    BY <1>6, <1>t, <2>1, <2>2 DEF DeleteHistory, TypeOK
  <2> QED
    BY <1>6, <1>x, <1>r, <1>i, <2>3 DEF DeleteHistory, TypeOK
<1>7. ASSUME NEW s \in Sessions, Claim(s) PROVE TypeOK'
  <2>1. req[s].task \in Tasks /\ task[req[s].task] # NoRow
    BY <1>7, ReqShapes DEF Claim, Loaded, ClaimAccepted, TransitionAccepted, TypeOK
  <2>2. task[req[s].task] \in RowType /\ task[req[s].task].state \in TaskState
    BY <2>1, CurrentRowType
  <2>3. ClaimBase(s) \in RowType
    BY <2>2, <1>q, TransitionRowType DEF ClaimBase
  <2> DEFINE claim == AcquireRow(TransitionRow(ClaimBase(s), "running"), s)
             moves == IF req[s].op = "resume"
                      THEN <<Event(task[req[s].task].state, "queued"), Event("queued", "running")>>
                      ELSE <<Event(task[req[s].task].state, "running")>>
  <2>4. claim \in RowType
    BY <2>3, <1>q, TransitionRowType, LeaseRowTypes
  <2>5. /\ Event(task[req[s].task].state, "queued") \in EventType
        /\ Event(task[req[s].task].state, "running") \in EventType
        /\ Event("queued", "running") \in EventType
    BY <2>2, <1>q, EventTyped
  <2>6. moves \in Seq(EventType)
    BY <2>5
  <2>7. Commit(s, claim, moves)
    BY <1>7 DEF Claim
  <2>8. task' \in [Tasks -> RowType \cup {NoRow}] /\ events' \in [Tasks -> Seq(EventType)]
    BY <2>1, <2>4, <2>6, <2>7, CommitType
  <2>9. [pc |-> "leased", task |-> req[s].task, gen |-> claim.gen] \in ReqType
    <3>1. claim.gen \in Nat
      BY <2>4 DEF RowType
    <3> QED
      BY <3>1, <2>1 DEF ReqType
  <2>10. req' \in [Sessions -> ReqType]
    BY <1>7, <2>9, <1>r DEF Claim
  <2> QED
    BY <1>7, <1>x, <2>8, <2>10 DEF Claim, TypeOK
<1>8. ASSUME NEW s \in Sessions, Refuse(s) \/ Abandon(s) PROVE TypeOK'
  BY <1>8, <1>x, <1>r, <1>i, <1>t DEF Refuse, Abandon, TypeOK
<1>9. ASSUME NEW s \in Sessions, NEW stage \in WorkStages, Heartbeat(s, stage) PROVE TypeOK'
  <2>1. req[s].task \in Tasks /\ task[req[s].task] # NoRow
    BY <1>9, ReqShapes DEF Heartbeat, Working, Fenced, TypeOK
  <2>2. HeartbeatRow(task[req[s].task], stage) \in RowType
    BY <2>1, CurrentRowType, LeaseRowTypes, WorkStagesAssumption
  <2>3. task' \in [Tasks -> RowType \cup {NoRow}] /\ linked' \subseteq Tasks
    BY <1>9, <2>1, <2>2 DEF Heartbeat, TypeOK
  <2> QED
    BY <1>9, <1>x, <1>t, <2>3 DEF Heartbeat, TypeOK
<1>10. ASSUME NEW s \in Sessions, Succeed(s) PROVE TypeOK'
  <2>1. req[s].task \in Tasks /\ task[req[s].task] # NoRow /\ task[req[s].task].state = "running"
    BY <1>10, ReqShapes DEF Succeed, Working, Fenced, FenceHolds, TypeOK
  <2> DEFINE done == [TransitionRow(task[req[s].task], "succeeded") EXCEPT !.stage = "durable_verified"]
  <2>2. TransitionRow(task[req[s].task], "succeeded") \in RowType
    BY <2>1, <1>q, CurrentRowType, TransitionRowType
  <2>3. "durable_verified" \in Stages
    BY DEF Stages, RecoveryReviewStages
  <2>4. done \in RowType /\ done.version \in Nat
    BY <2>2, <2>3 DEF RowType
  <2>5. Commit(s, done, <<Event("running", "succeeded")>>)
    BY <1>10 DEF Succeed
  <2>6. task' \in [Tasks -> RowType \cup {NoRow}] /\ events' \in [Tasks -> Seq(EventType)]
    BY <2>1, <2>4, <2>5, <1>q, TransitionCommitType
  <2>7. [pc |-> "verifying", task |-> req[s].task, version |-> done.version] \in ReqType
    BY <2>1, <2>4 DEF ReqType
  <2>8. req' \in [Sessions -> ReqType]
    BY <1>10, <2>7, <1>r DEF Succeed
  <2> QED
    BY <1>10, <1>x, <2>6, <2>8 DEF Succeed, TypeOK
<1>11. ASSUME NEW s \in Sessions, NEW target \in {"failed", "cancelled", "outcome_unknown"}, Stop(s, target)
       PROVE  TypeOK'
  <2>1. req[s].task \in Tasks /\ task[req[s].task] # NoRow
    BY <1>11, ReqShapes DEF Stop, Working, TypeOK
  <2>2. TransitionRow(task[req[s].task], target) \in RowType
    BY <2>1, <1>q, CurrentRowType, TransitionRowType
  <2>3. task' \in [Tasks -> RowType \cup {NoRow}] /\ events' \in [Tasks -> Seq(EventType)]
    BY <1>11, <2>1, <2>2, <1>q, TransitionCommitType DEF Stop
  <2> QED
    BY <1>11, <1>x, <1>r, <1>i, <2>3 DEF Stop, TypeOK
<1>12. ASSUME NEW s \in Sessions, NEW proved \in BOOLEAN, Verify(s, proved) PROVE TypeOK'
  <2>1. req[s].task \in Tasks
    BY <1>12, ReqShapes DEF Verify, TypeOK
  <2>2. task' \in [Tasks -> RowType \cup {NoRow}] /\ events' \in [Tasks -> Seq(EventType)]
    <3>1. CASE /\ task[req[s].task] # NoRow /\ task[req[s].task].state = "succeeded"
               /\ Commit(s, UnknownRow(task[req[s].task]), <<Event("succeeded", "outcome_unknown")>>)
      <4>1. UnknownRow(task[req[s].task]) \in RowType
        BY <3>1, <2>1, CurrentRowType, LeaseRowTypes
      <4> QED
        BY <3>1, <2>1, <4>1, <1>q, TransitionCommitType
    <3>2. CASE UNCHANGED <<task, events>>
      BY <3>2, <1>t DEF TypeOK
    <3> QED
      BY <1>12, <3>1, <3>2 DEF Verify
  <2> QED
    BY <1>12, <1>x, <1>r, <1>i, <2>2 DEF Verify, TypeOK
<1>13. ASSUME NEW s \in Sessions, NEW t \in Tasks, StartCheck(s, t) PROVE TypeOK'
  <2>1. TransitionRow(NewRow("queued"), "running") \in RowType
    BY NewRowType, TransitionRowType, <1>q
  <2>2. Event("none", "queued") \in EventType /\ Event("queued", "running") \in EventType
    BY <1>q, EventTyped
  <2>3. task' \in [Tasks -> RowType \cup {NoRow}]
    BY <1>13, <2>1 DEF StartCheck, TypeOK
  <2>4. events' \in [Tasks -> Seq(EventType)]
    BY <1>13, <2>2, <1>t DEF StartCheck
  <2>5. [pc |-> "checking", task |-> t] \in ReqType
    BY DEF ReqType
  <2>6. req' \in [Sessions -> ReqType]
    BY <1>13, <2>5, <1>r DEF StartCheck
  <2> QED
    BY <1>13, <1>x, <2>3, <2>4, <2>6 DEF StartCheck, TypeOK
<1>14. ASSUME NEW s \in Sessions, NEW target \in {"succeeded", "failed"}, FinishCheck(s, target)
       PROVE  TypeOK'
  <2>1. req[s].task \in Tasks
    BY <1>14, ReqShapes DEF FinishCheck, TypeOK
  <2>2. task' \in [Tasks -> RowType \cup {NoRow}] /\ events' \in [Tasks -> Seq(EventType)]
    <3>1. CASE task[req[s].task] # NoRow /\ task[req[s].task].state = "running"
      <4>1. TransitionRow(task[req[s].task], target) \in RowType
        BY <3>1, <2>1, <1>q, CurrentRowType, TransitionRowType
      <4>2. Commit(s, TransitionRow(task[req[s].task], target), <<Event("running", target)>>)
        BY <1>14, <3>1 DEF FinishCheck
      <4> QED
        BY <3>1, <2>1, <4>1, <4>2, <1>q, TransitionCommitType
    <3>2. CASE UNCHANGED <<task, events>>
      BY <3>2, <1>t DEF TypeOK
    <3> QED
      BY <1>14, <3>1, <3>2 DEF FinishCheck
  <2> QED
    BY <1>14, <1>x, <1>r, <1>i, <2>2 DEF FinishCheck, TypeOK
<1>15. ASSUME NEW t \in Tasks, ExpireLease(t) PROVE TypeOK'
  <2>1. task[t] \in RowType
    BY <1>15, CurrentRowType DEF ExpireLease
  <2>2. [task[t] EXCEPT !.live = FALSE] \in RowType
    BY <2>1 DEF RowType
  <2>3. task' = [task EXCEPT ![t] = [task[t] EXCEPT !.live = FALSE]]
    BY <1>15 DEF ExpireLease, TypeOK
  <2>4. task' \in [Tasks -> RowType \cup {NoRow}]
    BY <2>2, <2>3 DEF TypeOK
  <2> QED
    BY <1>15, <1>x, <1>t, <2>4 DEF ExpireLease, TypeOK
<1>16. CASE Crash
  BY <1>16, <1>x, <1>i, <1>t DEF Crash, TypeOK
<1>17. CASE Startup
  <2>1. ASSUME NEW t \in Interrupted
        PROVE  /\ TransitionRow(task[t], RecoveryTarget(task[t])) \in RowType
               /\ Append(events[t], Event(task[t].state, RecoveryTarget(task[t]))) \in Seq(EventType)
    <3>1. t \in Tasks /\ task[t] \in RowType /\ task[t].state \in TaskState
      BY CurrentRowType DEF Interrupted
    <3>2. RecoveryTarget(task[t]) \in TaskState
      BY <1>q DEF RecoveryTarget
    <3>3. Event(task[t].state, RecoveryTarget(task[t])) \in EventType
      BY <3>1, <3>2, EventTyped
    <3> QED
      BY <3>1, <3>2, <3>3, <1>t, TransitionRowType
  <2>2. task' \in [Tasks -> RowType \cup {NoRow}]
    <3>1. task \in [Tasks -> RowType \cup {NoRow}]
      BY DEF TypeOK
    <3>2. CASE task' = task
      BY <3>1, <3>2
    <3>3. CASE task' = [t \in Tasks |-> IF t \in Interrupted
                                       THEN TransitionRow(task[t], RecoveryTarget(task[t]))
                                       ELSE task[t]]
      <4>1. \A t \in Tasks : task'[t] \in RowType \cup {NoRow}
        BY <2>1, <3>1, <3>3
      <4>2. QED
        BY <3>3, <4>1
    <3>4. QED
      BY <1>17, <3>2, <3>3 DEF Startup
  <2>3. events' \in [Tasks -> Seq(EventType)]
    BY <1>17, <2>1, <1>t DEF Startup
  <2> QED
    BY <1>17, <1>x, <2>2, <2>3 DEF Startup, TypeOK
<1>18. CASE UNCHANGED vars
  BY <1>18 DEF vars, TypeOK
<1> QED
  BY <1>1, <1>2, <1>3, <1>4, <1>5, <1>6, <1>7, <1>8, <1>9, <1>10, <1>11, <1>12, <1>13, <1>14,
     <1>15, <1>16, <1>17, <1>18
  DEF Next, SessionStep

\* Type correctness of the service: every reachable state is well typed.
THEOREM TypeCorrect == Spec => []TypeOK
<1>1. Init => TypeOK
  BY DEF Init, TypeOK, ReqType
<1> QED
  BY <1>1, TypeStep, PTL DEF Spec

----------------------------------------------------------------------------
(* What a step does to a row.                                               *)

Kept(t) == task'[t] = task[t]

Deleted(t) == task'[t] = NoRow

Created(t) == task[t] = NoRow /\ task'[t] = NewRow("queued")

\* A transition other than a start.
Moved(t) ==
    /\ task[t] # NoRow /\ task'[t] # NoRow
    /\ can_transition(task[t].state, task'[t].state)
    /\ task'[t].state # "running"
    /\ task'[t].gen = task[t].gen
    /\ task'[t].live => task[t].live
    /\ task'[t].cancel => \/ task[t].cancel /\ task'[t].state # "queued"
                          \/ task'[t].state \in {"cancelling", "cancelled"}

\* A heartbeat, or a lease that runs out.
Touched(t) ==
    /\ task[t] # NoRow /\ task'[t] # NoRow
    /\ task'[t].state = task[t].state
    /\ task'[t].gen = task[t].gen
    /\ task'[t].live => task[t].live
    /\ task'[t].cancel => task[t].cancel

Downgraded(t) ==
    /\ task[t] # NoRow /\ task'[t] # NoRow
    /\ task[t].state = "succeeded" /\ task'[t].state = "outcome_unknown"
    /\ task'[t].gen = task[t].gen
    /\ ~task'[t].live

Quiet(t) == Kept(t) \/ Deleted(t) \/ Created(t) \/ Moved(t) \/ Touched(t) \/ Downgraded(t)

\* A check that starts, or a claim: t starts to run, and there is room for it.
Checked(t) == task[t] = NoRow /\ task'[t] = TransitionRow(NewRow("queued"), "running")

Claimed(t) ==
    /\ task[t] # NoRow /\ task'[t] # NoRow
    /\ \/ can_transition(task[t].state, "running")
       \/ can_transition(task[t].state, "queued")
    /\ task'[t].state = "running"
    /\ task'[t].gen = task[t].gen + 1
    /\ ~task'[t].cancel

Enters(t) ==
    /\ Checked(t) \/ Claimed(t)
    /\ HasRoom(task, t)
    /\ \A u \in Tasks \ {t} : Kept(u)

RowStep == (\A t \in Tasks : Quiet(t)) \/ (\E t \in Tasks : Enters(t))

\* What transition() does to the fields that matter here.
LEMMA TransitionFields ==
    ASSUME NEW row \in RowType, NEW target \in TaskState
    PROVE  /\ TransitionRow(row, target).state = target
           /\ TransitionRow(row, target).gen = row.gen
           /\ TransitionRow(row, target).live => row.live
           /\ TransitionRow(row, target).cancel => row.cancel /\ target # "queued"
BY DEF RowType, TransitionRow

\* A commit that writes one well-typed row of the matrix is a Quiet step.
LEMMA QuietCommit ==
    ASSUME TypeOK, NEW s \in Sessions, req[s].task \in Tasks, NEW row \in RowType, NEW moves,
           Commit(s, row, moves),
           Moved(req[s].task) \/ Downgraded(req[s].task)
    PROVE  RowStep
<1>1. ASSUME NEW u \in Tasks, u # req[s].task PROVE Kept(u)
  BY <1>1 DEF Commit, TypeOK, Kept
<1> QED
  BY <1>1 DEF RowStep, Quiet

\* A commit of a plain transition is a Quiet step.
LEMMA TransitionCommit ==
    ASSUME TypeOK, NEW s \in Sessions, req[s].task \in Tasks, task[req[s].task] # NoRow,
           NEW target \in TaskState \ {"running"}, can_transition(task[req[s].task].state, target),
           NEW moves, Commit(s, TransitionRow(task[req[s].task], target), moves)
    PROVE  RowStep
<1> DEFINE t == req[s].task
<1>1. task[t] \in RowType
  BY CurrentRowType
<1>2. TransitionRow(task[t], target) \in RowType
  BY <1>1, TransitionRowType
<1>3. task'[t] = TransitionRow(task[t], target)
  BY DEF Commit, TypeOK
<1>4. Moved(t)
  BY <1>1, <1>2, <1>3, TransitionFields, NoRowAssumption DEF Moved
<1> QED
  BY <1>2, <1>4, QuietCommit

----------------------------------------------------------------------------
(* Every action of the service is a RowStep. *)

\* A step that writes one row leaves the others alone.
LEMMA OneRow ==
    ASSUME TypeOK, NEW t \in Tasks, NEW row, task' = [task EXCEPT ![t] = row]
    PROVE  task'[t] = row /\ \A u \in Tasks \ {t} : Kept(u)
BY DEF TypeOK, Kept

\* The same for a commit.
LEMMA OneRowCommit ==
    ASSUME TypeOK, NEW s \in Sessions, req[s].task \in Tasks, NEW row, NEW moves,
           Commit(s, row, moves)
    PROVE  task'[req[s].task] = row /\ \A u \in Tasks \ {req[s].task} : Kept(u)
BY OneRow DEF Commit

\* A claim has the fields of Claimed.
LEMMA ClaimFields ==
    ASSUME NEW row \in RowType, NEW s \in Sessions, ~row.cancel
    PROVE  LET claim == AcquireRow(TransitionRow(row, "running"), s) IN
           /\ claim \in RowType
           /\ claim.state = "running" /\ claim.gen = row.gen + 1 /\ ~claim.cancel
<1>1. "running" \in TaskState
  BY DEF TaskState
<1>2. TransitionRow(row, "running") \in RowType
  BY <1>1, TransitionRowType
<1>3. AcquireRow(TransitionRow(row, "running"), s) \in RowType
  BY <1>2, LeaseRowTypes
<1>4. /\ TransitionRow(row, "running").state = "running"
      /\ TransitionRow(row, "running").gen = row.gen
      /\ ~TransitionRow(row, "running").cancel
  BY <1>1, TransitionFields
<1>5. /\ AcquireRow(TransitionRow(row, "running"), s).state = TransitionRow(row, "running").state
      /\ AcquireRow(TransitionRow(row, "running"), s).gen = TransitionRow(row, "running").gen + 1
      /\ AcquireRow(TransitionRow(row, "running"), s).cancel = TransitionRow(row, "running").cancel
  BY <1>2 DEF AcquireRow, RowType
<1> QED
  BY <1>3, <1>4, <1>5

\* The row-level effect of every step, for any number of tasks and sessions.
LEMMA EveryStepIsRowStep == TypeOK /\ [Next]_vars => RowStep
<1> SUFFICES ASSUME TypeOK, [Next]_vars PROVE RowStep
  OBVIOUS
<1>q. {"queued", "running", "paused", "cancelling", "cancelled", "succeeded", "failed",
       "outcome_unknown", "blocked"} \subseteq TaskState
  BY DEF TaskState
<1>k. ASSUME task' = task PROVE RowStep
  BY <1>k DEF RowStep, Quiet, Kept
<1>1. ASSUME NEW s \in Sessions, NEW t \in Tasks, Create(s, t) PROVE RowStep
  <2>1. task'[t] = NewRow("queued") /\ \A u \in Tasks \ {t} : Kept(u)
    BY <1>1, OneRow DEF Create
  <2>2. Created(t)
    BY <1>1, <2>1 DEF Create, Created
  <2> QED
    BY <2>1, <2>2 DEF RowStep, Quiet
<1>2. ASSUME NEW s \in Sessions, NEW t \in Tasks, NEW op \in Ops, Load(s, t, op) PROVE RowStep
  BY <1>2, <1>k DEF Load
<1>3. ASSUME NEW s \in Sessions, Pause(s) PROVE RowStep
  <2>1. /\ req[s].task \in Tasks /\ task[req[s].task] # NoRow
        /\ can_transition(task[req[s].task].state, "paused")
    BY <1>3, ReqShapes DEF Pause, Loaded, PauseAccepted, TransitionAccepted, TypeOK
  <2> QED
    BY <1>3, <2>1, <1>q, TransitionCommit DEF Pause
<1>4. ASSUME NEW s \in Sessions, Cancel(s) PROVE RowStep
  <2> DEFINE t      == req[s].task
             target == CancelTarget(req[s].row)
             moved  == TransitionRow(task[t], target)
             row    == [moved EXCEPT !.cancel = TRUE]
  <2>1. t \in Tasks /\ task[t] # NoRow /\ can_transition(task[t].state, target)
    BY <1>4, ReqShapes DEF Cancel, Loaded, CancelAccepted, TransitionAccepted, TypeOK
  <2>2. target \in {"cancelling", "cancelled"} /\ target \in TaskState
    BY <1>q DEF CancelTarget
  <2>3. task[t] \in RowType /\ moved \in RowType
    BY <2>1, <2>2, CurrentRowType, TransitionRowType
  <2>4. row \in RowType
    BY <2>3 DEF RowType
  <2>5. row.state = target /\ row.gen = task[t].gen /\ (row.live => task[t].live)
    <3>1. row.state = moved.state /\ row.gen = moved.gen /\ row.live = moved.live
      BY <2>3 DEF RowType
    <3> QED
      BY <3>1, <2>2, <2>3, TransitionFields
  <2>6. Commit(s, row, <<Event(task[t].state, target)>>)
    BY <1>4 DEF Cancel
  <2>7. task'[t] = row
    BY <2>1, <2>6, OneRowCommit
  <2>8. Moved(t)
    BY <2>1, <2>2, <2>4, <2>5, <2>7, NoRowAssumption DEF Moved
  <2> QED
    BY <2>1, <2>4, <2>6, <2>8, QuietCommit
<1>5. ASSUME NEW s \in Sessions, Retry(s) PROVE RowStep
  <2>1. /\ req[s].task \in Tasks /\ task[req[s].task] # NoRow
        /\ can_transition(task[req[s].task].state, "queued")
    BY <1>5, ReqShapes DEF Retry, Loaded, RetryAccepted, TransitionAccepted, TypeOK
  <2> QED
    BY <1>5, <2>1, <1>q, TransitionCommit DEF Retry
<1>6. ASSUME NEW s \in Sessions, DeleteHistory(s) PROVE RowStep
  <2>1. req[s].task \in Tasks
    BY <1>6, ReqShapes DEF DeleteHistory, Loaded, TypeOK
  <2>2. task'[req[s].task] = NoRow /\ \A u \in Tasks \ {req[s].task} : Kept(u)
    BY <1>6, <2>1, OneRow DEF DeleteHistory
  <2> QED
    BY <2>1, <2>2 DEF RowStep, Quiet, Deleted
<1>7. ASSUME NEW s \in Sessions, Claim(s) PROVE RowStep
  <2> DEFINE t     == req[s].task
             claim == AcquireRow(TransitionRow(ClaimBase(s), "running"), s)
  <2>1. /\ t \in Tasks /\ task[t] # NoRow /\ HasRoom(task, t) /\ ~ClaimBase(s).cancel
        /\ can_transition(task[t].state, "running") \/ can_transition(task[t].state, "queued")
    BY <1>7, ReqShapes DEF Claim, Loaded, ClaimAccepted, TransitionAccepted, TypeOK
  <2>2. task[t] \in RowType
    BY <2>1, CurrentRowType
  <2>3. ClaimBase(s) \in RowType /\ ClaimBase(s).gen = task[t].gen
    BY <2>2, <1>q, TransitionRowType, TransitionFields DEF ClaimBase
  <2>4. claim \in RowType /\ claim.state = "running" /\ claim.gen = task[t].gen + 1 /\ ~claim.cancel
    BY <2>1, <2>3, ClaimFields
  <2>5. \E moves : Commit(s, claim, moves)
    BY <1>7 DEF Claim
  <2>6. task'[t] = claim /\ \A u \in Tasks \ {t} : Kept(u)
    BY <2>1, <2>5, OneRowCommit
  <2>7. Claimed(t)
    BY <2>1, <2>4, <2>6, NoRowAssumption DEF Claimed
  <2> QED
    BY <2>1, <2>6, <2>7 DEF RowStep, Enters
<1>8. ASSUME NEW s \in Sessions, Refuse(s) \/ Abandon(s) PROVE RowStep
  BY <1>8, <1>k DEF Refuse, Abandon
<1>9. ASSUME NEW s \in Sessions, NEW stage \in WorkStages, Heartbeat(s, stage) PROVE RowStep
  <2> DEFINE t == req[s].task
  <2>1. t \in Tasks /\ task[t] # NoRow /\ task[t].live
    BY <1>9, ReqShapes DEF Heartbeat, Working, Fenced, FenceHolds, TypeOK
  <2>2. task[t] \in RowType /\ HeartbeatRow(task[t], stage) \in RowType
    BY <2>1, CurrentRowType, LeaseRowTypes, WorkStagesAssumption
  <2>3. task' = [task EXCEPT ![t] = HeartbeatRow(task[t], stage)]
    BY <1>9, <2>1 DEF Heartbeat, TypeOK
  <2>4. task'[t] = HeartbeatRow(task[t], stage) /\ \A u \in Tasks \ {t} : Kept(u)
    BY <2>1, <2>3, OneRow
  <2>5. /\ HeartbeatRow(task[t], stage).state = task[t].state
        /\ HeartbeatRow(task[t], stage).gen = task[t].gen
        /\ HeartbeatRow(task[t], stage).cancel = task[t].cancel
    BY <2>2 DEF HeartbeatRow, RowType
  <2>6. Touched(t)
    BY <2>1, <2>2, <2>4, <2>5, NoRowAssumption DEF Touched
  <2> QED
    BY <2>4, <2>6 DEF RowStep, Quiet
<1>10. ASSUME NEW s \in Sessions, Succeed(s) PROVE RowStep
  <2> DEFINE t     == req[s].task
             moved == TransitionRow(task[t], "succeeded")
             done  == [moved EXCEPT !.stage = "durable_verified"]
  <2>1. t \in Tasks /\ task[t] # NoRow /\ task[t].state = "running" /\ ~task[t].cancel
    BY <1>10, ReqShapes DEF Succeed, Working, Fenced, FenceHolds, TypeOK
  <2>2. task[t] \in RowType /\ moved \in RowType
    BY <2>1, <1>q, CurrentRowType, TransitionRowType
  <2>3. "durable_verified" \in Stages
    BY DEF Stages, RecoveryReviewStages
  <2>4. done \in RowType
    BY <2>2, <2>3 DEF RowType
  <2>5. /\ done.state = "succeeded" /\ done.gen = task[t].gen
        /\ done.live => task[t].live
        /\ done.cancel => task[t].cancel
    <3>1. done.state = moved.state /\ done.gen = moved.gen /\ done.live = moved.live /\ done.cancel = moved.cancel
      BY <2>2 DEF RowType
    <3> QED
      BY <3>1, <2>2, <1>q, TransitionFields
  <2>6. Commit(s, done, <<Event("running", "succeeded")>>)
    BY <1>10 DEF Succeed
  <2>7. task'[t] = done
    BY <2>1, <2>6, OneRowCommit
  <2>8. can_transition("running", "succeeded")
    BY DEF can_transition, TASK_TRANSITIONS, TaskState
  <2>9. Moved(t)
    BY <2>1, <2>4, <2>5, <2>7, <2>8, NoRowAssumption DEF Moved
  <2> QED
    BY <2>1, <2>4, <2>6, <2>9, QuietCommit
<1>11. ASSUME NEW s \in Sessions, NEW target \in {"failed", "cancelled", "outcome_unknown"}, Stop(s, target)
       PROVE  RowStep
  <2>1. /\ req[s].task \in Tasks /\ task[req[s].task] # NoRow
        /\ can_transition(task[req[s].task].state, target)
    BY <1>11, ReqShapes DEF Stop, Working, TypeOK
  <2> QED
    BY <1>11, <2>1, <1>q, TransitionCommit DEF Stop
<1>12. ASSUME NEW s \in Sessions, NEW proved \in BOOLEAN, Verify(s, proved) PROVE RowStep
  <2> DEFINE t == req[s].task
  <2>1. t \in Tasks
    BY <1>12, ReqShapes DEF Verify, TypeOK
  <2>2. CASE /\ task[t] # NoRow /\ task[t].state = "succeeded"
             /\ Commit(s, UnknownRow(task[t]), <<Event("succeeded", "outcome_unknown")>>)
    <3>1. task[t] \in RowType /\ UnknownRow(task[t]) \in RowType
      BY <2>1, <2>2, CurrentRowType, LeaseRowTypes
    <3>2. task'[t] = UnknownRow(task[t])
      BY <2>1, <2>2, OneRowCommit
    <3>3. /\ UnknownRow(task[t]).state = "outcome_unknown" /\ UnknownRow(task[t]).gen = task[t].gen
          /\ ~UnknownRow(task[t]).live /\ UnknownRow(task[t]).cancel = task[t].cancel
      BY <3>1 DEF UnknownRow, RowType
    <3>4. Downgraded(t)
      BY <2>2, <3>1, <3>2, <3>3, NoRowAssumption DEF Downgraded
    <3> QED
      BY <2>1, <2>2, <3>1, <3>4, QuietCommit
  <2>3. CASE UNCHANGED <<task, events>>
    BY <2>3, <1>k
  <2> QED
    BY <1>12, <2>2, <2>3 DEF Verify
<1>13. ASSUME NEW s \in Sessions, NEW t \in Tasks, StartCheck(s, t) PROVE RowStep
  <2>1. task'[t] = TransitionRow(NewRow("queued"), "running") /\ \A u \in Tasks \ {t} : Kept(u)
    BY <1>13, OneRow DEF StartCheck
  <2> QED
    BY <1>13, <2>1 DEF StartCheck, RowStep, Enters, Checked
<1>14. ASSUME NEW s \in Sessions, NEW target \in {"succeeded", "failed"}, FinishCheck(s, target)
       PROVE  RowStep
  <2>1. req[s].task \in Tasks
    BY <1>14, ReqShapes DEF FinishCheck, TypeOK
  <2>2. CASE task[req[s].task] # NoRow /\ task[req[s].task].state = "running"
    <3>1. can_transition(task[req[s].task].state, target)
      BY <2>2 DEF can_transition, TASK_TRANSITIONS, TaskState
    <3>2. Commit(s, TransitionRow(task[req[s].task], target), <<Event("running", target)>>)
      BY <1>14, <2>2 DEF FinishCheck
    <3> QED
      BY <2>1, <2>2, <3>1, <3>2, <1>q, TransitionCommit
  <2>3. CASE UNCHANGED <<task, events>>
    BY <2>3, <1>k
  <2> QED
    BY <1>14, <2>2, <2>3 DEF FinishCheck
<1>15. ASSUME NEW t \in Tasks, ExpireLease(t) PROVE RowStep
  <2>1. task[t] # NoRow /\ task[t] \in RowType
    BY <1>15, CurrentRowType DEF ExpireLease
  <2> DEFINE row == [task[t] EXCEPT !.live = FALSE]
  <2>2. task' = [task EXCEPT ![t] = row]
    BY <1>15 DEF ExpireLease, TypeOK
  <2>3. task'[t] = row /\ \A u \in Tasks \ {t} : Kept(u)
    BY <2>2, OneRow
  <2>4. /\ row \in RowType /\ row.state = task[t].state /\ row.gen = task[t].gen
        /\ row.cancel = task[t].cancel /\ ~row.live
    BY <2>1 DEF RowType
  <2>5. Touched(t)
    BY <2>1, <2>3, <2>4, NoRowAssumption DEF Touched
  <2> QED
    BY <2>3, <2>5 DEF RowStep, Quiet
<1>16. CASE Crash
  BY <1>16, <1>k DEF Crash
<1>17. CASE Startup
  <2>1. CASE RecoveryAccepted
    <3> SUFFICES ASSUME NEW t \in Tasks PROVE Quiet(t)
      BY DEF RowStep
    <3>1. CASE t \in Interrupted
      <4> DEFINE target == RecoveryTarget(task[t])
      <4>1. task[t] # NoRow /\ task[t] \in RowType
        BY <3>1, CurrentRowType DEF Interrupted
      <4>2. target \in TaskState /\ target # "running"
        BY <1>q DEF RecoveryTarget
      <4>3. task'[t] = TransitionRow(task[t], target)
        BY <1>17, <2>1, <3>1 DEF Startup
      <4>4. can_transition(task[t].state, target)
        BY <2>1, <3>1 DEF RecoveryAccepted
      <4>5. TransitionRow(task[t], target) \in RowType
        BY <4>1, <4>2, TransitionRowType
      <4>6. Moved(t)
        BY <4>1, <4>2, <4>3, <4>4, <4>5, TransitionFields, NoRowAssumption DEF Moved
      <4> QED
        BY <4>6 DEF Quiet
    <3>2. CASE t \notin Interrupted
      BY <1>17, <2>1, <3>2 DEF Startup, Quiet, Kept
    <3> QED
      BY <3>1, <3>2
  <2>2. CASE ~RecoveryAccepted
    BY <1>17, <2>2, <1>k DEF Startup
  <2> QED
    BY <2>1, <2>2
<1>18. CASE UNCHANGED vars
  BY <1>18, <1>k DEF vars
<1> QED
  BY <1>1, <1>2, <1>3, <1>4, <1>5, <1>6, <1>7, <1>8, <1>9, <1>10, <1>11, <1>12, <1>13, <1>14,
     <1>15, <1>16, <1>17, <1>18
  DEF Next, SessionStep

----------------------------------------------------------------------------
(* What follows for every reachable state and step. *)

\* A cancel request sticks (request_cancel(), transition()): for every number
\* of tasks and sessions, no cancelled task is queued, running or succeeded.
THEOREM CancelHolds == Spec => []CancelSticks
<1>1. Init => CancelSticks
  BY DEF Init, CancelSticks
<1>2. TypeOK /\ CancelSticks /\ [Next]_vars => CancelSticks'
  <2> SUFFICES ASSUME TypeOK, CancelSticks, RowStep, NEW t \in Tasks, task'[t] # NoRow, task'[t].cancel
               PROVE  task'[t].state \in {"cancelling", "cancelled", "failed", "outcome_unknown"}
    BY EveryStepIsRowStep DEF CancelSticks
  <2>n. ~NewRow("queued").cancel
    BY DEF NewRow
  <2>1. CASE Kept(t) \/ Touched(t)
    BY <2>1 DEF CancelSticks, Kept, Touched
  <2>2. CASE Created(t)
    BY <2>2, <2>n DEF Created
  <2>3. CASE Moved(t)
    <3>1. CASE task'[t].state \in {"cancelling", "cancelled"}
      BY <3>1
    <3>2. CASE task[t].cancel /\ task'[t].state # "queued"
      <4>1. task[t].state \in {"cancelling", "cancelled", "failed", "outcome_unknown"}
        BY <3>2, <2>3 DEF CancelSticks, Moved
      <4>2. can_transition(task[t].state, task'[t].state)
        BY <2>3 DEF Moved
      <4> QED
        BY <4>1, <4>2, <3>2 DEF can_transition, TASK_TRANSITIONS, TaskState
    <3> QED
      BY <2>3, <3>1, <3>2 DEF Moved
  <2>4. CASE Downgraded(t)
    BY <2>4 DEF Downgraded
  <2>5. CASE Deleted(t)
    BY <2>5 DEF Deleted
  <2>6. CASE Checked(t)
    BY <2>6, <2>n, NewRowType, TransitionFields DEF Checked, TaskState
  <2>7. CASE Claimed(t)
    BY <2>7 DEF Claimed
  <2> QED
    BY <2>1, <2>2, <2>3, <2>4, <2>5, <2>6, <2>7 DEF RowStep, Quiet, Enters
<1> QED
  BY <1>1, <1>2, TypeCorrect, PTL DEF Spec

\* A lease that has died is renewed only by a new claim with a new generation
\* (heartbeat(), acquire_lease()), whatever the number of tasks and sessions.
THEOREM DeadLeases == Spec => DeadLeaseStaysDead
<1>1. TypeOK /\ [Next]_vars =>
        [\A t \in Tasks :
            task[t] # NoRow /\ task'[t] # NoRow /\ ~task[t].live /\ task'[t].live
            => task'[t].gen = task[t].gen + 1]_vars
  <2> SUFFICES ASSUME TypeOK, RowStep, NEW t \in Tasks,
                      task[t] # NoRow, task'[t] # NoRow, ~task[t].live, task'[t].live
               PROVE  task'[t].gen = task[t].gen + 1
    BY EveryStepIsRowStep
  <2>1. Quiet(t) \/ Checked(t) \/ Claimed(t)
    BY DEF RowStep, Enters, Quiet
  <2> QED
    BY <2>1 DEF Quiet, Kept, Deleted, Created, Moved, Touched, Downgraded, Checked, Claimed
<1> QED
  BY <1>1, TypeCorrect, PTL DEF Spec, DeadLeaseStaysDead

\* A Quiet row starts to run in no step.
LEMMA QuietRunning ==
    ASSUME NEW t \in Tasks, Quiet(t), task'[t] # NoRow, task'[t].state = "running"
    PROVE  task[t] # NoRow /\ task[t].state = "running"
BY DEF Quiet, Kept, Deleted, Created, NewRow, Moved, Touched, Downgraded

\* A row step never takes the running tasks above the limit: what starts to
\* run was counted against the limit inside its own UPDATE.
LEMMA BoundStep == ConcurrencyBound /\ RowStep => Cardinality(Running(task')) <= MaxConcurrency
<1> SUFFICES ASSUME ConcurrencyBound, RowStep PROVE Cardinality(Running(task')) <= MaxConcurrency
  OBVIOUS
<1>f. /\ IsFiniteSet(Running(task)) /\ IsFiniteSet(Running(task'))
      /\ \A t : IsFiniteSet(Running(task) \ {t})
  <2>1. /\ Running(task) \subseteq Tasks /\ Running(task') \subseteq Tasks
        /\ \A t : Running(task) \ {t} \subseteq Tasks
    BY DEF Running
  <2> QED
    BY <2>1, TasksAssumption, FS_Subset
<1>c. /\ Cardinality(Running(task)) \in Nat /\ Cardinality(Running(task')) \in Nat
      /\ \A t : Cardinality(Running(task) \ {t}) \in Nat
  BY <1>f, FS_CardinalityType
<1>1. CASE \A t \in Tasks : Quiet(t)
  <2>1. Running(task') \subseteq Running(task)
    BY <1>1, QuietRunning DEF Running
  <2>2. Cardinality(Running(task')) <= Cardinality(Running(task))
    BY <2>1, <1>f, FS_Subset
  <2> QED
    BY <2>2, <1>c, MaxConcurrencyAssumption DEF ConcurrencyBound
<1>2. CASE \E t \in Tasks : Enters(t)
  <2> PICK t \in Tasks : Enters(t)
    BY <1>2
  <2> DEFINE rest == Running(task) \ {t}
  <2>1. Running(task') \subseteq rest \cup {t}
    BY DEF Enters, Kept, Running
  <2>2. Cardinality(rest) < MaxConcurrency
    BY DEF Enters, HasRoom
  <2>3. t \notin rest
    OBVIOUS
  <2>4. IsFiniteSet(rest \cup {t}) /\ Cardinality(rest \cup {t}) = Cardinality(rest) + 1
    BY <2>3, <1>f, FS_AddElement
  <2>5. Cardinality(Running(task')) <= Cardinality(rest \cup {t})
    BY <2>1, <2>4, FS_Subset
  <2>6. Cardinality(rest) \in Nat
    BY <1>c
  <2> HIDE DEF rest
  <2> QED
    BY <2>2, <2>4, <2>5, <2>6, <1>c, MaxConcurrencyAssumption
<1> QED
  BY <1>1, <1>2 DEF RowStep

\* Concurrent claims never run more tasks than configured (transition()'s
\* recount), for any finite set of tasks and any number of sessions.
THEOREM ConcurrencyBounded == Spec => []ConcurrencyBound
<1>1. Init => ConcurrencyBound
  <2> SUFFICES ASSUME Init PROVE ConcurrencyBound
    OBVIOUS
  <2>1. Running(task) = {}
    BY DEF Init, Running
  <2> QED
    BY <2>1, FS_EmptySet, MaxConcurrencyAssumption DEF ConcurrencyBound
<1>2. TypeOK /\ ConcurrencyBound /\ [Next]_vars => ConcurrencyBound'
  BY EveryStepIsRowStep, BoundStep DEF ConcurrencyBound
<1> QED
  BY <1>1, <1>2, TypeCorrect, PTL DEF Spec

----------------------------------------------------------------------------
(* Refinement. *)

\* The lifecycle's matrix is the service's.
LEMMA SameMatrix == Lifecycle!TaskState = TaskState /\ Lifecycle!TASK_TRANSITIONS = TASK_TRANSITIONS
<1>1. Lifecycle!TaskState = TaskState
  BY DEF Lifecycle!TaskState, TaskState
<1> QED
  BY <1>1 DEF Lifecycle!TASK_TRANSITIONS, TASK_TRANSITIONS

\* The status a row step gives a task is the old one or one the lifecycle allows.
LEMMA StatusStep ==
    ASSUME TypeOK, RowStep, NEW t \in Tasks
    PROVE  \/ StatusOf(task')[t] = StatusOf(task)[t]
           \/ StatusOf(task')[t] \in Lifecycle!Reachable(StatusOf(task)[t])
<1>0. /\ task[t] # NoRow => task[t].state \in TaskState
      /\ "absent" \notin TaskState
  BY CurrentRowType DEF TaskState
<1>a. /\ task[t] = NoRow => StatusOf(task)[t] = "absent"
      /\ task[t] # NoRow => StatusOf(task)[t] = task[t].state
      /\ task'[t] = NoRow => StatusOf(task')[t] = "absent"
      /\ task'[t] # NoRow => StatusOf(task')[t] = task'[t].state
  BY DEF StatusOf
<1>1. CASE Kept(t)
  BY <1>1, <1>a DEF Kept
<1>2. CASE Touched(t)
  BY <1>2, <1>a DEF Touched
<1>3. CASE Deleted(t)
  <2>1. CASE task[t] = NoRow
    BY <1>3, <2>1, <1>a DEF Deleted
  <2>2. CASE task[t] # NoRow
    BY <1>3, <2>2, <1>a, <1>0 DEF Deleted, Lifecycle!Reachable
  <2> QED
    BY <2>1, <2>2
<1>4. CASE Created(t)
  <2>1. NewRow("queued") # NoRow /\ NewRow("queued").state = "queued"
    <3>1. NewRow("queued").state = "queued"
      BY DEF NewRow
    <3> QED
      BY <3>1, NewRowType, NoRowAssumption
  <2> QED
    BY <1>4, <2>1, <1>a DEF Created, Lifecycle!Reachable
<1>5. CASE Moved(t)
  <2>1. task'[t].state \in TASK_TRANSITIONS[task[t].state]
    BY <1>5 DEF Moved, can_transition
  <2>2. task[t].state # "succeeded"
    BY <2>1 DEF TASK_TRANSITIONS, TaskState
  <2> QED
    BY <1>5, <2>1, <2>2, <1>a, <1>0, SameMatrix DEF Moved, Lifecycle!Reachable
<1>6. CASE Downgraded(t)
  BY <1>6, <1>a DEF Downgraded, Lifecycle!Reachable
<1>7. CASE Checked(t)
  <2>1. "running" \in TaskState
    BY DEF TaskState
  <2>2. TransitionRow(NewRow("queued"), "running") \in RowType
    BY <2>1, NewRowType, TransitionRowType
  <2>3. task'[t] # NoRow /\ task'[t].state = "running"
    BY <1>7, <2>1, <2>2, NewRowType, TransitionFields, NoRowAssumption DEF Checked
  <2> QED
    BY <1>7, <2>3, <1>a DEF Checked, Lifecycle!Reachable
<1>8. CASE Claimed(t)
  <2>1. task[t].state # "succeeded"
    BY <1>8, <1>0 DEF Claimed, can_transition, TASK_TRANSITIONS, TaskState
  <2> QED
    BY <1>8, <2>1, <1>a, <1>0, SameMatrix DEF Claimed, can_transition, Lifecycle!Reachable
<1> QED
  BY <1>1, <1>2, <1>3, <1>4, <1>5, <1>6, <1>7, <1>8 DEF RowStep, Quiet, Enters

\* The service implements the task lifecycle (transition() and every route on
\* top of it), for any finite set of tasks and any number of sessions.
THEOREM Refinement == Spec => ImplementsLifecycle
<1>1. Init => Lifecycle!Init
  BY DEF Init, Lifecycle!Init, StatusOf
<1>2. TypeOK /\ TypeOK' /\ ConcurrencyBound /\ [Next]_vars => [Lifecycle!Advance]_(StatusOf(task))
  <2> SUFFICES ASSUME TypeOK, TypeOK', ConcurrencyBound, [Next]_vars
               PROVE  Lifecycle!Advance
    OBVIOUS
  <2>1. RowStep
    BY EveryStepIsRowStep
  <2>2. StatusOf(task)' \in [Tasks -> TaskState \cup {"absent"}]
    <3>1. ASSUME NEW t \in Tasks, task'[t] # NoRow PROVE task'[t].state \in TaskState
      BY <3>1 DEF TypeOK, RowType
    <3> QED
      BY <3>1 DEF StatusOf
  <2>3. \A t \in Tasks : \/ StatusOf(task)'[t] = StatusOf(task)[t]
                         \/ StatusOf(task)'[t] \in Lifecycle!Reachable(StatusOf(task)[t])
    BY <2>1, StatusStep
  <2>4. Lifecycle!RunningTasks' = Running(task')
    BY DEF Lifecycle!RunningTasks, Running, StatusOf
  <2>5. Lifecycle!Cardinality(Lifecycle!RunningTasks') = Cardinality(Running(task'))
    BY <2>4 DEF Lifecycle!Cardinality, Cardinality
  <2>6. Lifecycle!Cardinality(Lifecycle!RunningTasks') <= MaxConcurrency
    BY <2>1, <2>5, BoundStep
  <2> QED
    BY <2>2, <2>3, <2>6, SameMatrix DEF Lifecycle!Advance
<1> QED
  BY <1>1, <1>2, TypeCorrect, ConcurrencyBounded, PTL DEF Spec, ImplementsLifecycle, Lifecycle!Spec
----------------------------------------------------------------------------
(* Row, history, link and lease agree.                                     *)

\* The event history of one row (HistoryFaithful says it of every row).
History(row, moves) ==
    /\ Len(moves) = row.version
    /\ moves[1].from = "none"
    /\ moves[Len(moves)].to = row.state
    /\ \A i \in 2..Len(moves) : moves[i].from = moves[i - 1].to /\ LegalMove(moves[i])

HistoriesKept ==
    \A t \in Tasks : task[t] # NoRow => task[t].version >= 1 /\ History(task[t], events[t])

\* What the holder of a claim can rely on, alive or not.
HolderKnows(s) ==
    req[s].pc = "leased" /\ task[req[s].task] # NoRow /\ task[req[s].task].owner = s =>
        /\ task[req[s].task].gen = req[s].gen
        /\ task[req[s].task].state \in {"running", "cancelling"}

FactsInv == HistoriesKept /\ LinkedHistoryKept /\ \A s \in Sessions : HolderKnows(s)

\* One more legal event goes with one more version.
LEMMA HistoryGrows ==
    ASSUME NEW row \in RowType, row.version >= 1, NEW moves \in Seq(EventType), History(row, moves),
           NEW new \in RowType, new.version = row.version + 1,
           \/ can_transition(row.state, new.state)
           \/ row.state = "succeeded" /\ new.state = "outcome_unknown"
    PROVE  LET longer == Append(moves, Event(row.state, new.state)) IN
           /\ longer \in Seq(EventType) /\ History(new, longer) /\ new.version >= 1
<1> DEFINE e      == Event(row.state, new.state)
           longer == Append(moves, e)
<1>1. row.state \in TaskState /\ new.state \in TaskState /\ row.version \in Nat
  BY DEF RowType
<1>2. e \in EventType /\ e.from = row.state /\ e.to = new.state
  BY <1>1, EventTyped DEF Event
<1>3. LegalMove(e)
  BY <1>1, <1>2 DEF LegalMove
<1> HIDE DEF e
<1>4. /\ longer \in Seq(EventType) /\ Len(longer) = Len(moves) + 1 /\ longer[Len(moves) + 1] = e
      /\ \A i \in 1..Len(moves) : longer[i] = moves[i]
  BY <1>2
<1>5. Len(moves) \in Nat /\ Len(moves) >= 1 /\ Len(moves) = row.version
  BY <1>1 DEF History
<1>6. ASSUME NEW i \in 2..Len(longer)
      PROVE  longer[i].from = longer[i - 1].to /\ LegalMove(longer[i])
  <2>1. CASE i \in 2..Len(moves)
    <3>1. i \in 1..Len(moves) /\ i - 1 \in 1..Len(moves)
      BY <2>1, <1>5
    <3>2. longer[i] = moves[i] /\ longer[i - 1] = moves[i - 1]
      BY <3>1, <1>4
    <3> QED
      BY <2>1, <3>2 DEF History
  <2>2. CASE i = Len(moves) + 1
    <3>1. longer[i] = e /\ longer[i - 1] = moves[Len(moves)]
      BY <2>2, <1>4, <1>5
    <3> QED
      BY <3>1, <1>2, <1>3 DEF History
  <2> QED
    BY <2>1, <2>2, <1>4, <1>5
<1>7. longer[1].from = "none" /\ longer[Len(longer)].to = new.state
  BY <1>2, <1>4, <1>5 DEF History
<1> QED
  BY <1>1, <1>4, <1>5, <1>6, <1>7 DEF History, e

\* A step that only touches the row of t keeps the facts of the others, and those
\* of t if its history grew with it and nobody else's lease was taken over.
LEMMA FactsStep ==
    ASSUME TypeOK, FactsInv, NEW t \in Tasks,
           \A u \in Tasks \ {t} : task'[u] = task[u] /\ events'[u] = events[u],
           task'[t] # NoRow => task'[t].version >= 1 /\ History(task'[t], events'[t]),
           linked' \subseteq linked \cup {t}, t \in linked' => task'[t] # NoRow,
           \A s \in Sessions : \/ HolderKnows(s)'
                               \/ /\ req'[s] = req[s]
                                  /\ task'[t] # NoRow /\ task'[t].owner = s =>
                                        /\ task[t] # NoRow /\ task[t].owner = s
                                        /\ task'[t].gen = task[t].gen
                                        /\ task'[t].state \in {task[t].state, "cancelling"}
    PROVE  FactsInv'
<1>1. HistoriesKept'
  BY DEF FactsInv, HistoriesKept
<1>2. LinkedHistoryKept'
  BY DEF FactsInv, LinkedHistoryKept, TypeOK
<1>3. ASSUME NEW s \in Sessions PROVE HolderKnows(s)'
  <2>1. HolderKnows(s)
    BY DEF FactsInv
  <2>2. req[s].pc = "leased" => req[s].task \in Tasks
    BY ReqShapes DEF TypeOK
  <2> QED
    BY <2>1, <2>2 DEF HolderKnows
<1> QED
  BY <1>1, <1>2, <1>3 DEF FactsInv

\* The version and the owner that transition() leaves.
LEMMA TransitionOwner ==
    ASSUME NEW row \in RowType, NEW target \in TaskState
    PROVE  /\ TransitionRow(row, target).version = row.version + 1
           /\ TransitionRow(row, target).owner = IF target \in ClearsLease THEN NoOwner ELSE row.owner
BY DEF RowType, TransitionRow

\* The session has nothing to hold after this step.
NoLease(s) == req'[s].pc # "leased" /\ \A q \in Sessions \ {s} : req'[q] = req[q]

LEMMA NoLeaseType ==
    ASSUME TypeOK, NEW s \in Sessions, NEW r, r.pc # "leased", req' = [req EXCEPT ![s] = r]
    PROVE  NoLease(s)
BY DEF TypeOK, NoLease

\* A commit of one transition.
LEMMA FactsCommit ==
    ASSUME TypeOK, FactsInv, NEW s \in Sessions, req[s].task \in Tasks, task[req[s].task] # NoRow,
           NEW row \in RowType,
           Commit(s, row, <<Event(task[req[s].task].state, row.state)>>),
           row.version = task[req[s].task].version + 1,
           \/ can_transition(task[req[s].task].state, row.state)
           \/ task[req[s].task].state = "succeeded" /\ row.state = "outcome_unknown",
           row.owner # NoOwner => /\ row.owner = task[req[s].task].owner
                                  /\ row.gen = task[req[s].task].gen /\ row.state = "cancelling",
           linked' = linked, NoLease(s)
    PROVE  FactsInv'
<1> DEFINE t == req[s].task
           old == task[t]
           moves == events[t]
<1>1. old \in RowType /\ old.version >= 1 /\ History(old, moves) /\ moves \in Seq(EventType)
  BY CurrentRowType DEF FactsInv, HistoriesKept, TypeOK, EventType
<1>2. task'[t] = row /\ \A u \in Tasks \ {t} : task'[u] = task[u] /\ events'[u] = events[u]
  BY DEF Commit, TypeOK
<1>3. events'[t] = Append(moves, Event(old.state, row.state))
  <2>1. events'[t] = moves \o <<Event(old.state, row.state)>>
    BY DEF Commit, TypeOK
  <2>2. Event(old.state, row.state) \in EventType
    BY <1>1, EventTyped DEF RowType
  <2> HIDE DEF moves, old
  <2> QED
    BY <1>1, <2>1, <2>2
<1>4. row.version >= 1 /\ History(row, events'[t])
  <2>1. /\ row.version = old.version + 1
        /\ \/ can_transition(old.state, row.state)
           \/ old.state = "succeeded" /\ row.state = "outcome_unknown"
    OBVIOUS
  <2> HIDE DEF moves, old
  <2>2. LET longer == Append(moves, Event(old.state, row.state))
        IN  History(row, longer) /\ row.version >= 1
    BY <1>1, <2>1, HistoryGrows
  <2> QED
    BY <1>3, <2>2
<1>5. row # NoRow
  BY NoRowAssumption
<1>6. ASSUME NEW q \in Sessions, q # s
      PROVE  /\ req'[q] = req[q]
             /\ row.owner = q => /\ old.owner = q /\ row.gen = old.gen
                                 /\ row.state \in {old.state, "cancelling"}
  BY <1>6, SessionsAssumption DEF NoLease
<1>7. HolderKnows(s)'
  BY DEF NoLease, HolderKnows
<1> QED
  BY <1>2, <1>4, <1>5, <1>6, <1>7, FactsStep DEF FactsInv, LinkedHistoryKept

\* A commit of transition() to a state that drops the lease, or to CANCELLING.
LEMMA FactsTransition ==
    ASSUME TypeOK, FactsInv, NEW s \in Sessions, req[s].task \in Tasks, task[req[s].task] # NoRow,
           NEW target \in ClearsLease \cup {"cancelling"},
           can_transition(task[req[s].task].state, target),
           Commit(s, TransitionRow(task[req[s].task], target),
                  <<Event(task[req[s].task].state, target)>>),
           linked' = linked, NoLease(s)
    PROVE  FactsInv'
<1> DEFINE old == task[req[s].task]
           row == TransitionRow(old, target)
<1>1. target \in TaskState
  BY DEF ClearsLease, CLOSED_TASK_STATES, TaskState
<1>2. old \in RowType /\ row \in RowType
  BY <1>1, CurrentRowType, TransitionRowType
<1>3. /\ row.state = target /\ row.version = old.version + 1 /\ row.gen = old.gen
      /\ row.owner # NoOwner => row.owner = old.owner /\ target = "cancelling"
  BY <1>1, <1>2, TransitionFields, TransitionOwner
<1> QED
  BY <1>2, <1>3, FactsCommit
\* Every step of the service keeps the facts.
LEMMA EveryStepKeepsFacts == TypeOK /\ TypeOK' /\ FactsInv /\ [Next]_vars => FactsInv'
<1> SUFFICES ASSUME TypeOK, TypeOK', FactsInv, [Next]_vars PROVE FactsInv'
  OBVIOUS
<1>i. Idle.pc # "leased"
  BY DEF Idle
<1>q. {"paused", "cancelled", "queued", "succeeded", "failed", "outcome_unknown", "blocked"}
          \subseteq ClearsLease /\ ClearsLease \subseteq TaskState
  BY DEF ClearsLease, CLOSED_TASK_STATES, TaskState
\* Steps that leave the rows alone.
<1>k. ASSUME UNCHANGED <<task, events, linked>>,
             \A s \in Sessions : req'[s] = req[s] \/ req'[s].pc # "leased"
      PROVE  FactsInv'
  BY <1>k DEF FactsInv, HistoriesKept, LinkedHistoryKept, HolderKnows
<1>e. ASSUME NEW s \in Sessions, req' = [req EXCEPT ![s] = Idle] PROVE NoLease(s)
  BY <1>e, <1>i, NoLeaseType
<1>1. ASSUME NEW s \in Sessions, NEW t \in Tasks, Create(s, t) PROVE FactsInv'
  <2>1. /\ task'[t] = NewRow("queued") /\ events'[t] = <<Event("none", "queued")>>
        /\ \A u \in Tasks \ {t} : task'[u] = task[u] /\ events'[u] = events[u]
        /\ UNCHANGED <<linked, req>>
    BY <1>1 DEF Create, TypeOK
  <2>2. /\ NewRow("queued").version = 1 /\ NewRow("queued").state = "queued"
        /\ NewRow("queued").owner = NoOwner
    BY DEF NewRow
  <2>3. task'[t].version >= 1 /\ History(task'[t], events'[t])
    <3>1. ASSUME NEW e, e.from = "none", e.to = "queued" PROVE History(NewRow("queued"), <<e>>)
      BY <2>2, <3>1 DEF History
    <3> QED
      BY <2>1, <2>2, <3>1 DEF Event
  <2>4. t \in linked' => task'[t] # NoRow
    BY <2>1, NewRowType, NoRowAssumption
  <2> QED
    BY <2>1, <2>2, <2>3, <2>4, FactsStep, SessionsAssumption
<1>2. ASSUME NEW s \in Sessions, NEW t \in Tasks, NEW op \in Ops, Load(s, t, op) PROVE FactsInv'
  BY <1>2, <1>k DEF Load, TypeOK
<1>3. ASSUME NEW s \in Sessions, Pause(s) PROVE FactsInv'
  <2>1. /\ req[s].task \in Tasks /\ task[req[s].task] # NoRow
        /\ can_transition(task[req[s].task].state, "paused")
    BY <1>3, ReqShapes DEF Pause, Loaded, PauseAccepted, TransitionAccepted, TypeOK
  <2> QED
    BY <1>3, <2>1, <1>e, <1>q, FactsTransition DEF Pause
<1>4. ASSUME NEW s \in Sessions, Cancel(s) PROVE FactsInv'
  <2> DEFINE t      == req[s].task
             target == CancelTarget(req[s].row)
             moved  == TransitionRow(task[t], target)
             row    == [moved EXCEPT !.cancel = TRUE]
  <2>1. t \in Tasks /\ task[t] # NoRow /\ can_transition(task[t].state, target)
    BY <1>4, ReqShapes DEF Cancel, Loaded, CancelAccepted, TransitionAccepted, TypeOK
  <2>2. target \in {"cancelling", "cancelled"} /\ target \in TaskState
    BY <1>q DEF CancelTarget, TaskState
  <2>3. task[t] \in RowType /\ moved \in RowType
    BY <2>1, <2>2, CurrentRowType, TransitionRowType
  <2>4. /\ moved.state = target /\ moved.version = task[t].version + 1 /\ moved.gen = task[t].gen
        /\ moved.owner # NoOwner => moved.owner = task[t].owner /\ target = "cancelling"
    BY <2>2, <2>3, <1>q, TransitionFields, TransitionOwner
  <2>5. Commit(s, row, <<Event(task[t].state, target)>>) /\ linked' = linked /\ NoLease(s)
    BY <1>4, <1>e DEF Cancel
  <2>6. /\ row \in RowType /\ row.state = moved.state /\ row.version = moved.version
        /\ row.owner = moved.owner /\ row.gen = moved.gen
    <3> HIDE DEF moved
    <3> QED
      BY <2>3 DEF RowType
  <2> HIDE DEF row, moved
  <2> QED
    BY <2>1, <2>4, <2>5, <2>6, FactsCommit
<1>5. ASSUME NEW s \in Sessions, Retry(s) PROVE FactsInv'
  <2>1. /\ req[s].task \in Tasks /\ task[req[s].task] # NoRow
        /\ can_transition(task[req[s].task].state, "queued")
    BY <1>5, ReqShapes DEF Retry, Loaded, RetryAccepted, TransitionAccepted, TypeOK
  <2> QED
    BY <1>5, <2>1, <1>e, <1>q, FactsTransition DEF Retry
<1>6. ASSUME NEW s \in Sessions, DeleteHistory(s) PROVE FactsInv'
  <2>1. req[s].task \in Tasks
    BY <1>6, ReqShapes DEF DeleteHistory, Loaded, TypeOK
  <2>2. /\ task'[req[s].task] = NoRow /\ req[s].task \notin linked' /\ linked' = linked
        /\ \A u \in Tasks \ {req[s].task} : task'[u] = task[u] /\ events'[u] = events[u]
    BY <1>6, <2>1 DEF DeleteHistory, DeleteAccepted, TypeOK
  <2>3. HolderKnows(s)' /\ \A q \in Sessions \ {s} : req'[q] = req[q]
    BY <1>6, <1>e DEF DeleteHistory, NoLease, HolderKnows
  <2> QED
    BY <2>1, <2>2, <2>3, FactsStep
<1>7. ASSUME NEW s \in Sessions, Claim(s) PROVE FactsInv'
  <2> DEFINE t     == req[s].task
             base  == ClaimBase(s)
             run   == TransitionRow(base, "running")
             claim == AcquireRow(run, s)
  <2>1. /\ t \in Tasks /\ task[t] # NoRow /\ ~base.cancel
        /\ can_transition(task[t].state, IF req[s].op = "resume" THEN "queued" ELSE "running")
    BY <1>7, ReqShapes DEF Claim, Loaded, ClaimAccepted, TransitionAccepted, TypeOK
  <2>2. /\ task[t] \in RowType /\ task[t].version >= 1 /\ History(task[t], events[t])
        /\ events[t] \in Seq(EventType)
    BY <2>1, CurrentRowType DEF FactsInv, HistoriesKept, TypeOK, EventType
  <2>3. "queued" \in TaskState /\ "running" \in TaskState /\ can_transition("queued", "running")
    BY DEF TaskState, can_transition, TASK_TRANSITIONS
  \* A resume requeues the row first.
  <2>4. PICK moves \in Seq(EventType) :
            /\ base \in RowType /\ base.version >= 1 /\ History(base, moves)
            /\ can_transition(base.state, "running")
            /\ events'[t] = moves \o <<Event(base.state, "running")>>
    <3>1. CASE req[s].op = "resume"
      <4> DEFINE old  == task[t]
                 kept == events[t]
                 e    == Event(old.state, "queued")
      <4>1. base = TransitionRow(old, "queued")
        BY <3>1 DEF ClaimBase
      <4>2. base \in RowType /\ base.state = "queued" /\ base.version = old.version + 1
        BY <4>1, <2>2, <2>3, TransitionRowType, TransitionFields, TransitionOwner
      <4>3. events'[t] = kept \o <<e, Event("queued", "running")>>
        BY <1>7, <2>1, <3>1 DEF Claim, Commit, TypeOK
      <4>4. e \in EventType /\ Event("queued", "running") \in EventType
        BY <2>2, <2>3, EventTyped DEF RowType
      <4>5. can_transition(old.state, base.state)
        BY <2>1, <3>1, <4>2
      <4>6. old \in RowType /\ old.version >= 1 /\ History(old, kept) /\ kept \in Seq(EventType)
        BY <2>2
      <4> HIDE DEF old, kept, base
      <4>7. LET longer == Append(kept, Event(old.state, base.state))
            IN  longer \in Seq(EventType) /\ History(base, longer) /\ base.version >= 1
        BY <4>2, <4>5, <4>6, HistoryGrows
      <4>8. Append(kept, e) \o <<Event("queued", "running")>> = events'[t]
        <5> HIDE DEF e
        <5> QED
          BY <4>3, <4>4, <4>6
      <4> QED
        BY <4>2, <4>7, <4>8, <2>3
    <3>2. CASE req[s].op # "resume"
      <4>1. base = task[t] /\ events'[t] = events[t] \o <<Event(task[t].state, "running")>>
        BY <1>7, <2>1, <3>2 DEF ClaimBase, Claim, Commit, TypeOK
      <4> QED
        BY <2>1, <2>2, <3>2, <4>1
    <3> QED
      BY <3>1, <3>2
  <2>5. claim \in RowType /\ claim.state = "running" /\ claim.version = base.version + 1 /\ claim.owner = s
    <3>1. /\ run \in RowType /\ run.state = "running" /\ run.version = base.version + 1
      BY <2>3, <2>4, TransitionRowType, TransitionFields, TransitionOwner
    <3>2. claim \in RowType
      BY <3>1, LeaseRowTypes
    <3> HIDE DEF run
    <3> QED
      BY <3>1, <3>2 DEF AcquireRow, RowType
  <2>6. claim.version >= 1 /\ History(claim, events'[t])
    <3>1. Event(base.state, "running") \in EventType
      BY <2>3, <2>4, EventTyped DEF RowType
    <3> HIDE DEF base, claim
    <3>2. events'[t] = Append(moves, Event(base.state, claim.state))
      BY <2>4, <2>5, <3>1
    <3> QED
      BY <2>4, <2>5, <3>2, HistoryGrows
  <2>7. /\ task'[t] = claim
        /\ \A u \in Tasks \ {t} : task'[u] = task[u] /\ events'[u] = events[u]
        /\ linked' = linked
        /\ req' = [req EXCEPT ![s] = [pc |-> "leased", task |-> t, gen |-> claim.gen]]
    BY <1>7, <2>1 DEF Claim, Commit, TypeOK
  <2>8. HolderKnows(s)'
    <3>1. req'[s] = [pc |-> "leased", task |-> t, gen |-> claim.gen]
      BY <2>7 DEF TypeOK
    <3>2. req'[s].task = t /\ req'[s].gen = claim.gen
      BY <3>1
    <3> QED
      BY <2>5, <2>7, <3>2 DEF HolderKnows
  <2>9. \A q \in Sessions \ {s} : req'[q] = req[q] /\ claim.owner # q
    BY <2>5, <2>7 DEF TypeOK
  <2>10. t \in linked' => task'[t] # NoRow
    BY <2>5, <2>7, NoRowAssumption
  <2> HIDE DEF claim, t
  <2> QED
    BY <2>1, <2>6, <2>7, <2>8, <2>9, <2>10, FactsStep
<1>8. ASSUME NEW s \in Sessions, Refuse(s) \/ Abandon(s) PROVE FactsInv'
  BY <1>8, <1>k, <1>i DEF Refuse, Abandon, TypeOK
<1>9. ASSUME NEW s \in Sessions, NEW stage \in WorkStages, Heartbeat(s, stage) PROVE FactsInv'
  <2> DEFINE t   == req[s].task
             old == task[t]
             row == HeartbeatRow(old, stage)
  <2>1. t \in Tasks /\ old # NoRow /\ old.state = "running"
    BY <1>9, ReqShapes DEF Heartbeat, Working, Fenced, FenceHolds, TypeOK
  <2>2. old \in RowType /\ row \in RowType
    BY <2>1, CurrentRowType, LeaseRowTypes, WorkStagesAssumption
  <2>3. /\ row.state = old.state /\ row.version = old.version /\ row.owner = old.owner
        /\ row.gen = old.gen
    <3> HIDE DEF old
    <3> QED
      BY <2>2 DEF HeartbeatRow, RowType
  <2>4. /\ task'[t] = row /\ \A u \in Tasks \ {t} : task'[u] = task[u]
        /\ linked' \subseteq linked \cup {t} /\ UNCHANGED <<events, req>>
    BY <1>9, <2>1 DEF Heartbeat, TypeOK
  <2>5. row.version >= 1 /\ History(row, events[t])
    BY <2>1, <2>3 DEF FactsInv, HistoriesKept, History
  <2>6. row # NoRow
    BY <2>2, NoRowAssumption
  <2> HIDE DEF row
  <2> QED
    BY <2>1, <2>3, <2>4, <2>5, <2>6, FactsStep
<1>10. ASSUME NEW s \in Sessions, Succeed(s) PROVE FactsInv'
  <2> DEFINE t     == req[s].task
             moved == TransitionRow(task[t], "succeeded")
             done  == [moved EXCEPT !.stage = "durable_verified"]
  <2>1. t \in Tasks /\ task[t] # NoRow /\ task[t].state = "running"
    BY <1>10, ReqShapes DEF Succeed, Working, Fenced, FenceHolds, TypeOK
  <2>2. task[t] \in RowType /\ moved \in RowType
    BY <2>1, <1>q, CurrentRowType, TransitionRowType
  <2>3. /\ moved.state = "succeeded" /\ moved.version = task[t].version + 1 /\ moved.owner = NoOwner
    BY <2>2, <1>q, TransitionFields, TransitionOwner
  <2>4. "durable_verified" \in Stages
    BY DEF Stages, RecoveryReviewStages
  <2>5. done \in RowType /\ done.state = moved.state /\ done.version = moved.version /\ done.owner = moved.owner
    <3> HIDE DEF moved
    <3> QED
      BY <2>2, <2>4 DEF RowType
  <2>6. Commit(s, done, <<Event("running", "succeeded")>>) /\ linked' = linked /\ NoLease(s)
    <3>1. PICK r : r.pc = "verifying" /\ req' = [req EXCEPT ![s] = r]
      BY <1>10 DEF Succeed
    <3> QED
      BY <1>10, <3>1, NoLeaseType DEF Succeed
  <2>7. can_transition("running", "succeeded")
    BY DEF can_transition, TASK_TRANSITIONS, TaskState
  <2> HIDE DEF done, moved
  <2> QED
    BY <2>1, <2>3, <2>5, <2>6, <2>7, FactsCommit
<1>11. ASSUME NEW s \in Sessions, NEW target \in {"failed", "cancelled", "outcome_unknown"}, Stop(s, target)
       PROVE  FactsInv'
  <2>1. /\ req[s].task \in Tasks /\ task[req[s].task] # NoRow
        /\ can_transition(task[req[s].task].state, target)
    BY <1>11, ReqShapes DEF Stop, Working, TypeOK
  <2> QED
    BY <1>11, <2>1, <1>e, <1>q, FactsTransition DEF Stop
<1>12. ASSUME NEW s \in Sessions, NEW proved \in BOOLEAN, Verify(s, proved) PROVE FactsInv'
  <2> DEFINE t   == req[s].task
             old == task[t]
             row == UnknownRow(old)
  <2>1. t \in Tasks /\ linked' = linked /\ NoLease(s)
    BY <1>12, <1>e, ReqShapes DEF Verify, TypeOK
  <2>2. CASE /\ old # NoRow /\ old.state = "succeeded"
             /\ Commit(s, row, <<Event("succeeded", "outcome_unknown")>>)
    <3>1. old \in RowType /\ row \in RowType
      BY <2>1, <2>2, CurrentRowType, LeaseRowTypes
    <3>2. row.state = "outcome_unknown" /\ row.version = old.version + 1 /\ row.owner = NoOwner
      <4> HIDE DEF old
      <4> QED
        BY <3>1 DEF UnknownRow, RowType
    <3> HIDE DEF row
    <3> QED
      BY <2>1, <2>2, <3>1, <3>2, FactsCommit
  <2>3. CASE UNCHANGED <<task, events>>
    BY <2>1, <2>3, <1>k DEF NoLease
  <2> QED
    BY <1>12, <2>2, <2>3 DEF Verify
<1>13. ASSUME NEW s \in Sessions, NEW t \in Tasks, StartCheck(s, t) PROVE FactsInv'
  <2> DEFINE row == TransitionRow(NewRow("queued"), "running")
             first == Event("none", "queued")
  <2>1. /\ task'[t] = row /\ events'[t] = <<first, Event("queued", "running")>>
        /\ \A u \in Tasks \ {t} : task'[u] = task[u] /\ events'[u] = events[u]
        /\ linked' = linked /\ task[t] = NoRow
    BY <1>13 DEF StartCheck, TypeOK
  <2>2. NoLease(s)
    <3>1. PICK r : r.pc = "checking" /\ req' = [req EXCEPT ![s] = r]
      BY <1>13 DEF StartCheck
    <3> QED
      BY <3>1, NoLeaseType
  <2>3. "running" \in TaskState /\ can_transition("queued", "running")
    BY DEF TaskState, can_transition, TASK_TRANSITIONS
  <2>4. /\ NewRow("queued").version = 1 /\ NewRow("queued").state = "queued"
        /\ NewRow("queued").owner = NoOwner
    BY DEF NewRow
  <2>5. row \in RowType /\ row.version = 2 /\ row.state = "running" /\ row.owner = NoOwner
    BY <2>3, <2>4, NewRowType, TransitionRowType, TransitionFields, TransitionOwner
  <2>6. first \in EventType /\ History(NewRow("queued"), <<first>>)
    <3>1. first \in EventType /\ first.from = "none" /\ first.to = "queued"
      BY <1>q, EventTyped DEF Event
    <3> HIDE DEF first
    <3> QED
      BY <2>4, <3>1 DEF History
  <2>7. events'[t] = Append(<<first>>, Event(NewRow("queued").state, row.state))
    <3> HIDE DEF first, row
    <3> QED
      BY <2>1, <2>4, <2>5
  <2>8. History(row, events'[t])
    <3>1. <<first>> \in Seq(EventType)
      BY <2>6
    <3> HIDE DEF row, first
    <3> QED
      BY <3>1, <2>3, <2>4, <2>5, <2>6, <2>7, NewRowType, HistoryGrows
  <2>9. row # NoRow
    BY <2>5, NoRowAssumption
  <2>10. HolderKnows(s)' /\ \A q \in Sessions \ {s} : req'[q] = req[q] /\ row.owner # q
    BY <2>2, <2>5, SessionsAssumption DEF NoLease, HolderKnows
  <2> HIDE DEF row
  <2> QED
    BY <2>1, <2>5, <2>8, <2>9, <2>10, FactsStep
<1>14. ASSUME NEW s \in Sessions, NEW target \in {"succeeded", "failed"}, FinishCheck(s, target)
       PROVE  FactsInv'
  <2>1. req[s].task \in Tasks /\ linked' = linked /\ NoLease(s)
    BY <1>14, <1>e, ReqShapes DEF FinishCheck, TypeOK
  <2>2. CASE task[req[s].task] # NoRow /\ task[req[s].task].state = "running"
    <3>1. can_transition(task[req[s].task].state, target)
      BY <2>2 DEF can_transition, TASK_TRANSITIONS, TaskState
    <3>2. Commit(s, TransitionRow(task[req[s].task], target), <<Event("running", target)>>)
      BY <1>14, <2>2 DEF FinishCheck
    <3> QED
      BY <2>1, <2>2, <3>1, <3>2, <1>q, FactsTransition
  <2>3. CASE UNCHANGED <<task, events>>
    BY <2>1, <2>3, <1>k DEF NoLease
  <2> QED
    BY <1>14, <2>2, <2>3 DEF FinishCheck
<1>15. ASSUME NEW t \in Tasks, ExpireLease(t) PROVE FactsInv'
  <2> DEFINE old == task[t]
             row == [old EXCEPT !.live = FALSE]
  <2>1. old # NoRow /\ old \in RowType
    BY <1>15, CurrentRowType DEF ExpireLease
  <2>2. /\ task'[t] = row /\ \A u \in Tasks \ {t} : task'[u] = task[u]
        /\ UNCHANGED <<events, linked, req>>
    BY <1>15 DEF ExpireLease, TypeOK
  <2>3. /\ row \in RowType /\ row.state = old.state /\ row.version = old.version
        /\ row.owner = old.owner /\ row.gen = old.gen
    <3> HIDE DEF old
    <3> QED
      BY <2>1 DEF RowType
  <2>4. row.version >= 1 /\ History(row, events[t])
    BY <2>1, <2>3 DEF FactsInv, HistoriesKept, History
  <2>5. row # NoRow
    BY <2>3, NoRowAssumption
  <2> HIDE DEF row
  <2> QED
    BY <2>1, <2>2, <2>3, <2>4, <2>5, FactsStep
<1>16. CASE Crash
  BY <1>16, <1>k, <1>i DEF Crash
<1>17. CASE Startup
  <2>1. CASE RecoveryAccepted
    <3>1. ASSUME NEW t \in Interrupted
          PROVE  /\ task'[t].version >= 1 /\ History(task'[t], events'[t])
                 /\ task'[t].owner = NoOwner /\ task[t] # NoRow
      <4> DEFINE old    == task[t]
                 target == RecoveryTarget(old)
                 row    == TransitionRow(old, target)
                 moves  == events[t]
      <4>1. /\ t \in Tasks /\ old # NoRow /\ old \in RowType /\ old.version >= 1 /\ History(old, moves)
            /\ moves \in Seq(EventType)
        BY CurrentRowType DEF Interrupted, FactsInv, HistoriesKept, TypeOK, EventType
      <4>2. target \in ClearsLease /\ target \in TaskState
        BY <1>q DEF RecoveryTarget
      <4>3. task'[t] = row /\ events'[t] = Append(moves, Event(old.state, target))
        BY <1>17, <2>1, <4>1 DEF Startup
      <4>4. can_transition(old.state, target)
        BY <2>1 DEF RecoveryAccepted
      <4>5. /\ row \in RowType /\ row.state = target /\ row.version = old.version + 1
            /\ row.owner = NoOwner
        BY <4>1, <4>2, TransitionRowType, TransitionFields, TransitionOwner
      <4> HIDE DEF old, row, moves, target
      <4>6. LET longer == Append(moves, Event(old.state, row.state))
            IN  History(row, longer) /\ row.version >= 1
        BY <4>1, <4>4, <4>5, HistoryGrows
      <4> QED
        BY <4>1, <4>3, <4>5, <4>6 DEF old
    <3>2. \A t \in Tasks \ Interrupted : task'[t] = task[t] /\ events'[t] = events[t]
      BY <1>17, <2>1 DEF Startup
    <3>3. UNCHANGED <<linked, req>>
      BY <1>17 DEF Startup
    <3>4. HistoriesKept'
      BY <3>1, <3>2 DEF FactsInv, HistoriesKept
    <3>5. LinkedHistoryKept'
      <4>1. ASSUME NEW t \in Interrupted PROVE task'[t] # NoRow
        <5>1. t \in Tasks /\ task[t] \in RowType /\ task'[t] = TransitionRow(task[t], RecoveryTarget(task[t]))
          BY <1>17, <2>1, CurrentRowType DEF Startup, Interrupted
        <5>2. RecoveryTarget(task[t]) \in TaskState
          BY <1>q DEF RecoveryTarget
        <5> QED
          BY <5>1, <5>2, TransitionRowType, NoRowAssumption
      <4> QED
        BY <3>2, <3>3, <4>1 DEF FactsInv, LinkedHistoryKept, TypeOK
    <3>6. ASSUME NEW s \in Sessions PROVE HolderKnows(s)'
      <4>1. HolderKnows(s) /\ (req[s].pc = "leased" => req[s].task \in Tasks)
        BY ReqShapes DEF FactsInv, TypeOK
      <4> QED
        BY <3>1, <3>2, <3>3, <4>1, SessionsAssumption DEF HolderKnows
    <3> QED
      BY <3>4, <3>5, <3>6 DEF FactsInv
  <2>2. CASE ~RecoveryAccepted
    BY <1>17, <2>2, <1>k DEF Startup
  <2> QED
    BY <2>1, <2>2
<1>18. CASE UNCHANGED vars
  BY <1>18, <1>k DEF vars
<1> QED
  BY <1>1, <1>2, <1>3, <1>4, <1>5, <1>6, <1>7, <1>8, <1>9, <1>10, <1>11, <1>12, <1>13, <1>14,
     <1>15, <1>16, <1>17, <1>18
  DEF Next, SessionStep

\* The events of a task tell its whole story, the task of a linked asset keeps its
\* row, and only the newest claim of a task reports progress (transition(),
\* delete_history(), acquire_lease()), for any number of tasks and sessions.
THEOREM FactsAgree == Spec => []RowFactsAgree
<1>1. Init => FactsInv
  BY DEF Init, FactsInv, HistoriesKept, LinkedHistoryKept, HolderKnows, Idle
<1>2. FactsInv => RowFactsAgree
  BY DEF FactsInv, HistoriesKept, History, HolderKnows, RowFactsAgree, HistoryFaithful, LeaseIsNewest,
         Working
<1> QED
  BY <1>1, <1>2, EveryStepKeepsFacts, TypeCorrect, PTL DEF Spec
==============================================================================
