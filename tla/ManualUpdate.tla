---------------------------- MODULE ManualUpdate ----------------------------
(***************************************************************************)
(* A source check asks the provider for the detail of one item source and    *)
(* keeps it as a fact; the user picks fields of it, and a confirmation writes *)
(* them together with a metadata_update task (app/source_update/service.py).  *)
(* A plan is a check and the fields it changes: old and new values follow     *)
(* from the fact, so that pair is also its intent key.                        *)
(***************************************************************************)
EXTENDS CatalogRows

CONSTANTS
    Update,     \* confirm requests of manual updates
    MaxChecks   \* bound: source checks

ASSUME UpdateAssumption == MaxChecks \in 1..MaxFetch

MANUAL_UPDATE_FIELDS == {"summary", "checked"}

NoCheck == [st |-> "none"]
TaskAt(state, stage, version) == [state |-> state, stage |-> stage, version |-> version]
NoTask == TaskAt("none", "none", 0)
NoPlan == [check |-> 0]
NoPre == [item |-> NoItem]

VARIABLES
    check,      \* source_check tasks and their facts, by number
    signed,     \* plans a token was signed for
    mtask,      \* metadata_update tasks, by plan
    ureq,       \* confirm requests; history: seen, what it read back before it told its report
    ustanding,  \* history: requests whose fields are still in the database
    uwritten    \* history: plans ever written

updateVars == <<check, signed, mtask, ureq, ustanding, uwritten>>

Checks == 1..MaxChecks
Plans == [check: Checks, fields: SUBSET MANUAL_UPDATE_FIELDS]
UIdle == [pc |-> "idle", plan |-> NoPlan, pre |-> NoPre, report |-> "none", seen |-> "nothing"]

----------------------------------------------------------------------------
(* execute_source_check                                                     *)

\* The source row is read before the await of the provider.
StartCheck(c, s) ==
    /\ check[c] = NoCheck
    /\ \A d \in 1..(c - 1) : check[d] # NoCheck
    /\ s \in SourceIds /\ sources[s].ident
    /\ check' = [check EXCEPT ![c] = [st |-> "running", sourceId |-> s, source |-> sources[s]]]
    /\ UNCHANGED <<signed, mtask, ureq, ustanding, uwritten, rowVars>>

\* The item row is read after it; updated_at, which the item's snapshot covers,
\* is known by the number of edits made so far.
SucceedCheck(c, summary) ==
    LET i == check[c].source.item
    IN  /\ check[c].st = "running"
        /\ items[i] # NoItem
        /\ check' = [check EXCEPT ![c] =
                       [st |-> "succeeded", sourceId |-> check[c].sourceId,
                        source |-> check[c].source, item |-> items[i], edits |-> edits,
                        summary |-> summary, fresh |-> TRUE, kept |-> TRUE]]
        /\ UNCHANGED <<signed, mtask, ureq, ustanding, uwritten, rowVars>>

\* The provider fails, the item is gone, or the row was moved meanwhile.
FailCheck(c) ==
    /\ check[c].st = "running"
    /\ check' = [check EXCEPT ![c] = [st |-> "ended"]]
    /\ UNCHANGED <<signed, mtask, ureq, ustanding, uwritten, rowVars>>

ExpireFact(c) ==
    /\ check[c].st = "succeeded" /\ check[c].fresh
    /\ check' = [check EXCEPT ![c].fresh = FALSE]
    /\ UNCHANGED <<signed, mtask, ureq, ustanding, uwritten, rowVars>>

\* The check leaves the task history, and its fact with it.
ForgetCheck(c) ==
    /\ check[c].st = "succeeded" /\ check[c].kept
    /\ check' = [check EXCEPT ![c].kept = FALSE, ![c].fresh = FALSE]
    /\ UNCHANGED <<signed, mtask, ureq, ustanding, uwritten, rowVars>>

----------------------------------------------------------------------------
(* build_manual_update_plan and the token                                   *)

ItemOf(c) == check[c].source.item
Current(c, f) == IF f = "summary" THEN items[ItemOf(c)].summary
                 ELSE sources[check[c].sourceId].checked
New(c, f) == IF f = "summary" THEN check[c].summary ELSE c

\* Both rows are as the check saw them.  updated_at has a resolution of one
\* second: an edit that restores the values may or may not be noticed.
SnapshotsHoldMutant(c, noticed) ==
    items[ItemOf(c)] # NoItem /\ sources[check[c].sourceId] # NoSource
SnapshotsHold(c, noticed) ==
    /\ check[c].kept
    /\ items[ItemOf(c)] # NoItem
    /\ items[ItemOf(c)] = check[c].item
    /\ sources[check[c].sourceId] = check[c].source
    /\ noticed => edits = check[c].edits

\* A provider's empty value never clears a local one.
ChangedFieldsMutant(c, selected) == {f \in selected : Current(c, f) # New(c, f)}
ChangedFields(c, selected) ==
    {f \in selected : /\ Current(c, f) # New(c, f)
                      /\ f = "summary" => New(c, f) # Blank}

UpdatePreview(c, selected, noticed) ==
    /\ check[c].st = "succeeded" /\ check[c].fresh
    /\ SnapshotsHold(c, noticed)
    /\ ChangedFields(c, selected) # {}
    /\ signed' = signed \cup {[check |-> c, fields |-> ChangedFields(c, selected)]}
    /\ UNCHANGED <<check, mtask, ureq, ustanding, uwritten, rowVars>>

\* verify_manual_update_token accepts the token, or it is expired or of another session.
UpdateConfirm(r, p, accepted) ==
    /\ ureq[r] = UIdle
    /\ p \in signed
    /\ ureq' = [ureq EXCEPT ![r].plan = p,
                            ![r].pc = IF accepted THEN "begin" ELSE "done",
                            ![r].report = IF accepted THEN "none" ELSE "refused"]
    /\ UNCHANGED <<check, signed, mtask, ustanding, uwritten, rowVars>>

----------------------------------------------------------------------------
(* apply_manual_update                                                      *)

ThePlan(r) == ureq[r].plan
TheTask(r) == mtask[ThePlan(r)]
Go(r, pc) == ureq' = [ureq EXCEPT ![r].pc = pc]
TellSeeing(r, report, seen) ==
    ureq' = [ureq EXCEPT ![r].pc = "done", ![r].report = report, ![r].pre = NoPre, ![r].seen = seen]
Tell(r, report) == TellSeeing(r, report, "nothing")

WithFields(plan, item) ==
    IF "summary" \in plan.fields THEN [item EXCEPT !.summary = New(plan.check, "summary")] ELSE item
WithTracking(plan, source) ==
    IF "checked" \in plan.fields THEN [source EXCEPT !.checked = plan.check] ELSE source

\* BEGIN IMMEDIATE fails, or the running limit refuses the new task: no write.
UpdateBeginFails(r) ==
    /\ ureq[r].pc = "begin"
    /\ Tell(r, "write_failed")
    /\ UNCHANGED <<check, signed, mtask, ustanding, uwritten, rowVars>>

\* The plan has a task already: a success is looked at again, else the plan is stale.
ExistingMutant(r) == FALSE
Existing(r) == TheTask(r) # NoTask

Replay(r) ==
    /\ ureq[r].pc = "begin"
    /\ Existing(r)
    /\ IF TheTask(r).state = "succeeded" THEN Go(r, "replay") ELSE Tell(r, "stale_plan")
    /\ UNCHANGED <<check, signed, mtask, ustanding, uwritten, rowVars>>

StalePlan(r, noticed) ==
    /\ ureq[r].pc = "begin"
    /\ ~Existing(r)
    /\ ~SnapshotsHold(ThePlan(r).check, noticed)
    /\ Tell(r, "stale_plan")
    /\ UNCHANGED <<check, signed, mtask, ustanding, uwritten, rowVars>>

\* Task row, item and source in one transaction: ok, failed, or durable but raising.
WriteFields(r, outcome, noticed) ==
    LET p == ThePlan(r)
        i == ItemOf(p.check)
        s == check[p.check].sourceId
    IN  /\ ureq[r].pc = "begin"
        /\ ~Existing(r)
        /\ SnapshotsHold(p.check, noticed)
        /\ ureq' = [ureq EXCEPT ![r].pc = IF outcome = "ok" THEN "verify" ELSE "inspect",
                                ![r].pre = [item |-> items[i], source |-> sources[s]]]
        /\ IF outcome = "failed"
           THEN UNCHANGED <<items, sources, mtask, ustanding, uwritten>>
           ELSE /\ items' = [items EXCEPT ![i] = WithFields(p, @)]
                /\ sources' = [sources EXCEPT ![s] = WithTracking(p, @)]
                /\ mtask' = [mtask EXCEPT ![p] = TaskAt("running", "written", 2)]
                /\ ustanding' = ustanding \cup {r}
                /\ uwritten' = uwritten \cup {p}
        /\ UNCHANGED <<check, signed, orphans, edits>>

\* _verify_manual_update_state: a second session that may itself fail to read.
PostHolds(r, state, stage, version) ==
    LET p == ThePlan(r)
        pre == ureq[r].pre
    IN  /\ check[p.check].kept
        /\ items[pre.source.item] = WithFields(p, pre.item)
        /\ sources[check[p.check].sourceId] = WithTracking(p, pre.source)
        /\ TheTask(r) = TaskAt(state, stage, version)

WrittenHolds(r) == PostHolds(r, "running", "written", 2)
SuccessHolds(r) == PostHolds(r, "succeeded", "committed_verified", 3)

\* _verify_manual_pre_state
PreHoldsMutant(r) == TRUE
PreHolds(r) ==
    LET pre == ureq[r].pre
    IN  /\ items[pre.source.item] = pre.item
        /\ sources[check[ThePlan(r).check].sourceId] = pre.source
        /\ TheTask(r) = NoTask

\* _verify_manual_replay
ReplayHolds(r) ==
    LET c == ThePlan(r).check
    IN  /\ items[ItemOf(c)] # NoItem
        /\ sources[check[c].sourceId] # NoSource
        /\ TheTask(r).state = "succeeded" /\ TheTask(r).stage = "committed_verified"
        /\ \A f \in ThePlan(r).fields : Current(c, f) = New(c, f)

EndReplay(r, readable) ==
    /\ ureq[r].pc = "replay"
    /\ Tell(r, IF readable /\ ReplayHolds(r) THEN "already_applied_verified" ELSE "outcome_unknown")
    /\ UNCHANGED <<check, signed, mtask, ustanding, uwritten, rowVars>>

\* The first look, after a raising commit ("inspect") and after any ("verify").
FirstLook(r, readable) ==
    /\ ureq[r].pc \in {"inspect", "verify"}
    /\ IF readable /\ WrittenHolds(r)
       THEN Go(r, IF ureq[r].pc = "inspect" THEN "verify" ELSE "succeed")
       ELSE Tell(r, IF PreHolds(r) THEN "write_failed" ELSE "outcome_unknown")
    /\ UNCHANGED <<check, signed, mtask, ustanding, uwritten, rowVars>>

\* The success transition; refused once the task was paused or cancelled, and
\* its commit may fail or raise.  The request only looks again.
MayMarkMutant(r) == TheTask(r) # NoTask
MayMark(r) == TheTask(r).state = "running"

MarkSucceeded(r, durable) ==
    /\ ureq[r].pc = "succeed"
    /\ Go(r, "final")
    /\ IF durable /\ MayMark(r)
       THEN mtask' = [mtask EXCEPT ![ThePlan(r)] =
                        TaskAt("succeeded", "committed_verified", @.version + 1)]
       ELSE UNCHANGED mtask
    /\ UNCHANGED <<check, signed, ustanding, uwritten, rowVars>>

FinalLook(r, readable) ==
    /\ ureq[r].pc = "final"
    /\ IF readable /\ SuccessHolds(r) THEN Tell(r, "committed_verified") ELSE Go(r, "undone")
    /\ UNCHANGED <<check, signed, mtask, ustanding, uwritten, rowVars>>

\* Still running and written, fields and all: the code says write_failed.
\* Otherwise a success nobody could verify is taken back.
LastLook(r, readable, marked) ==
    /\ ureq[r].pc = "undone"
    /\ IF readable /\ WrittenHolds(r)
       THEN TellSeeing(r, "write_failed", "written") /\ UNCHANGED mtask
       ELSE /\ Tell(r, "outcome_unknown")
            /\ IF marked /\ TheTask(r) = TaskAt("succeeded", "committed_verified", 3)
               THEN mtask' = [mtask EXCEPT ![ThePlan(r)] =
                                TaskAt("outcome_unknown", "verification_unknown", 4)]
               ELSE UNCHANGED mtask
    /\ UNCHANGED <<check, signed, ustanding, uwritten, rowVars>>

----------------------------------------------------------------------------
(* What happens beside it                                                   *)

\* The task page pauses a running task or removes a closed one from the history.
PauseTask(p) ==
    /\ mtask[p].state = "running"
    /\ mtask' = [mtask EXCEPT ![p].state = "paused", ![p].version = @ + 1]
    /\ UNCHANGED <<check, signed, ureq, ustanding, uwritten, rowVars>>

DeleteTask(p) ==
    /\ mtask[p].state = "succeeded"
    /\ mtask' = [mtask EXCEPT ![p] = NoTask]
    /\ UNCHANGED <<check, signed, ureq, ustanding, uwritten, rowVars>>

\* The process stops; restart recovery pauses what was running.
Restart ==
    /\ \E r \in Update : ureq[r].pc \notin {"idle", "done"}
    /\ ureq' = [r \in Update |-> IF ureq[r].pc \in {"idle", "done"} THEN ureq[r]
                                 ELSE [ureq[r] EXCEPT !.pc = "done", !.pre = NoPre]]
    /\ mtask' = [p \in Plans |-> IF mtask[p].state = "running"
                   THEN [mtask[p] EXCEPT !.state = "paused", !.version = @ + 1] ELSE mtask[p]]
    /\ check' = [c \in Checks |-> IF check[c].st = "running" THEN [st |-> "ended"] ELSE check[c]]
    /\ UNCHANGED <<signed, ustanding, uwritten, rowVars>>

\* A page edit takes back what it overwrites or deletes.
FieldsThere(r) ==
    LET c == ThePlan(r).check
    IN  /\ items'[ItemOf(c)] # NoItem
        /\ sources'[check[c].sourceId] # NoSource
        /\ "summary" \in ThePlan(r).fields => items'[ItemOf(c)].summary = New(c, "summary")

PageBeside ==
    /\ PageEdit
    /\ ustanding' = {r \in ustanding : FieldsThere(r)}
    /\ UNCHANGED <<check, signed, mtask, ureq, uwritten>>

UpdateStart ==
    /\ check = [c \in Checks |-> NoCheck]
    /\ signed = {}
    /\ mtask = [p \in Plans |-> NoTask]
    /\ ureq = [r \in Update |-> UIdle]
    /\ ustanding = {}
    /\ uwritten = {}

UpdateNext ==
    \/ PageBeside \/ Restart
    \/ \E c \in Checks :
          \/ \E s \in 1..MaxId : StartCheck(c, s)
          \/ \E summary \in {Blank, "provided"} : SucceedCheck(c, summary)
          \/ FailCheck(c) \/ ExpireFact(c) \/ ForgetCheck(c)
          \/ \E selected \in SUBSET MANUAL_UPDATE_FIELDS, noticed \in BOOLEAN :
                UpdatePreview(c, selected, noticed)
    \/ \E p \in Plans : PauseTask(p) \/ DeleteTask(p)
    \/ \E r \in Update :
          \/ \E p \in signed, accepted \in BOOLEAN : UpdateConfirm(r, p, accepted)
          \/ UpdateBeginFails(r) \/ Replay(r)
          \/ \E noticed \in BOOLEAN :
                \/ StalePlan(r, noticed)
                \/ \E outcome \in {"ok", "failed", "lost"} : WriteFields(r, outcome, noticed)
          \/ \E ok \in BOOLEAN :
                \/ EndReplay(r, ok) \/ FirstLook(r, ok) \/ MarkSucceeded(r, ok) \/ FinalLook(r, ok)
                \/ \E marked \in BOOLEAN : LastLook(r, ok, marked)

UpdateInit == RowsInit /\ UpdateStart
UpdateSpec == UpdateInit /\ [][UpdateNext]_<<rowVars, updateVars>>

----------------------------------------------------------------------------
(* Properties                                                               *)

\* Facts, tokens, tasks and requests have the shape the code gives them.
UpdateTypeOK ==
    /\ signed \subseteq Plans
    /\ \A c \in Checks : check[c].st \in {"none", "running", "succeeded", "ended"}
    /\ \A p \in Plans : mtask[p] \in
          {NoTask, TaskAt("running", "written", 2), TaskAt("paused", "written", 3),
           TaskAt("succeeded", "committed_verified", 3),
           TaskAt("outcome_unknown", "verification_unknown", 4)}
    /\ ustanding \subseteq Update /\ uwritten \subseteq Plans

\* A manual update replaces a value only if it is the one the preview showed,
\* keeps every title, and never clears a summary (snapshots, ChangedFields).
OnlyWhatWasShown ==
    [][ (\E r \in Update, o \in {"ok", "lost"}, n \in BOOLEAN : WriteFields(r, o, n)) =>
          \A i \in ItemIds :
             /\ items'[i].title = items[i].title
             /\ items'[i].summary # items[i].summary =>
                   /\ items'[i].summary # Blank
                   /\ \E c \in Checks : /\ check[c].st = "succeeded" /\ ItemOf(c) = i
                                        /\ check[c].item.summary = items[i].summary
      ]_<<rowVars, updateVars>>

\* The confirmation keeps what ConfirmOutcome promises: a plan is not written
\* again while its fields stand, success is told only of what was written, and
\* write_failed only when nothing of it is there.  One exception, which the code
\* has and a test denies: when the success transition did not take, a request
\* that has just read the fields and the task back as written says write_failed
\* of them (LastLook).  ConfirmOutcome calls that answer misled.
UpdateAnswer(r) ==
    CASE ureq[r].report \in {"none", "refused"} -> "none"
      [] ureq[r].report \in {"committed_verified", "already_applied_verified"} -> "done"
      [] ureq[r].report = "write_failed" /\ ureq[r].seen = "nothing" -> "failed"
      [] ureq[r].report = "write_failed" /\ ureq[r].seen = "written" -> "misled"
      [] OTHER -> "unknown"

UpdateOutcome == INSTANCE ConfirmOutcome WITH
    Request <- Update, Authority <- Plans, None <- NoPlan,
    asked <- [r \in Update |-> IF ureq[r].report = "refused" THEN NoPlan ELSE ureq[r].plan],
    stands <- ustanding, applied <- uwritten,
    answer <- [r \in Update |-> UpdateAnswer(r)]

UpdateKeepsPromise == UpdateOutcome!OutcomeSpec
============================================================================
