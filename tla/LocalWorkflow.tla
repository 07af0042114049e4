---------------------------- MODULE LocalWorkflow ----------------------------
(***************************************************************************)
(* Local imports, integrity checks, index refreshes and recoveries as tasks   *)
(* (app/local_workflow).  execute_local_task runs inside an async route: it    *)
(* blocks the event loop, so there is one execution at a time, while the       *)
(* thread-pool routes (confirm, pause, cancel, retry, new checks) and other    *)
(* programs act between its commits.                                           *)
(*                                                                          *)
(* One media path.  A file is a number: 0 is no file, every replacement gets   *)
(* the next one, and odd and even numbers stand for two contents.  Of a task    *)
(* row only state and stage are kept: with one execution at a time its lease is *)
(* the newest, and the fence asks whether the row is still running.             *)
(***************************************************************************)
EXTENDS TaskContracts

CONSTANTS
    ImportItem,     \* items a file may be imported for
    Maintenance,    \* index and recovery tasks that may be created
    MaxFiles,       \* bound: replacements of the file
    MaxLocalTasks,  \* bound: task rows at a time
    MaxPresses      \* bound: starts and buttons pressed on the task page

ASSUME LocalAssumption == {MaxFiles, MaxLocalTasks, MaxPresses} \subseteq Nat /\ MaxFiles > 0

Sha(n) == n % 2
Files == 0..MaxFiles
LocalRow(state, stage) == [state |-> state, stage |-> stage]
NoLocal == LocalRow("none", "none")
NoLink == [task |-> [kind |-> "none"]]

\* Intent keys: item, path and content of an import; asset and content of a check.
Imports == [kind: {"import"}, item: ImportItem, sha: {0, 1}]
IntegrityChecks == [kind: {"check"}, sha: {0, 1}]
Upkeep == [kind: {"index", "recovery"}, key: Maintenance]
LocalTasks == Imports \cup IntegrityChecks \cup Upkeep

PostWrite == {"db_linked", "integrity_checked", "index_verified", "recovery_required"}

VARIABLES
    file,       \* the file now
    plans,      \* the last signed import plan of each item: the file it was previewed with
    ltask,      \* task rows
    fact,       \* snapshot_hash of an import task: the file it was confirmed with
    link,       \* the item_local_assets row of the path
    lindex,     \* the media index: valid, and the file its entry describes
    exec,       \* the running execution
    presses,    \* how many buttons were pressed
    proved      \* history: tasks whose link, file and index agreed at some moment

localVars == <<file, plans, ltask, fact, link, lindex, exec, presses, proved>>

Resting == [pc |-> "idle"]

\* What an independent look could have found by now.
Agreed == IF link # NoLink /\ file # 0 /\ link.sha = Sha(file)
             /\ lindex.valid /\ lindex.file # 0 /\ Sha(lindex.file) = link.sha
          THEN {link.task} ELSE {}

RoomFor(t) == Cardinality({u \in LocalTasks \ {t} : ltask[u] # NoLocal}) < MaxLocalTasks

----------------------------------------------------------------------------
(* Preview and confirm                                                      *)

\* Files already linked, by path or by content, are left out of a plan.
PreviewImport(item) ==
    /\ file # 0
    /\ link = NoLink
    /\ plans' = [plans EXCEPT ![item] = file]
    /\ UNCHANGED <<file, ltask, fact, link, lindex, exec, proved, presses>>

ImportTask(item) == [kind |-> "import", item |-> item, sha |-> Sha(plans[item])]

\* The file is still the previewed one; an existing task must be the same intent.
ConfirmAccepted(item) ==
    /\ file = plans[item]
    /\ ltask[ImportTask(item)] # NoLocal => fact[ImportTask(item)] = plans[item]

ConfirmImport(item) ==
    /\ plans[item] # 0
    /\ ConfirmAccepted(item)
    /\ ltask[ImportTask(item)] = NoLocal /\ RoomFor(ImportTask(item))
    /\ ltask' = [ltask EXCEPT ![ImportTask(item)] =
                   LocalRow("queued", "local_import_queued")]
    /\ fact' = [fact EXCEPT ![ImportTask(item)] = plans[item]]
    /\ UNCHANGED <<file, plans, link, lindex, exec, proved, presses>>

\* The new task cannot be read back: it is blocked.
BlockUnverified(t) ==
    /\ ltask[t] = LocalRow("queued", "local_import_queued")
    /\ ltask' = [ltask EXCEPT ![t].state = "blocked"]
    /\ UNCHANGED <<file, plans, fact, link, lindex, exec, proved, presses>>

\* create_integrity_task: an existing task, whatever its state, is queued again
\* in its stage only.
CreateCheck ==
    /\ link # NoLink
    /\ LET t == [kind |-> "check", sha |-> link.sha]
       IN  /\ RoomFor(t)
           /\ ltask' = [ltask EXCEPT ![t] =
                       LocalRow(IF @ = NoLocal THEN "queued" ELSE @.state, "integrity_queued")]
    /\ UNCHANGED <<file, plans, fact, link, lindex, exec, proved, presses>>

\* _singleton_task: two requests may both have found no active task.
CreateUpkeep(t) ==
    /\ ltask[t] = NoLocal /\ RoomFor(t)
    /\ ltask' = [ltask EXCEPT ![t] = LocalRow("queued", "queued")]
    /\ UNCHANGED <<file, plans, fact, link, lindex, exec, proved, presses>>

----------------------------------------------------------------------------
(* execute_local_task                                                       *)

At(pc) == exec.pc = pc
Row == ltask[exec.task]
Goto(pc) == exec' = [exec EXCEPT !.pc = pc]

Running == Row.state = "running"
Moved(state, stage) == ltask' = [ltask EXCEPT ![exec.task] = LocalRow(state, stage)]

\* Start or resume: (re)queue, run and lease in one transaction.
StartLocal(t, resume) ==
    /\ At("idle")
    /\ presses < MaxPresses
    /\ ltask[t] # NoLocal
    /\ IF resume THEN can_transition(ltask[t].state, "queued") ELSE ltask[t].state = "queued"
    /\ ltask' = [ltask EXCEPT ![t].state = "running"]
    /\ exec' = [pc |-> "claimed", task |-> t, fact |-> 0]
    /\ presses' = presses + 1
    /\ UNCHANGED <<file, plans, fact, link, lindex, proved>>

\* The file is the confirmed one (imports) or has the linked content (checks).
FactMatches(t) ==
    CASE t.kind = "import" -> file = fact[t]
      [] t.kind = "check" -> file # 0 /\ Sha(file) = t.sha
      [] OTHER -> TRUE

Beat ==
    /\ At("claimed")
    /\ IF FactMatches(exec.task) /\ Running
       THEN /\ Moved("running", "integrity_check")
            /\ exec' = [exec EXCEPT !.pc = "checked", !.fact = file]
       ELSE Goto("failed") /\ UNCHANGED ltask
    /\ UNCHANGED <<file, plans, fact, link, lindex, proved, presses>>

Refreshed == [valid |-> TRUE, file |-> file]

\* A path linked by another task is refused.
MayLink(t) ==
    CASE t.kind = "import" -> link = NoLink \/ link.task = t
      [] t.kind = "check" -> link # NoLink /\ link.sha = Sha(exec.fact)
      [] OTHER -> TRUE

StageOf(t) ==
    CASE t.kind = "import" -> "db_linked"
      [] t.kind = "check" -> "integrity_checked"
      [] OTHER -> "index_verified"

\* Under the media lock: refresh the index, link the file, name the stage.  The
\* row is written whatever its state is by now.
LinkFile ==
    LET t == exec.task
    IN  /\ At("checked")
        /\ lindex' = Refreshed
        /\ IF MayLink(t) /\ Row # NoLocal
           THEN /\ Goto("linked")
                /\ ltask' = [ltask EXCEPT ![t].stage = StageOf(t)]
                /\ link' = IF t.kind = "import" THEN [task |-> t, sha |-> Sha(exec.fact)] ELSE link
           ELSE Goto("failed") /\ UNCHANGED <<ltask, link>>
        /\ UNCHANGED <<file, plans, fact, presses>>
        /\ proved' = proved \cup Agreed'

\* The scan or its commit fails: the index is left, or marked, unusable.
RefreshFails ==
    /\ At("checked")
    /\ Goto("failed")
    /\ lindex' \in {lindex, [lindex EXCEPT !.valid = FALSE]}
    /\ UNCHANGED <<file, plans, ltask, fact, link, proved, presses>>

\* _verify_asset_and_index, from a session of its own.
VerifyHoldsMutant(t) ==
    Row # NoLocal /\ Row.stage \in PostWrite /\ (t.kind = "import" => link.task = t)
VerifyHolds(t) ==
    IF t.kind \in {"import", "check"}
    THEN /\ file = exec.fact
         /\ Row # NoLocal /\ Row.stage \in {"db_linked", "integrity_checked"}
         /\ t.kind = "import" => link = [task |-> t, sha |-> Sha(exec.fact)]
         /\ lindex.valid /\ lindex.file # 0 /\ Sha(lindex.file) = Sha(exec.fact)
    ELSE lindex.valid

VerifyLink ==
    /\ At("linked")
    /\ Goto(IF VerifyHolds(exec.task) THEN "verified" ELSE "failed")
    /\ UNCHANGED <<file, plans, ltask, fact, link, lindex, proved, presses>>

SuccessStage == "durable_verified"

\* The success transition takes the version it finds, but only from RUNNING.
SucceedLocal ==
    /\ At("verified")
    /\ IF Running
       THEN /\ Moved("succeeded", SuccessStage)
            /\ exec' = Resting
       ELSE Goto("failed") /\ UNCHANGED ltask
    /\ UNCHANGED <<file, plans, fact, link, lindex, proved, presses>>

\* The except block: doubt after a write is outcome_unknown, before it failed; a
\* row that is not RUNNING any more is left alone.
AfterWrite(row) == row.stage \in PostWrite

Unwind ==
    /\ At("failed")
    /\ exec' = Resting
    /\ IF Running
       THEN IF AfterWrite(Row)
            THEN Moved("outcome_unknown", "recovery_required") /\ lindex' = [lindex EXCEPT !.valid = FALSE]
            ELSE Moved("failed", "validation_failed") /\ UNCHANGED lindex
       ELSE UNCHANGED <<ltask, lindex>>
    /\ UNCHANGED <<file, plans, fact, link, proved, presses>>

----------------------------------------------------------------------------
(* Beside it                                                                *)

\* The task page: pause, cancel, retry.
Press(t, target) ==
    /\ ltask[t] # NoLocal /\ presses < MaxPresses
    /\ can_transition(ltask[t].state, target)
    /\ CASE target = "paused" -> ltask[t].state \in {"queued", "running"}
         [] target = "cancelling" -> ltask[t].state = "running"
         [] target = "cancelled" -> ltask[t].state # "running"
         [] target = "queued" -> /\ ltask[t].state \in {"failed", "blocked"}
                                 /\ ltask[t].stage \notin RecoveryReviewStages
    /\ ltask' = [ltask EXCEPT ![t].state = target]
    /\ presses' = presses + 1
    /\ UNCHANGED <<file, plans, fact, link, lindex, exec, proved>>

\* The foreign key of the link keeps the history of a linked task.
HistoryFree(t) == ltask[t].state \in {"cancelled", "succeeded", "failed"} /\ link.task # t

DeleteLocal(t) ==
    /\ HistoryFree(t)
    /\ ltask' = [ltask EXCEPT ![t] = NoLocal]
    /\ UNCHANGED <<file, plans, fact, link, lindex, exec, proved, presses>>

\* Another program replaces or removes the file; nobody tells the index.
ChangeFile ==
    /\ file' \in {0, file + 1}
    /\ file' # file /\ file' \in Files /\ file # 0
    /\ UNCHANGED <<plans, ltask, fact, link, lindex, exec, presses>>
    /\ proved' = proved \cup Agreed'

\* The process stops; the lifespan moves running rows (a cancelling one stops it).
CrashLocal ==
    /\ \A t \in LocalTasks : ltask[t].state # "cancelling"
    /\ ~At("idle")
    /\ exec' = Resting
    /\ ltask' = [t \in LocalTasks |-> IF ltask[t].state = "running"
                   THEN LocalRow(RecoveryTarget(ltask[t]), ltask[t].stage) ELSE ltask[t]]
    /\ UNCHANGED <<file, plans, fact, link, lindex, proved, presses>>

LocalInit ==
    /\ file = 1
    /\ plans = [item \in ImportItem |-> 0]
    /\ ltask = [t \in LocalTasks |-> NoLocal]
    /\ fact = [t \in Imports |-> 0]
    /\ link = NoLink
    /\ lindex \in {[valid |-> FALSE, file |-> 0], [valid |-> TRUE, file |-> 1]}
    /\ exec = Resting
    /\ presses = 0
    /\ proved = {}

LocalNext ==
    \/ \E item \in ImportItem : PreviewImport(item) \/ ConfirmImport(item)
    \/ CreateCheck
    \/ \E t \in Upkeep : CreateUpkeep(t)
    \/ \E t \in LocalTasks :
          \/ BlockUnverified(t) \/ DeleteLocal(t)
          \/ \E resume \in BOOLEAN : StartLocal(t, resume)
          \/ \E target \in {"paused", "cancelling", "cancelled", "queued"} : Press(t, target)
    \/ Beat \/ LinkFile \/ RefreshFails \/ VerifyLink \/ SucceedLocal \/ Unwind
    \/ ChangeFile \/ CrashLocal

LocalSpec == LocalInit /\ [][LocalNext]_localVars

----------------------------------------------------------------------------
(* Properties                                                               *)

\* Rows, link, index and execution have the shape the code gives them.
LocalTypeOK ==
    /\ file \in Files
    /\ \A t \in LocalTasks : ltask[t] # NoLocal =>
          /\ ltask[t].state \in TaskState
          /\ t \in Imports /\ ltask[t].state = "succeeded" => ltask[t].stage = "durable_verified"
    /\ link # NoLink => link.task \in Imports
    /\ lindex \in [valid: BOOLEAN, file: Files]
    /\ proved \subseteq Imports

\* A succeeded import owns the link of the path, with the content the user
\* confirmed, however the file changed meanwhile (snapshot checks, duplicates).
ImportOwnsLink ==
    \A t \in Imports : ltask[t] # NoLocal /\ ltask[t].state = "succeeded" =>
        link # NoLink /\ link.task = t /\ link.sha = t.sha

\* No import succeeds unless link, file and a usable index agreed at some moment
\* after the link was written (_verify_asset_and_index).
SuccessWasProved ==
    \A t \in Imports : ltask[t] # NoLocal /\ ltask[t].state = "succeeded" => t \in proved

\* Whatever was linked once keeps its task row: no history of a file is lost.
LinkKeepsTask == link # NoLink => ltask[link.task] # NoLocal

\* A path, its link, the task that wrote it and the index agree about a succeeded
\* import, however the file changed and whatever other tasks of the path did.
LinksAreProved == ImportOwnsLink /\ SuccessWasProved /\ LinkKeepsTask
=============================================================================
