-------------------------- MODULE DownloadExecutor --------------------------
(***************************************************************************)
(* SafeDownloadExecutor.execute (app/acquisition/downloader.py) for one    *)
(* download task, with the requests that race it: Start, Resume, Pause,    *)
(* Cancel, Retry, lease expiry, a crash at any point and restart recovery. *)
(*                                                                         *)
(* Executors run on one event loop: `loop` names the executor inside a     *)
(* stretch of code without an await, and no other executor steps while it  *)
(* is set.  Pause, Cancel and Retry run in pool threads and step at any    *)
(* time, except while an executor holds the database write lock            *)
(* (`writing`), which spans a chunk's file write.                          *)
(*                                                                         *)
(* The asset is the chunks 1..AssetChunks in order; a file's content is    *)
(* the sequence of chunks written to its inode, so a hash comparison is    *)
(* equality of sequences.  A temp file and the published file are names    *)
(* of inodes: os.link gives the temp file's inode its published name.      *)
(* The _assert_lease calls around a durable step are part of that step.    *)
(***************************************************************************)
EXTENDS TaskContracts, Sequences

CONSTANTS
    Executors,     \* executions of the download that may exist together
    Inodes,        \* bound: temp files that may be created
    AssetChunks,   \* length of the asset
    SizesDeclared, \* whether plans carry expected_bytes or expected_sha256
    DatabaseFails, \* a lease read or a commit of the except block may raise
    MaxVersion,    \* bound: requests are made below this row version
    MaxCrashes,    \* bound: crashes of the process
    None

ASSUME AssetChunksAssumption == AssetChunks \in Nat \ {0}
ASSUME SizesDeclaredAssumption == SizesDeclared \subseteq BOOLEAN /\ DatabaseFails \in BOOLEAN
ASSUME BoundsAssumption == MaxVersion \in Nat /\ MaxCrashes \in Nat
ASSUME NoneAssumption == None \notin Inodes /\ None \notin Executors /\ NoOwner \notin Executors

VARIABLES
    row,        \* the operation_tasks row
    fact,       \* the download_task_facts row: temp name and resume offset
    data,       \* content of every inode
    tempNames,  \* inodes that have a name in the temp directory
    target,     \* the inode published at relative_target, or None
    linked,     \* size and hash in the item_local_assets row, or None
    indexed,    \* the media index is valid and holds the published file
    ex,         \* per executor: program counter and locals
    loop,       \* the executor that holds the event loop, or None
    writing,    \* the executor that holds the database write lock, or None
    app,        \* "up", "down" (crashed), "failed" (startup raised)
    crashes,    \* crashes so far
    sized       \* the plan carries expected_bytes or expected_sha256

store == <<fact, data, tempNames, target, linked, indexed>>
vars == <<row, store, ex, loop, writing, app, crashes, sized>>

\* The locals of execute(): lease generation, version at the claim, whether a
\* progress commit has happened, open temp inode, resume offset, chunks hashed,
\* the published flag, and the error with its need for an outcome proof.
Fresh == [pc |-> "idle", gen |-> 0, version |-> 0, clean |-> TRUE, temp |-> None,
          start |-> 0, digest |-> << >>, published |-> FALSE, err |-> "none", proof |-> FALSE]

Init ==
    /\ row = NewRow("queued")
    /\ fact = [temp |-> None, offset |-> 0]
    /\ data = [i \in Inodes |-> << >>]
    /\ tempNames = {}
    /\ target = None
    /\ linked = None
    /\ indexed = FALSE
    /\ ex = [e \in Executors |-> Fresh]
    /\ loop = None
    /\ writing = None
    /\ app = "up"
    /\ crashes = 0
    /\ sized \in SizesDeclared

----------------------------------------------------------------------------
(* Helpers *)

Asset(n) == [i \in 1..n |-> i]

At(e, pc) == app = "up" /\ loop = e /\ ex[e].pc = pc

Goto(e, pc) == ex' = [ex EXCEPT ![e].pc = pc]

Lease(e) == FenceHolds(row, e, ex[e].gen)

\* What _assert_lease reports once the fence is gone.
LeaseError == IF row.cancel \/ row.state = "cancelling" THEN "cancelled"
              ELSE IF row.state = "paused" THEN "paused"
              ELSE "lease_lost"

LeaseErrors == {"lease_lost", "lease_conflict", "cancelled", "paused"}

\* Into the except block: after publication every error other than a lease,
\* cancel or pause one becomes OUTCOME_UNKNOWN.
Raise(e, err, proof) ==
    ex' = [ex EXCEPT ![e].pc = "stopping", ![e].proof = proof,
                     ![e].err = IF ex[e].published /\ err \notin LeaseErrors
                                THEN "unknown" ELSE err]

\* A step that needs the lease, or the error its absence raises.
Fenced(e, step) ==
    IF Lease(e)
    THEN step
    ELSE Raise(e, LeaseError, FALSE) /\ UNCHANGED <<row, store, loop, writing, app, crashes, sized>>

\* _commit_progress: heartbeat with the stage, and the next program counter.
Progress(e, stage, pc) ==
    /\ writing = None
    /\ row' = HeartbeatRow(row, stage)
    /\ ex' = [ex EXCEPT ![e].pc = pc, ![e].clean = FALSE]

----------------------------------------------------------------------------
(* The web requests that touch the row.  A request that loses the race for *)
(* the row is refused and changes nothing (TaskService), so only the       *)
(* accepted ones appear.                                                   *)

Requestable == app = "up" /\ writing = None /\ row.version < MaxVersion

Start(e, resume) ==
    /\ Requestable /\ loop = None /\ ex[e].pc = "idle"
    /\ can_transition(row.state, IF resume THEN "queued" ELSE "running")
    /\ LET base  == IF resume THEN TransitionRow(row, "queued") ELSE row
           claim == AcquireRow(TransitionRow(base, "running"), e)
       IN /\ row' = claim
          /\ ex' = [ex EXCEPT ![e] = [Fresh EXCEPT !.pc = "preflight", !.gen = claim.gen,
                                                   !.version = claim.version]]
    /\ loop' = e
    /\ UNCHANGED <<store, writing, app, crashes, sized>>

Pause ==
    /\ Requestable /\ can_transition(row.state, "paused")
    /\ row' = TransitionRow(row, "paused")
    /\ UNCHANGED <<store, ex, loop, writing, app, crashes, sized>>

Cancel ==
    /\ Requestable /\ row.state \notin CLOSED_TASK_STATES
    /\ row' = [TransitionRow(row, IF row.state = "running" THEN "cancelling" ELSE "cancelled")
                   EXCEPT !.cancel = TRUE]
    /\ UNCHANGED <<store, ex, loop, writing, app, crashes, sized>>

Retry ==
    /\ Requestable /\ row.state \in {"failed", "blocked"}
    /\ row.stage \notin RecoveryReviewStages
    /\ row' = TransitionRow(row, "queued")
    /\ UNCHANGED <<store, ex, loop, writing, app, crashes, sized>>

\* A lease runs out while its executor waits for the provider.
ExpireLease ==
    /\ row.live /\ writing = None
    /\ row' = [row EXCEPT !.live = FALSE]
    /\ UNCHANGED <<store, ex, loop, writing, app, crashes, sized>>

----------------------------------------------------------------------------
(* execute(), up to the first await *)

Leave(e) == ex' = [ex EXCEPT ![e] = Fresh] /\ loop' = None

\* The initial lease check; what it raises is raised outside the try block.
Preflight(e) ==
    /\ At(e, "preflight")
    /\ IF Lease(e) THEN Goto(e, "opening") /\ UNCHANGED loop ELSE Leave(e)
    /\ UNCHANGED <<row, store, writing, app, crashes, sized>>

\* Source, provider, identity or type check fails, also outside the try block:
\* the row stays RUNNING.
PreflightRefused(e) ==
    /\ At(e, "preflight") /\ Lease(e)
    /\ Leave(e)
    /\ UNCHANGED <<row, store, writing, app, crashes, sized>>

FreshInode(i) ==
    /\ i \notin tempNames /\ i # target /\ i # fact.temp
    /\ \A e \in Executors : ex[e].temp # i

CreateTemp(e) ==
    /\ At(e, "opening") /\ fact.temp = None
    /\ \E i \in Inodes :
          /\ FreshInode(i)
          /\ tempNames' = tempNames \cup {i}
          /\ data' = [data EXCEPT ![i] = << >>]
          /\ ex' = [ex EXCEPT ![e].pc = "begin", ![e].temp = i]
    /\ UNCHANGED <<row, fact, target, linked, indexed, loop, writing, app, crashes, sized>>

\* _validate_temp: the file has one name, the one in the temp directory.
OneName(i) == i \in tempNames /\ i # target

\* A resume needs the recorded file, at the recorded size.
Reopenable == OneName(fact.temp)

ReopenTemp(e) ==
    /\ At(e, "opening") /\ fact.temp # None
    /\ CASE ~Reopenable -> Raise(e, "storage_unsafe", FALSE)
         [] Reopenable /\ Len(data[fact.temp]) # fact.offset -> Raise(e, "snapshot_changed", FALSE)
         [] OTHER -> ex' = [ex EXCEPT ![e].pc = "begin", ![e].temp = fact.temp,
                                      ![e].start = fact.offset, ![e].digest = data[fact.temp]]
    /\ UNCHANGED <<row, store, loop, writing, app, crashes, sized>>

Begin(e) ==
    /\ At(e, "begin")
    /\ Fenced(e, /\ Progress(e, "downloading", "await")
                 /\ fact' = [temp |-> ex[e].temp, offset |-> ex[e].start]
                 /\ loop' = None
                 /\ UNCHANGED <<data, tempNames, target, linked, indexed, writing, app, crashes, sized>>)

----------------------------------------------------------------------------
(* The stream *)

Awaiting(e) == app = "up" /\ loop = None /\ ex[e].pc = "await"

\* Mutant of ReceiveChunk: the offset is committed before the bytes are written.
OffsetBeforeBytes(e) ==
    /\ Awaiting(e) /\ writing = None /\ Len(ex[e].digest) < AssetChunks /\ Lease(e)
    /\ loop' = e /\ writing' = e
    /\ fact' = [fact EXCEPT !.offset = Len(ex[e].digest) + 1]
    /\ Goto(e, "chunk")
    /\ UNCHANGED <<row, data, tempNames, target, linked, indexed, app, crashes, sized>>

\* _write_fenced_chunk: the heartbeat takes the write lock, then the bytes go
\* to the file.  The heartbeat becomes visible with the commit.
ReceiveChunk(e) ==
    LET n == Len(ex[e].digest) + 1 IN
    /\ Awaiting(e) /\ writing = None /\ n <= AssetChunks
    /\ loop' = e
    /\ IF Lease(e)
       THEN /\ data' = [data EXCEPT ![ex[e].temp] = Append(@, n)]
            /\ writing' = e
            /\ Goto(e, "chunk")
       ELSE Raise(e, LeaseError, FALSE) /\ UNCHANGED <<data, writing>>
    /\ UNCHANGED <<row, fact, tempNames, target, linked, indexed, app, crashes, sized>>

\* Mutant of CommitChunk: the transaction is left open across the next await.
CommitChunkLeavesOpen(e) ==
    /\ At(e, "chunk")
    /\ ex' = [ex EXCEPT ![e].pc = "await", ![e].digest = Append(@, Len(@) + 1)]
    /\ loop' = None
    /\ UNCHANGED <<row, store, writing, app, crashes, sized>>

CommitChunk(e) ==
    /\ At(e, "chunk")
    /\ row' = HeartbeatRow(row, "downloading")
    /\ fact' = [fact EXCEPT !.offset = Len(ex[e].digest) + 1]
    /\ ex' = [ex EXCEPT ![e].pc = "await", ![e].clean = FALSE,
                        ![e].digest = Append(@, Len(@) + 1)]
    /\ writing' = None /\ loop' = None
    /\ UNCHANGED <<data, tempNames, target, linked, indexed, app, crashes, sized>>

\* The stream is exhausted: lease, length and hash checks.
StreamEnds(e) ==
    LET n == Len(ex[e].digest) IN
    /\ Awaiting(e)
    /\ loop' = e
    /\ CASE ~Lease(e) -> Raise(e, LeaseError, FALSE)
         [] Lease(e) /\ (n = ex[e].start \/ (sized /\ n # AssetChunks))
              -> Raise(e, "integrity_failed", FALSE)
         [] OTHER -> Goto(e, "verify")
    /\ UNCHANGED <<row, store, writing, app, crashes, sized>>

\* A timeout or rejected response (a DownloadServiceError), or any exception
\* of the adapter, which needs an outcome proof.  No lease is checked here.
ProviderFails(e, proof) ==
    /\ Awaiting(e)
    /\ loop' = e
    /\ Raise(e, "provider_error", proof)
    /\ UNCHANGED <<row, store, writing, app, crashes, sized>>

----------------------------------------------------------------------------
(* Publication, link, index, success *)

\* The temp file is still the recorded one, under its one name, before the
\* stage is committed.
CommitVerified(e) ==
    /\ At(e, "verify")
    /\ IF OneName(ex[e].temp) /\ fact.temp \in {ex[e].temp, None}
       THEN Fenced(e, /\ Progress(e, "verified", "publish")
                      /\ fact' = [fact EXCEPT !.offset = Len(ex[e].digest)]
                      /\ UNCHANGED <<data, tempNames, target, linked, indexed,
                                     loop, writing, app, crashes, sized>>)
       ELSE Raise(e, "storage_unsafe", FALSE)
            /\ UNCHANGED <<row, store, loop, writing, app, crashes, sized>>

\* Inside the media lock: the last lease check before the link.
ReadyToPublish(e) ==
    /\ At(e, "publish")
    /\ Fenced(e, Goto(e, "linkfile") /\ UNCHANGED <<row, store, loop, writing, app, crashes, sized>>)

\* Mutant of LinkFile: os.replace, which overwrites.
LinkFileOverwrites(e) ==
    /\ At(e, "linkfile") /\ ex[e].temp \in tempNames
    /\ target' = ex[e].temp
    /\ ex' = [ex EXCEPT ![e].pc = "unlink", ![e].published = TRUE]
    /\ UNCHANGED <<row, fact, data, tempNames, linked, indexed, loop, writing, app, crashes, sized>>

\* os.link never overwrites, and may fail.
LinkFile(e) ==
    /\ At(e, "linkfile")
    /\ \/ target # None /\ Raise(e, "target_exists", FALSE) /\ UNCHANGED target
       \/ target = None /\ Raise(e, "publish_failed", FALSE) /\ UNCHANGED target
       \/ /\ target = None /\ ex[e].temp \in tempNames
          /\ target' = ex[e].temp
          /\ ex' = [ex EXCEPT ![e].pc = "unlink", ![e].published = TRUE]
    /\ UNCHANGED <<row, fact, data, tempNames, linked, indexed, loop, writing, app, crashes, sized>>

UnlinkTemp(e) ==
    /\ At(e, "unlink")
    /\ tempNames' = tempNames \ {ex[e].temp}
    /\ Goto(e, "published")
    /\ UNCHANGED <<row, fact, data, target, linked, indexed, loop, writing, app, crashes, sized>>

CommitPublished(e) ==
    /\ At(e, "published")
    /\ Fenced(e, /\ Progress(e, "published", "link")
                 /\ fact' = [temp |-> None, offset |-> Len(ex[e].digest)]
                 /\ UNCHANGED <<data, tempNames, target, linked, indexed, loop, writing, app, crashes, sized>>)

\* The item_local_assets row and its stage commit together.
CommitLinked(e) ==
    /\ At(e, "link")
    /\ Fenced(e, IF linked # None
                 THEN Raise(e, "link_failed", FALSE)
                      /\ UNCHANGED <<row, store, loop, writing, app, crashes, sized>>
                 ELSE /\ Progress(e, "db_linked", "prove_link")
                      /\ linked' = ex[e].digest
                      /\ UNCHANGED <<fact, data, tempNames, target, indexed, loop, writing, app, crashes, sized>>)

\* _verify_download_committed_state: fresh session, file reopened and hashed.
FileProved(e) ==
    /\ target # None /\ target \notin tempNames
    /\ data[target] = ex[e].digest
    /\ linked = ex[e].digest

\* Mutant of StateProved: require_index is ignored.
StateProvedWithoutIndex(e, requireIndex) == FileProved(e)

StateProved(e, requireIndex) == FileProved(e) /\ (requireIndex => indexed)

\* A lease check, then an independent proof that also checks the lease.
Proving(e, proved, pc) ==
    /\ IF Lease(e) /\ proved
       THEN Goto(e, pc)
       ELSE \/ ~Lease(e) /\ Raise(e, LeaseError, FALSE)
            \/ Raise(e, "unknown", TRUE)
    /\ UNCHANGED <<row, store, loop, writing, app, crashes, sized>>

ProveLink(e) == At(e, "prove_link") /\ Proving(e, StateProved(e, FALSE), "index")

\* synchronize_media_index_after_mutation: refreshed, or left invalid.
SyncIndex(e, ok) ==
    /\ At(e, "index") /\ writing = None
    /\ indexed' = (ok /\ target # None)
    /\ Goto(e, "indexed")
    /\ UNCHANGED <<row, fact, data, tempNames, target, linked, loop, writing, app, crashes, sized>>

CommitIndexed(e) ==
    /\ At(e, "indexed")
    /\ Fenced(e, /\ Progress(e, "index_coordinated", "prove_index")
                 /\ UNCHANGED <<store, loop, writing, app, crashes, sized>>)

ProveIndex(e) == At(e, "prove_index") /\ Proving(e, StateProved(e, TRUE), "success")

\* transition() to SUCCEEDED from the row as it is read now.
CommitSuccess(e) ==
    /\ At(e, "success") /\ writing = None
    /\ IF can_transition(row.state, "succeeded")
       THEN /\ row' = [TransitionRow(row, "succeeded") EXCEPT !.stage = "durable_verified"]
            /\ Goto(e, "final")
       ELSE Raise(e, "error", TRUE) /\ UNCHANGED row
    /\ UNCHANGED <<store, loop, writing, app, crashes, sized>>

\* The closing proof; a success that cannot be proved is downgraded.
FinalProof(e, proved, ok) ==
    /\ At(e, "final") /\ writing = None
    /\ row' = IF ok /\ ~(proved /\ StateProved(e, TRUE))
                 /\ row.state = "succeeded" /\ row.stage = "durable_verified"
              THEN UnknownRow(row) ELSE row
    /\ Leave(e)
    /\ UNCHANGED <<store, writing, app, crashes, sized>>

----------------------------------------------------------------------------
(* The except block *)

\* An OSError, database error or media_busy in the synchronous part needs an
\* outcome proof; where the roots or the temp file cannot be opened, or a chunk
\* not be written at all, the code knows that nothing was published.
SomethingRaises(e) ==
    /\ \/ /\ \E pc \in {"begin", "chunk", "verify", "publish", "linkfile", "unlink", "published",
                         "link", "index", "indexed", "success"} : At(e, pc)
          /\ Raise(e, "error", TRUE)
       \/ /\ At(e, "opening") \/ At(e, "chunk")
          /\ Raise(e, "storage_unsafe", FALSE)
    /\ writing' = None
    /\ UNCHANGED <<row, store, loop, app, crashes, sized>>

\* The read of _assert_lease raises: LEASE_CONFLICT, without an outcome proof.
LeaseUnreadable(e) ==
    /\ DatabaseFails
    /\ \E pc \in {"begin", "verify", "publish", "published", "link", "prove_link", "index",
                   "indexed", "prove_index"} : At(e, pc)
    /\ Raise(e, "lease_conflict", FALSE)
    /\ UNCHANGED <<row, store, loop, writing, app, crashes, sized>>

Answers == IF DatabaseFails THEN BOOLEAN ELSE {TRUE}

\* _verify_download_pre_state: nothing was committed since the claim.
PreStateProved(e) ==
    /\ ex[e].clean /\ linked = None
    /\ row.state = "running" /\ row.version = ex[e].version

\* The independent proof of the outcome, where the error needs one.
ProveOutcome(e) ==
    /\ At(e, "stopping") /\ ex[e].proof
    /\ ex' = [ex EXCEPT ![e].proof = FALSE,
                        ![e].err = IF PreStateProved(e) THEN "write_failed" ELSE "unknown"]
    /\ UNCHANGED <<row, store, loop, writing, app, crashes, sized>>

StopTarget(e) ==
    CASE ex[e].err = "cancelled" -> "cancelled"
      [] ex[e].err # "cancelled" /\ (ex[e].published \/ ex[e].err = "unknown") -> "outcome_unknown"
      [] OTHER -> "failed"

\* The row is read; a lease or pause error leaves it, and the temp file, alone.
ReadTask(e) ==
    /\ At(e, "stopping") /\ ~ex[e].proof
    /\ IF ex[e].err \in LeaseErrors \ {"cancelled"}
       THEN Leave(e)
       ELSE /\ ex' = [ex EXCEPT ![e].pc = "closing", ![e].version = row.version]
            /\ UNCHANGED loop
    /\ UNCHANGED <<row, store, writing, app, crashes, sized>>

\* What follows the transition: the temp file is removed, or the execution ends.
Closed(e) ==
    IF ~ex[e].published /\ ex[e].temp # None
    THEN Goto(e, "cleanup") /\ UNCHANGED loop
    ELSE Leave(e)

\* Mutant of StopTask: only a RUNNING row is closed.
StopOnlyRunning(e, ok) ==
    /\ At(e, "closing") /\ writing = None
    /\ row' = IF /\ ok /\ row.version = ex[e].version
                 /\ row.state = "running" /\ can_transition(row.state, StopTarget(e))
              THEN TransitionRow(row, StopTarget(e)) ELSE row
    /\ Closed(e)
    /\ UNCHANGED <<store, writing, app, crashes, sized>>

\* Mutant of StopTask: retried until the row accepts the transition.
StopUntilAccepted(e, ok) == row.version = ex[e].version /\ StopOnlyRunning(e, ok)

\* transition() with the version read: the row another request has moved
\* meanwhile stays as it is, and so does one that is not open any more.
StopTask(e, ok) ==
    /\ At(e, "closing") /\ writing = None
    /\ row' = IF /\ ok /\ row.version = ex[e].version
                 /\ row.state \in {"running", "cancelling"}
                 /\ can_transition(row.state, StopTarget(e))
              THEN TransitionRow(row, StopTarget(e)) ELSE row
    /\ Closed(e)
    /\ UNCHANGED <<store, writing, app, crashes, sized>>

RemoveTemp(e) ==
    /\ At(e, "cleanup")
    /\ tempNames' = tempNames \ {ex[e].temp}
    /\ IF ex[e].temp \in tempNames
       THEN Goto(e, "clear") /\ UNCHANGED loop
       ELSE Leave(e)
    /\ UNCHANGED <<row, fact, data, target, linked, indexed, writing, app, crashes, sized>>

ClearFact(e, ok) ==
    /\ At(e, "clear") /\ writing = None
    /\ fact' = IF ok THEN [temp |-> None, offset |-> 0] ELSE fact
    /\ Leave(e)
    /\ UNCHANGED <<row, data, tempNames, target, linked, indexed, writing, app, crashes, sized>>

----------------------------------------------------------------------------
(* Crash and restart *)

Crash ==
    /\ app = "up" /\ crashes < MaxCrashes
    /\ app' = "down" /\ crashes' = crashes + 1
    /\ ex' = [e \in Executors |-> Fresh]
    /\ loop' = None /\ writing' = None
    /\ UNCHANGED <<row, store, sized>>

Restart ==
    /\ app \in {"down", "failed"}
    /\ LET interrupted == row.state \in {"running", "cancelling"} IN
       IF interrupted /\ ~can_transition(row.state, RecoveryTarget(row))
       THEN app' = "failed" /\ UNCHANGED row
       ELSE /\ app' = "up"
            /\ row' = IF interrupted THEN TransitionRow(row, RecoveryTarget(row)) ELSE row
    /\ UNCHANGED <<store, ex, loop, writing, crashes, sized>>

----------------------------------------------------------------------------

ExecutorStep(e) ==
    \/ Preflight(e) \/ PreflightRefused(e) \/ CreateTemp(e) \/ ReopenTemp(e) \/ Begin(e)
    \/ ReceiveChunk(e) \/ CommitChunk(e) \/ StreamEnds(e)
    \/ \E proof \in BOOLEAN : ProviderFails(e, proof)
    \/ CommitVerified(e) \/ ReadyToPublish(e) \/ LinkFile(e) \/ UnlinkTemp(e)
    \/ CommitPublished(e) \/ CommitLinked(e) \/ ProveLink(e)
    \/ \E ok \in BOOLEAN : SyncIndex(e, ok)
    \/ CommitIndexed(e) \/ ProveIndex(e) \/ CommitSuccess(e)
    \/ \E proved \in BOOLEAN, ok \in Answers : FinalProof(e, proved, ok)
    \/ SomethingRaises(e) \/ LeaseUnreadable(e) \/ ProveOutcome(e) \/ ReadTask(e) \/ RemoveTemp(e)
    \/ \E ok \in Answers : StopTask(e, ok) \/ ClearFact(e, ok)

Next ==
    \/ \E e \in Executors : ExecutorStep(e) \/ \E resume \in BOOLEAN : Start(e, resume)
    \/ Pause \/ Cancel \/ Retry \/ ExpireLease
    \/ Crash \/ Restart

Spec == Init /\ [][Next]_vars

\* An execution in progress keeps running: the event loop schedules it, every
\* await carries a timeout, and database and file calls return.
Fairness == \A e \in Executors : WF_vars(ExecutorStep(e))

FairSpec == Spec /\ Fairness

----------------------------------------------------------------------------
(* Properties *)

ExType ==
    [pc : {"idle", "preflight", "opening", "begin", "await", "chunk", "verify", "publish",
           "linkfile", "unlink", "published", "link", "prove_link", "index", "indexed",
           "prove_index", "success", "final", "stopping", "closing", "cleanup", "clear"},
     gen : Nat, version : Nat, clean : BOOLEAN, temp : Inodes \cup {None}, start : Nat,
     digest : Seq(Nat), published : BOOLEAN,
     err : {"none", "storage_unsafe", "snapshot_changed", "integrity_failed", "provider_error",
            "target_exists", "publish_failed", "link_failed", "write_failed", "error", "unknown",
            "lease_lost", "lease_conflict", "cancelled", "paused"},
     proof : BOOLEAN]

TypeOK ==
    /\ row \in [state : TaskState, version : Nat, stage : Stages, cancel : BOOLEAN,
                owner : Executors \cup {NoOwner}, gen : Nat, live : BOOLEAN]
    /\ fact \in [temp : Inodes \cup {None}, offset : Nat]
    /\ data \in [Inodes -> Seq(Nat)]
    /\ tempNames \subseteq Inodes
    /\ target \in Inodes \cup {None}
    /\ linked = None \/ linked \in Seq(Nat)
    /\ indexed \in BOOLEAN
    /\ ex \in [Executors -> ExType]
    /\ loop \in Executors \cup {None}
    /\ writing \in {None, loop}
    /\ app \in {"up", "down", "failed"}
    /\ crashes \in 0..MaxCrashes /\ sized \in BOOLEAN

\* The published file holds a non-empty prefix of the asset, and all of it when
\* the plan declares its size or hash: no interleaving of a stale execution, a
\* resume and a crash doubles, drops or reorders a chunk (_write_fenced_chunk,
\* the checks before os.link).
PublishedIntact ==
    target # None =>
        LET n == Len(data[target]) IN
        /\ n > 0 /\ data[target] = Asset(n)
        /\ sized => n = AssetChunks

\* A SUCCEEDED task has its file published under one name, its local-asset row
\* describing that very content, and a valid index that holds it, also after a
\* crash right behind the success commit (_verify_download_committed_state).
SuccessIsProved ==
    row.state = "succeeded" =>
        /\ target # None /\ target \notin tempNames
        /\ linked = data[target]
        /\ indexed

\* The local-asset row always describes the file that is published, also after
\* a crash, a stale execution or a second attempt (publish, then link).
LinkNeverDangles == linked # None => target # None /\ linked = data[target]

\* Between two chunks, while a temp file is recorded and still named, the
\* recorded resume offset is never ahead of the bytes in it: a resume may
\* refuse, but it cannot skip bytes (_write_fenced_chunk's order).
OffsetNeverAhead ==
    fact.temp \in tempNames => fact.offset <= Len(data[fact.temp])

\* An execution always ends, whatever happens to its row, its lease and its
\* files meanwhile (execute()).
ExecutorsFinish == \A e \in Executors : ex[e].pc # "idle" ~> ex[e].pc = "idle"

\* The program counters from which execute() still looks at its lease.
Attentive == {"opening", "begin", "await", "chunk", "verify", "publish", "linkfile", "unlink",
              "published", "link", "prove_link", "index", "indexed", "prove_index", "success"}

\* A cancel requested while the claim's executor still looks at its lease ends
\* the task, as long as the database answers: CANCELLING is left (execute()'s
\* except block).
CancelEnds ==
    (row.state = "cancelling" /\ \E e \in Executors : ex[e].gen = row.gen /\ ex[e].pc \in Attentive)
        ~> row.state # "cancelling"

\* Owner, generation, expiry and cancel fence every durable step: an execution
\* whose claim was superseded changes neither the row nor the stored facts.
StaleExecutorIsFenced ==
    [][\A e \in Executors :
          ex[e].pc # "idle" /\ ex'[e] # ex[e] /\ app' = "up" /\ row.gen # ex[e].gen
          => row' = row /\ fact' = fact /\ tempNames' = tempNames]_vars

\* A paused download can be resumed: once every execution has left, the temp
\* file its facts name is there and as long as the resume offset says, whether
\* a pause request or restart recovery paused it (_write_fenced_chunk,
\* _open_temp).
PausedIsResumable ==
    app = "up" /\ row.state = "paused" /\ (\A e \in Executors : ex[e].pc = "idle")
        /\ fact.temp # None
    => Reopenable /\ Len(data[fact.temp]) = fact.offset

\* What is published is an unbroken beginning of the asset, whole if the size was
\* declared, and what is linked is what is published: under its lease, and never
\* over another file, no execution gives the asset row a file it does not describe.
PublishedFaithful == PublishedIntact /\ LinkNeverDangles
=============================================================================
