----------------------- MODULE DownloadExecutorProofs -----------------------
(***************************************************************************)
(* What a download leaves behind, for any number of executions at once and *)
(* assets of any length.                                                   *)
(*                                                                         *)
(* Executions overlap only while they await the provider (LoopOK), and the *)
(* one with the row's present lease generation is the only one that may    *)
(* write (GenerationsOK): what it has hashed is what its temp file holds   *)
(* (FilesOK), so what it publishes, links and proves is what it hashed,    *)
(* and once the row says so nobody is left who could undo it (SuccessOK).  *)
(***************************************************************************)
EXTENDS DownloadExecutor, TLAPS

\* Where the execution waits, has left, or is on its way out.
Resting == {"idle", "await"}
Leaving == {"stopping", "closing", "cleanup", "clear"}

\* Its temp file is open and not yet published; then the stream has ended; then
\* the file is published.
Writing == {"begin", "await", "chunk", "verify", "publish", "linkfile"}
Published == {"unlink", "published", "link", "prove_link", "index", "indexed", "prove_index", "success"}
Complete == {"verify", "publish", "linkfile"} \cup Published

Current(e) == ex[e].pc # "idle" /\ ex[e].gen = row.gen

LoopOK ==
    /\ \A e \in Executors : ex[e].pc \notin Resting => loop = e
    /\ writing # None => loop = writing /\ ex[writing].pc = "chunk"

GenerationsOK ==
    /\ \A e \in Executors : ex[e].pc # "idle" => ex[e].gen <= row.gen
    /\ \A e, f \in Executors : Current(e) /\ Current(f) => e = f
    /\ \A e \in Executors : ex[e].pc \notin {"idle", "await", "final"} \cup Leaving => Current(e)

\* Every file is an unbroken beginning of the asset.
DataOK == \A i \in Inodes : data[i] = Asset(Len(data[i]))

\* What the current execution x has hashed is what its temp file holds.
FileOK(x) ==
    /\ x.pc \in {"preflight", "opening"} => x.digest = << >> /\ x.start = 0
    /\ x.pc \in Writing =>
          /\ x.temp \in Inodes /\ x.temp # target
          /\ x.start <= Len(x.digest)
          /\ data[x.temp] = IF x.pc = "chunk" THEN Append(x.digest, Len(x.digest) + 1) ELSE x.digest
          /\ x.pc # "begin" => fact.temp \in {x.temp, None}
    /\ x.pc \in Complete => Len(x.digest) > 0 /\ (sized => Len(x.digest) = AssetChunks)
    /\ x.pc \in Published => x.temp \in Inodes /\ target = x.temp /\ data[target] = x.digest

FilesOK == \A e \in Executors : Current(e) => FileOK(ex[e])

ProofOK == \A e \in Executors : ex[e].pc = "success" => StateProved(e, TRUE)

SuccessOK ==
    row.state = "succeeded" =>
        /\ SuccessIsProved
        /\ \A e \in Executors : ex[e].pc \in {"idle", "await", "final"} \cup Leaving

DownloadInv ==
    /\ TypeOK /\ LoopOK /\ GenerationsOK /\ DataOK /\ FilesOK /\ ProofOK
    /\ OffsetNeverAhead /\ PublishedFaithful /\ SuccessOK

----------------------------------------------------------------------------
(* Rows, records and the asset *)

RowType == [state : TaskState, version : Nat, stage : Stages, cancel : BOOLEAN,
            owner : Executors \cup {NoOwner}, gen : Nat, live : BOOLEAN]

StoreTypes ==
    /\ row \in RowType
    /\ fact \in [temp : Inodes \cup {None}, offset : Nat]
    /\ data \in [Inodes -> Seq(Nat)]
    /\ tempNames \subseteq Inodes
    /\ target \in Inodes \cup {None}
    /\ linked = None \/ linked \in Seq(Nat)
    /\ indexed \in BOOLEAN
    /\ app \in {"up", "down", "failed"}
    /\ crashes \in 0..MaxCrashes /\ sized \in BOOLEAN

LEMMA TypeParts ==
    TypeOK <=> /\ StoreTypes /\ ex \in [Executors -> ExType]
               /\ loop \in Executors \cup {None} /\ writing \in {None, loop}
  BY DEF TypeOK, StoreTypes, RowType

LEMMA TransitionRowKeeps ==
    ASSUME NEW r \in RowType, NEW state \in TaskState
    PROVE  /\ TransitionRow(r, state) \in RowType
           /\ TransitionRow(r, state).gen = r.gen /\ TransitionRow(r, state).state = state
  <1>1. /\ r.version + 1 \in Nat
        /\ (IF state \in ClearsLease THEN NoOwner ELSE r.owner) \in Executors \cup {NoOwner}
        /\ r.stage \in Stages /\ r.gen \in Nat
    BY DEF RowType
  <1>2. r.live \in BOOLEAN /\ r.cancel \in BOOLEAN
    BY DEF RowType
  <1>3. (IF state \in ClearsLease THEN FALSE ELSE r.live) \in BOOLEAN
    BY <1>2, Zenon
  <1>4. (IF state = "queued" THEN FALSE ELSE r.cancel) \in BOOLEAN
    BY <1>2, Zenon
  <1>5. QED
    BY <1>1, <1>3, <1>4 DEF RowType, TransitionRow

LEMMA OtherRowsKeep ==
    ASSUME NEW r \in RowType
    PROVE  /\ \A stage \in Stages : /\ HeartbeatRow(r, stage) \in RowType
                                    /\ HeartbeatRow(r, stage).gen = r.gen
                                    /\ HeartbeatRow(r, stage).state = r.state
           /\ \A e \in Executors : /\ AcquireRow(r, e) \in RowType
                                   /\ AcquireRow(r, e).gen = r.gen + 1
                                   /\ AcquireRow(r, e).state = r.state
           /\ UnknownRow(r) \in RowType /\ UnknownRow(r).gen = r.gen
           /\ UnknownRow(r).state = "outcome_unknown"
  <1>1. \A stage \in Stages : /\ HeartbeatRow(r, stage) \in RowType
                              /\ HeartbeatRow(r, stage).gen = r.gen
                              /\ HeartbeatRow(r, stage).state = r.state
    BY DEF RowType, HeartbeatRow
  <1>2. \A e \in Executors : /\ AcquireRow(r, e) \in RowType
                             /\ AcquireRow(r, e).gen = r.gen + 1
                             /\ AcquireRow(r, e).state = r.state
    <2>1. r.gen \in Nat /\ r.gen + 1 \in Nat
      BY DEF RowType
    <2>2. TAKE e \in Executors
    <2>3. e \in Executors \cup {NoOwner}
      OBVIOUS
    <2>4. QED
      BY <2>1, <2>3 DEF RowType, AcquireRow
  <1>3. UnknownRow(r) \in RowType /\ UnknownRow(r).gen = r.gen /\ UnknownRow(r).state = "outcome_unknown"
    <2>1. "outcome_unknown" \in TaskState /\ "verification_unknown" \in Stages
      BY DEF TaskState, Stages
    <2>2. r.version + 1 \in Nat /\ NoOwner \in Executors \cup {NoOwner}
      BY DEF RowType
    <2>3. QED
      BY <2>1, <2>2 DEF RowType, UnknownRow
  <1>4. QED
    BY <1>1, <1>2, <1>3

LEMMA AssetFacts ==
    /\ Asset(0) = << >>
    /\ \A n \in Nat : /\ Asset(n) \in Seq(Nat) /\ Len(Asset(n)) = n
                      /\ Append(Asset(n), n + 1) = Asset(n + 1)
  BY DEF Asset

LEMMA NoneIsNone == None \notin Inodes /\ None \notin Executors
  BY NoneAssumption

\* An execution at work has not been overtaken, and the row is not SUCCEEDED.
LEMMA AtWork ==
    ASSUME DownloadInv, NEW e \in Executors,
           ex[e].pc \notin {"idle", "await", "final"} \cup Leaving
    PROVE  /\ Current(e) /\ FileOK(ex[e]) /\ row.state # "succeeded" /\ loop = e
           /\ ex[e].pc # "chunk" => writing = None
  <1>1. Current(e) /\ FileOK(ex[e])
    BY DEF DownloadInv, GenerationsOK, FilesOK
  <1>2. row.state # "succeeded"
    BY DEF DownloadInv, SuccessOK
  <1>3. loop = e
    BY DEF DownloadInv, LoopOK, Resting
  <1>4. ex[e].pc # "chunk" => writing = None
    BY <1>3 DEF DownloadInv, LoopOK
  <1>5. QED
    BY <1>1, <1>2, <1>3, <1>4

----------------------------------------------------------------------------
(* Three kinds of step *)

\* One that changes no more than the row, and not its generation.
LEMMA RowStep ==
    ASSUME DownloadInv, UNCHANGED <<store, ex, loop, writing, crashes, sized>>,
           app' \in {"up", "down", "failed"}, row' \in RowType, row'.gen = row.gen,
           row'.state = "succeeded" => row.state = "succeeded"
    PROVE  DownloadInv'
  <1>1. UNCHANGED <<fact, data, tempNames, target, linked, indexed, ex, loop, writing, crashes, sized>>
    BY DEF store
  <1>2. TypeOK'
    BY <1>1, TypeParts DEF DownloadInv, TypeOK, RowType
  <1>3. LoopOK' /\ DataOK' /\ ProofOK'
    BY <1>1 DEF DownloadInv, LoopOK, DataOK, ProofOK, StateProved, FileProved
  <1>4. GenerationsOK' /\ FilesOK'
    BY <1>1 DEF DownloadInv, GenerationsOK, FilesOK, Current, FileOK
  <1>5. OffsetNeverAhead' /\ PublishedFaithful'
    BY <1>1 DEF DownloadInv, OffsetNeverAhead, PublishedFaithful, PublishedIntact, LinkNeverDangles
  <1>6. SuccessOK'
    BY <1>1 DEF DownloadInv, SuccessOK, SuccessIsProved
  <1>7. QED
    BY <1>2, <1>3, <1>4, <1>5, <1>6 DEF DownloadInv

\* One on an execution's way out: it writes no file and publishes nothing.
LEMMA LeavingStep ==
    ASSUME DownloadInv, NEW e \in Executors, NEW x \in ExType,
           ex' = [ex EXCEPT ![e] = x], ex[e].pc # "idle",
           \/ x.pc = "idle" /\ loop' \in {e, None}
           \/ x.pc \in Leaving /\ x.gen = ex[e].gen /\ loop' = e,
           loop \in {e, None}, writing' = None,
           UNCHANGED <<data, target, linked, indexed, app, crashes, sized>>,
           fact' = fact \/ fact' = [temp |-> None, offset |-> 0],
           tempNames' \subseteq tempNames,
           row' \in RowType, row'.gen = row.gen, row'.state = "succeeded" => row.state = "succeeded"
    PROVE  DownloadInv'
  <1>1. \A f \in Executors : ex'[f] = IF f = e THEN x ELSE ex[f]
    BY DEF DownloadInv, TypeOK
  <1>2. fact' \in [temp : Inodes \cup {None}, offset : Nat] /\ fact'.temp \in {fact.temp, None}
    BY DEF DownloadInv, TypeOK
  <1>3. TypeOK'
    <2>1. StoreTypes'
      BY <1>2, TypeParts DEF DownloadInv, StoreTypes
    <2>2. ex' \in [Executors -> ExType]
      BY DEF DownloadInv, TypeOK
    <2>3. QED
      BY <2>1, <2>2 DEF TypeOK, StoreTypes, RowType
  <1>4. \A f \in Executors : f # e => ex[f].pc \in Resting
    BY NoneIsNone DEF DownloadInv, LoopOK
  <1>5. LoopOK'
    BY <1>1, <1>4 DEF LoopOK, Resting, Leaving
  <1>6. x.pc \in {"idle"} \cup Leaving
    OBVIOUS
  <1>7. \A f \in Executors : Current(f)' => Current(f)
    BY <1>1 DEF Current, Leaving
  <1>8. GenerationsOK'
    <2>1. \A f \in Executors : ex'[f].pc # "idle" => ex'[f].gen <= row'.gen
      BY <1>1 DEF DownloadInv, GenerationsOK, Leaving
    <2>2. \A f \in Executors : ex'[f].pc \notin {"idle", "await", "final"} \cup Leaving => Current(f)'
      BY <1>1, <1>4, <1>6 DEF Resting
    <2>3. QED
      BY <1>7, <2>1, <2>2 DEF DownloadInv, GenerationsOK
  <1>9. FilesOK'
    <2>1. FileOK(x)'
      BY <1>6 DEF FileOK, Leaving, Writing, Complete, Published
    <2>2. ASSUME NEW f \in Executors, f # e, Current(f)
          PROVE  FileOK(ex[f])'
      <3>1. FileOK(ex[f])
        BY <2>2 DEF DownloadInv, FilesOK
      <3>2. ex'[f] = ex[f]
        BY <1>1, <2>2
      <3>3. QED
        BY <1>2, <3>1, <3>2 DEF FileOK
    <2>3. QED
      BY <1>1, <1>7, <2>1, <2>2 DEF FilesOK
  <1>10. DataOK' /\ ProofOK'
    BY <1>1, <1>4, <1>6 DEF DownloadInv, DataOK, ProofOK, Resting, Leaving
  <1>11. OffsetNeverAhead'
    BY <1>2, NoneIsNone DEF DownloadInv, OffsetNeverAhead, TypeOK
  <1>12. PublishedFaithful'
    BY DEF DownloadInv, PublishedFaithful, PublishedIntact, LinkNeverDangles
  <1>13. SuccessOK'
    <2>1. row.state = "succeeded" => SuccessIsProved
      BY DEF DownloadInv, SuccessOK
    <2>2. SuccessIsProved'
      BY <2>1 DEF SuccessIsProved
    <2>3. \A f \in Executors : ex'[f].pc \in {"idle", "await", "final"} \cup Leaving
      BY <1>1, <1>4, <1>6 DEF Resting
    <2>4. QED
      BY <2>2, <2>3 DEF SuccessOK
  <1>14. QED
    BY <1>3, <1>5, <1>8, <1>9, <1>10, <1>11, <1>12, <1>13 DEF DownloadInv

\* One of the current execution, with what it leaves behind in the files.
LEMMA WorkStep ==
    ASSUME DownloadInv, NEW e \in Executors, NEW x \in ExType, Current(e), loop \in {e, None},
           ex' = [ex EXCEPT ![e] = x], x.pc # "idle", x.gen = ex[e].gen, row'.gen = row.gen,
           loop' = e \/ (loop' = None /\ x.pc = "await"),
           writing' = None \/ (writing' = e /\ loop' = e /\ x.pc = "chunk"),
           StoreTypes', DataOK', FileOK(x)', x.pc = "success" => StateProved(e, TRUE)',
           OffsetNeverAhead', PublishedFaithful', SuccessOK'
    PROVE  DownloadInv'
  <1>1. \A f \in Executors : ex'[f] = IF f = e THEN x ELSE ex[f]
    BY DEF DownloadInv, TypeOK
  <1>2. TypeOK'
    <2>1. ex' \in [Executors -> ExType]
      BY DEF DownloadInv, TypeOK
    <2>2. QED
      BY <2>1 DEF TypeOK, StoreTypes, RowType
  <1>3. \A f \in Executors : f # e => ex[f].pc \in Resting
    BY NoneIsNone DEF DownloadInv, LoopOK
  <1>4. LoopOK'
    BY <1>1, <1>3, NoneIsNone DEF LoopOK, Resting
  <1>5. \A f \in Executors : Current(f)' <=> Current(f)
    BY <1>1 DEF Current
  <1>6. GenerationsOK'
    <2>1. \A f \in Executors : ex'[f].pc # "idle" => ex'[f].gen <= row'.gen
      BY <1>1 DEF DownloadInv, GenerationsOK, Current
    <2>2. \A f \in Executors : ex'[f].pc \notin {"idle", "await", "final"} \cup Leaving => Current(f)'
      BY <1>1, <1>3, <1>5 DEF Resting
    <2>3. QED
      BY <1>5, <2>1, <2>2 DEF DownloadInv, GenerationsOK
  <1>7. FilesOK'
    <2>1. \A f \in Executors : Current(f) => f = e
      BY DEF DownloadInv, GenerationsOK
    <2>2. QED
      BY <1>1, <1>5, <2>1 DEF FilesOK
  <1>8. ProofOK'
    BY <1>1, <1>3 DEF ProofOK, Resting
  <1>9. QED
    BY <1>2, <1>4, <1>6, <1>7, <1>8 DEF DownloadInv

----------------------------------------------------------------------------
(* The requests, a crash and a restart *)

LEMMA RequestsKeep ==
    ASSUME DownloadInv, Pause \/ Cancel \/ Retry \/ ExpireLease
    PROVE  DownloadInv'
  <1>1. row \in RowType
    BY TypeParts DEF DownloadInv, StoreTypes
  <1>2. row' \in RowType /\ row'.gen = row.gen /\ (row'.state = "succeeded" => row.state = "succeeded")
    <2>1. CASE Pause
      BY <1>1, <2>1, TransitionRowKeeps DEF Pause, TaskState
    <2>2. CASE Cancel
      <3>1. PICK state \in {"cancelling", "cancelled"} :
                row' = [TransitionRow(row, state) EXCEPT !.cancel = TRUE]
        BY <2>2 DEF Cancel
      <3>2. PICK r \in RowType : r = TransitionRow(row, state) /\ r.gen = row.gen /\ r.state = state
        BY <1>1, TransitionRowKeeps DEF TaskState
      <3>3. row' = [r EXCEPT !.cancel = TRUE]
        BY <3>1, <3>2
      <3>4. QED
        BY <3>2, <3>3 DEF RowType
    <2>3. CASE Retry
      BY <1>1, <2>3, TransitionRowKeeps DEF Retry, TaskState
    <2>4. CASE ExpireLease
      BY <1>1, <2>4 DEF ExpireLease, RowType
    <2>5. QED
      BY <2>1, <2>2, <2>3, <2>4
  <1>3. UNCHANGED <<store, ex, loop, writing, app, crashes, sized>>
    BY DEF Pause, Cancel, Retry, ExpireLease
  <1>4. app' \in {"up", "down", "failed"}
    BY <1>3 DEF DownloadInv, TypeOK
  <1>5. QED
    BY <1>2, <1>3, <1>4, RowStep

LEMMA RestartKeeps == DownloadInv /\ Restart => DownloadInv'
  <1> SUFFICES ASSUME DownloadInv, Restart PROVE DownloadInv'
    OBVIOUS
  <1>1. row \in RowType
    BY TypeParts DEF DownloadInv, StoreTypes
  <1>2. row' = row \/ row' = TransitionRow(row, RecoveryTarget(row))
    BY DEF Restart
  <1>3. RecoveryTarget(row) \in TaskState \ {"succeeded"}
    BY DEF RecoveryTarget, TaskState
  <1>4. row' \in RowType /\ row'.gen = row.gen /\ (row'.state = "succeeded" => row.state = "succeeded")
    BY <1>1, <1>2, <1>3, TransitionRowKeeps
  <1>5. app' \in {"up", "down", "failed"}
    BY DEF Restart
  <1>6. QED
    BY <1>4, <1>5, RowStep DEF Restart

\* The places an executor may be in and the errors it may hold, as two names: the steps
\* below change one or two fields of a record of this type.
Places == {"idle", "preflight", "opening", "begin", "await", "chunk", "verify", "publish",
           "linkfile", "unlink", "published", "link", "prove_link", "index", "indexed",
           "prove_index", "success", "final", "stopping", "closing", "cleanup", "clear"}
Errors == {"none", "storage_unsafe", "snapshot_changed", "integrity_failed", "provider_error",
           "target_exists", "publish_failed", "link_failed", "write_failed", "error", "unknown",
           "lease_lost", "lease_conflict", "cancelled", "paused"}

\* What an executor record is, whatever the two sets of names hold.
LEMMA ExecutorRecord ==
    /\ ExType = [pc : Places, gen : Nat, version : Nat, clean : BOOLEAN, temp : Inodes \cup {None},
                 start : Nat, digest : Seq(Nat), published : BOOLEAN, err : Errors,
                 proof : BOOLEAN]
    /\ {"preflight", "begin", "await", "chunk", "verify", "publish", "unlink", "published", "link",
        "prove_link", "indexed", "final", "stopping", "closing"} \subseteq Places
  <1>1. ExType = [pc : Places, gen : Nat, version : Nat, clean : BOOLEAN, temp : Inodes \cup {None},
                 start : Nat, digest : Seq(Nat), published : BOOLEAN, err : Errors,
                 proof : BOOLEAN]
    BY Zenon DEF ExType, Places, Errors
  <1>2. QED
    BY <1>1 DEF Places

LEMMA FreshType == Fresh \in ExType /\ Fresh.pc = "idle"
  BY NoneIsNone DEF Fresh, ExType

LEMMA CrashKeeps == DownloadInv /\ Crash => DownloadInv'
  <1> SUFFICES ASSUME DownloadInv, Crash PROVE DownloadInv'
    OBVIOUS
  <1>1. /\ UNCHANGED <<row, fact, data, tempNames, target, linked, indexed, sized>>
        /\ loop' = None /\ writing' = None /\ app' = "down"
    BY DEF Crash, store
  <1>2. ex' \in [Executors -> ExType] /\ \A e \in Executors : ex'[e].pc = "idle"
    BY FreshType DEF Crash
  <1>3. crashes' \in 0..MaxCrashes
    BY BoundsAssumption DEF Crash, DownloadInv, TypeOK
  <1>4. TypeOK'
    BY <1>1, <1>2, <1>3 DEF DownloadInv, TypeOK
  <1>5. LoopOK' /\ GenerationsOK' /\ FilesOK' /\ ProofOK'
    BY <1>1, <1>2 DEF LoopOK, GenerationsOK, FilesOK, ProofOK, Current, Resting
  <1>6. DataOK' /\ OffsetNeverAhead' /\ PublishedFaithful'
    BY <1>1 DEF DownloadInv, DataOK, OffsetNeverAhead, PublishedFaithful, PublishedIntact, LinkNeverDangles
  <1>7. SuccessOK'
    BY <1>1, <1>2 DEF DownloadInv, SuccessOK, SuccessIsProved
  <1>8. QED
    BY <1>4, <1>5, <1>6, <1>7 DEF DownloadInv

LEMMA StartKeeps ==
    ASSUME DownloadInv, NEW e \in Executors, NEW resume \in BOOLEAN, Start(e, resume)
    PROVE  DownloadInv'
  <1>1. PICK claim : /\ claim = AcquireRow(TransitionRow(IF resume THEN TransitionRow(row, "queued") ELSE row,
                                                         "running"), e)
                     /\ row' = claim
                     /\ ex' = [ex EXCEPT ![e] = [Fresh EXCEPT !.pc = "preflight", !.gen = claim.gen,
                                                              !.version = claim.version]]
    BY DEF Start
  <1>2. /\ loop = None /\ ex[e].pc = "idle" /\ loop' = e /\ UNCHANGED <<writing, app, crashes, sized>>
        /\ UNCHANGED <<fact, data, tempNames, target, linked, indexed>>
    BY DEF Start, store
  <1>3. row \in RowType /\ row.gen \in Nat
    BY TypeParts DEF DownloadInv, StoreTypes, RowType
  <1>4. claim \in RowType /\ claim.gen = row.gen + 1 /\ claim.state = "running"
    <2>1. PICK base \in RowType : /\ base = IF resume THEN TransitionRow(row, "queued") ELSE row
                                  /\ base.gen = row.gen
      BY <1>3, TransitionRowKeeps DEF TaskState
    <2>2. PICK r \in RowType : r = TransitionRow(base, "running") /\ r.gen = row.gen /\ r.state = "running"
      BY <2>1, TransitionRowKeeps DEF TaskState
    <2>3. QED
      BY <1>1, <2>1, <2>2, OtherRowsKeep
  <1>5. PICK x : x = [Fresh EXCEPT !.pc = "preflight", !.gen = claim.gen, !.version = claim.version]
    OBVIOUS
  <1>6. x \in ExType /\ x.pc = "preflight" /\ x.gen = claim.gen /\ x.digest = << >> /\ x.start = 0
    <2>1. claim.gen \in Nat /\ claim.version \in Nat
      BY <1>4 DEF RowType
    <2>2. PICK fresh \in ExType : fresh = Fresh /\ fresh.digest = << >> /\ fresh.start = 0
      BY FreshType DEF Fresh
    <2>3. x = [fresh EXCEPT !.pc = "preflight", !.gen = claim.gen, !.version = claim.version]
      BY <1>5, <2>2
    <2>4. QED
      BY <2>1, <2>2, <2>3, ExecutorRecord
  <1>7. ex' \in [Executors -> ExType] /\ \A f \in Executors : ex'[f] = IF f = e THEN x ELSE ex[f]
    BY <1>1, <1>5, <1>6 DEF DownloadInv, TypeOK
  <1>8. writing = None /\ \A f \in Executors : ex[f].pc \in Resting
    BY <1>2, NoneIsNone DEF DownloadInv, LoopOK
  <1>9. TypeOK'
    BY <1>1, <1>2, <1>4, <1>7, <1>8 DEF DownloadInv, TypeOK, RowType
  <1>10. LoopOK'
    BY <1>2, <1>7, <1>8 DEF LoopOK
  <1>11. \A f \in Executors : Current(f)' <=> f = e
    <2>1. \A f \in Executors : ex[f].pc # "idle" => ex[f].gen \in Nat /\ ex[f].gen <= row.gen
      BY DEF DownloadInv, GenerationsOK, TypeOK, ExType
    <2>2. \A f \in Executors : f # e => ~Current(f)'
      BY <1>1, <1>3, <1>4, <1>7, <2>1 DEF Current
    <2>3. Current(e)'
      BY <1>1, <1>6, <1>7 DEF Current
    <2>4. QED
      BY <2>2, <2>3
  <1>12. GenerationsOK'
    <2>1. \A f \in Executors : ex[f].pc # "idle" => ex[f].gen \in Nat /\ ex[f].gen <= row.gen
      BY DEF DownloadInv, GenerationsOK, TypeOK, ExType
    <2>2. \A f \in Executors : ex'[f].pc # "idle" => ex'[f].gen <= row'.gen
      BY <1>1, <1>3, <1>4, <1>6, <1>7, <2>1
    <2>3. \A f \in Executors : ex'[f].pc \notin {"idle", "await", "final"} \cup Leaving => f = e
      BY <1>7, <1>8 DEF Resting
    <2>4. QED
      BY <1>11, <2>2, <2>3 DEF GenerationsOK
  <1>13. FilesOK' /\ ProofOK'
    <2>1. FileOK(x)'
      BY <1>6 DEF FileOK, Writing, Complete, Published
    <2>2. QED
      BY <1>6, <1>7, <1>8, <1>11, <2>1 DEF FilesOK, ProofOK, Resting
  <1>14. DataOK' /\ OffsetNeverAhead' /\ PublishedFaithful'
    BY <1>2 DEF DownloadInv, DataOK, OffsetNeverAhead, PublishedFaithful, PublishedIntact, LinkNeverDangles
  <1>15. SuccessOK'
    BY <1>1, <1>4 DEF SuccessOK
  <1>16. QED
    BY <1>9, <1>10, <1>12, <1>13, <1>14, <1>15 DEF DownloadInv

----------------------------------------------------------------------------
(* The way out *)

LEMMA LeaveKeeps ==
    ASSUME DownloadInv, NEW e \in Executors, ex[e].pc # "idle", loop = e, Leave(e),
           writing = None, writing' = None,
           UNCHANGED <<data, target, linked, indexed, app, crashes, sized>>,
           fact' = fact \/ fact' = [temp |-> None, offset |-> 0],
           tempNames' \subseteq tempNames,
           row' \in RowType, row'.gen = row.gen, row'.state = "succeeded" => row.state = "succeeded"
    PROVE  DownloadInv'
  <1>1. PICK x \in ExType : x = Fresh /\ x.pc = "idle"
    BY FreshType
  <1>2. ex' = [ex EXCEPT ![e] = x] /\ loop' = None
    BY <1>1 DEF Leave
  <1>3. QED
    BY <1>1, <1>2, LeavingStep

LEMMA RaiseKeeps ==
    ASSUME DownloadInv, NEW e \in Executors, NEW err \in Errors, NEW proof \in BOOLEAN,
           Raise(e, err, proof), ex[e].pc # "idle", loop \in {e, None}, loop' = e, writing' = None,
           UNCHANGED <<row, store, app, crashes, sized>>
    PROVE  DownloadInv'
  <1>1. PICK told : told = IF ex[e].published /\ err \notin LeaseErrors THEN "unknown" ELSE err
    OBVIOUS
  <1>2. PICK x : x = [ex[e] EXCEPT !.pc = "stopping", !.proof = proof, !.err = told]
    OBVIOUS
  <1>3. ex[e] \in ExType
    BY DEF DownloadInv, TypeOK
  <1>4. told \in Errors
    BY <1>1 DEF Errors
  <1>5. x \in ExType /\ x.pc = "stopping" /\ x.gen = ex[e].gen
    BY <1>2, <1>3, <1>4, ExecutorRecord
  <1>6. ex' = [ex EXCEPT ![e] = x]
    BY <1>1, <1>2 DEF Raise, DownloadInv, TypeOK
  <1>7. row \in RowType
    BY TypeParts DEF DownloadInv, StoreTypes
  <1>8. UNCHANGED <<data, target, linked, indexed, app, crashes, sized>> /\ fact' = fact /\ tempNames' \subseteq tempNames
    BY DEF store
  <1>9. QED
    BY <1>3, <1>5, <1>6, <1>7, <1>8, LeavingStep DEF Leaving

LEMMA LeaseErrorIs == LeaseError \in Errors
  BY DEF LeaseError, Errors

LEMMA WorkRaises ==
    ASSUME DownloadInv, NEW e \in Executors, NEW err \in Errors, NEW proof \in BOOLEAN,
           ex[e].pc \notin {"idle", "await", "final"} \cup Leaving,
           Raise(e, err, proof), UNCHANGED <<row, store, loop, app, crashes, sized>>,
           writing' = None \/ (UNCHANGED writing /\ ex[e].pc # "chunk")
    PROVE  DownloadInv'
  <1>1. loop = e /\ loop' = e /\ writing' = None
    BY AtWork
  <1>2. QED
    BY <1>1, RaiseKeeps

\* Neither the proof of an outcome nor the read of the row touches a file.
LEMMA ProveOutcomeKeeps ==
    ASSUME DownloadInv, NEW e \in Executors, ProveOutcome(e)
    PROVE  DownloadInv'
  <1>1. /\ ex[e].pc = "stopping" /\ loop = e
        /\ UNCHANGED <<row, store, loop, writing, app, crashes, sized>>
    BY DEF ProveOutcome, At
  <1>2. PICK err \in {"write_failed", "unknown"} :
            ex' = [ex EXCEPT ![e].proof = FALSE, ![e].err = err]
    BY DEF ProveOutcome
  <1>3. PICK x : x = [ex[e] EXCEPT !.proof = FALSE, !.err = err]
    OBVIOUS
  <1>4. ex[e] \in ExType /\ row \in RowType
    BY TypeParts DEF DownloadInv, TypeOK, StoreTypes
  <1>5. err \in Errors
    BY DEF Errors
  <1>6. x \in ExType /\ x.pc = "stopping" /\ x.gen = ex[e].gen
    BY <1>1, <1>3, <1>4, <1>5, ExecutorRecord
  <1>7. ex' = [ex EXCEPT ![e] = x]
    BY <1>2, <1>3 DEF DownloadInv, TypeOK
  <1>8. writing' = None
    BY <1>1, NoneIsNone DEF DownloadInv, LoopOK
  <1>9. QED
    BY <1>1, <1>4, <1>6, <1>7, <1>8, LeavingStep DEF Leaving, store

LEMMA ReadTaskKeeps ==
    ASSUME DownloadInv, NEW e \in Executors, ReadTask(e)
    PROVE  DownloadInv'
  <1>1. /\ ex[e].pc = "stopping" /\ loop = e
        /\ UNCHANGED <<row, store, writing, app, crashes, sized>>
    BY DEF ReadTask, At
  <1>2. ex[e] \in ExType /\ row \in RowType
    BY TypeParts DEF DownloadInv, TypeOK, StoreTypes
  <1>3. writing = None
    BY <1>1, NoneIsNone DEF DownloadInv, LoopOK
  <1>4. CASE Leave(e)
    BY <1>1, <1>2, <1>3, <1>4, LeaveKeeps DEF store
  <1>5. CASE /\ ex' = [ex EXCEPT ![e].pc = "closing", ![e].version = row.version]
             /\ UNCHANGED loop
    <2>1. PICK x : x = [ex[e] EXCEPT !.pc = "closing", !.version = row.version]
      OBVIOUS
    <2>2. row.version \in Nat
      BY <1>2 DEF RowType
    <2>3. x \in ExType /\ x.pc = "closing" /\ x.gen = ex[e].gen
      BY <1>2, <2>1, <2>2, ExecutorRecord
    <2>4. ex' = [ex EXCEPT ![e] = x]
      BY <1>5, <2>1 DEF DownloadInv, TypeOK
    <2>5. QED
      BY <1>1, <1>2, <1>3, <1>5, <2>3, <2>4, LeavingStep DEF Leaving, store
  <1>6. QED
    BY <1>4, <1>5 DEF ReadTask

LEMMA StopKeeps ==
    ASSUME DownloadInv, NEW e \in Executors, NEW ok \in BOOLEAN, StopTask(e, ok)
    PROVE  DownloadInv'
  <1>1. ex[e].pc = "closing" /\ loop = e /\ writing = None /\ writing' = None
    BY DEF StopTask, At
  <1>2. UNCHANGED <<fact, data, tempNames, target, linked, indexed, app, crashes, sized>>
    BY DEF StopTask, store
  <1>3. row \in RowType
    BY TypeParts DEF DownloadInv, StoreTypes
  <1>4. StopTarget(e) \in TaskState \ {"succeeded"}
    BY DEF StopTarget, TaskState
  <1>5. row' = row \/ row' = TransitionRow(row, StopTarget(e))
    BY DEF StopTask
  <1>6. row' \in RowType /\ row'.gen = row.gen /\ (row'.state = "succeeded" => row.state = "succeeded")
    BY <1>3, <1>4, <1>5, TransitionRowKeeps
  <1>7. CASE Leave(e)
    BY <1>1, <1>2, <1>6, <1>7, LeaveKeeps
  <1>8. CASE Goto(e, "cleanup") /\ UNCHANGED loop
    <2>1. PICK x : x = [ex[e] EXCEPT !.pc = "cleanup"]
      OBVIOUS
    <2>2. ex[e] \in ExType
      BY DEF DownloadInv, TypeOK
    <2>3. x \in ExType /\ x.pc = "cleanup" /\ x.gen = ex[e].gen
      BY <2>1, <2>2 DEF ExType
    <2>4. ex' = [ex EXCEPT ![e] = x]
      BY <1>8, <2>1 DEF Goto, DownloadInv, TypeOK
    <2>5. QED
      BY <1>1, <1>2, <1>6, <1>8, <2>3, <2>4, LeavingStep DEF Leaving
  <1>9. QED
    BY <1>7, <1>8 DEF StopTask, Closed

LEMMA RemoveTempKeeps ==
    ASSUME DownloadInv, NEW e \in Executors, RemoveTemp(e)
    PROVE  DownloadInv'
  <1>1. /\ ex[e].pc = "cleanup" /\ loop = e /\ tempNames' \subseteq tempNames
        /\ UNCHANGED <<row, fact, data, target, linked, indexed, writing, app, crashes, sized>>
    BY DEF RemoveTemp, At
  <1>2. writing = None
    BY <1>1 DEF DownloadInv, LoopOK
  <1>3. row \in RowType
    BY TypeParts DEF DownloadInv, StoreTypes
  <1>4. CASE Leave(e)
    BY <1>1, <1>2, <1>3, <1>4, LeaveKeeps
  <1>5. CASE Goto(e, "clear") /\ UNCHANGED loop
    <2>1. PICK x : x = [ex[e] EXCEPT !.pc = "clear"]
      OBVIOUS
    <2>2. ex[e] \in ExType
      BY DEF DownloadInv, TypeOK
    <2>3. x \in ExType /\ x.pc = "clear" /\ x.gen = ex[e].gen
      BY <2>1, <2>2 DEF ExType
    <2>4. ex' = [ex EXCEPT ![e] = x]
      BY <1>5, <2>1 DEF Goto, DownloadInv, TypeOK
    <2>5. QED
      BY <1>1, <1>2, <1>3, <1>5, <2>3, <2>4, LeavingStep DEF Leaving
  <1>6. QED
    BY <1>4, <1>5 DEF RemoveTemp

LEMMA ClearFactKeeps ==
    ASSUME DownloadInv, NEW e \in Executors, NEW ok \in BOOLEAN, ClearFact(e, ok)
    PROVE  DownloadInv'
  <1>1. /\ ex[e].pc = "clear" /\ loop = e /\ writing = None /\ Leave(e)
        /\ UNCHANGED <<row, data, tempNames, target, linked, indexed, writing, app, crashes, sized>>
        /\ fact' = fact \/ fact' = [temp |-> None, offset |-> 0]
    BY DEF ClearFact, At
  <1>2. row \in RowType
    BY TypeParts DEF DownloadInv, StoreTypes
  <1>3. QED
    BY <1>1, <1>2, LeaveKeeps

LEMMA FinalProofKeeps ==
    ASSUME DownloadInv, NEW e \in Executors, NEW proved \in BOOLEAN, NEW ok \in BOOLEAN,
           FinalProof(e, proved, ok)
    PROVE  DownloadInv'
  <1>1. /\ ex[e].pc = "final" /\ loop = e /\ writing = None /\ Leave(e)
        /\ UNCHANGED <<fact, data, tempNames, target, linked, indexed, writing, app, crashes, sized>>
        /\ row' = row \/ row' = UnknownRow(row)
    BY DEF FinalProof, At, store
  <1>2. row \in RowType
    BY TypeParts DEF DownloadInv, StoreTypes
  <1>3. row' \in RowType /\ row'.gen = row.gen /\ (row'.state = "succeeded" => row.state = "succeeded")
    BY <1>1, <1>2, OtherRowsKeep
  <1>4. QED
    BY <1>1, <1>3, LeaveKeeps

AtWorkPcs == {"opening", "begin", "chunk", "verify", "publish", "linkfile", "unlink", "published", "link",
              "prove_link", "index", "indexed", "prove_index", "success"}

LEMMA SomethingRaisesKeeps ==
    ASSUME DownloadInv, NEW e \in Executors, SomethingRaises(e) \/ LeaseUnreadable(e)
    PROVE  DownloadInv'
  <1>1. ex[e].pc \in AtWorkPcs /\ (LeaseUnreadable(e) => ex[e].pc # "chunk")
    BY DEF SomethingRaises, LeaseUnreadable, At, AtWorkPcs
  <1>2. ex[e].pc \notin {"idle", "await", "final"} \cup Leaving
    BY <1>1 DEF AtWorkPcs, Leaving
  <1>3. PICK err \in {"error", "storage_unsafe", "lease_conflict"}, proof \in BOOLEAN : Raise(e, err, proof)
    BY DEF SomethingRaises, LeaseUnreadable
  <1>4. /\ UNCHANGED <<row, store, loop, app, crashes, sized>>
        /\ writing' = None \/ (UNCHANGED writing /\ ex[e].pc # "chunk")
    BY <1>1 DEF SomethingRaises, LeaseUnreadable
  <1>5. QED
    BY <1>2, <1>3, <1>4, WorkRaises DEF Errors

LEMMA ProviderFailsKeeps ==
    ASSUME DownloadInv, NEW e \in Executors, NEW proof \in BOOLEAN, ProviderFails(e, proof)
    PROVE  DownloadInv'
  <1>1. /\ ex[e].pc = "await" /\ loop = None /\ loop' = e /\ Raise(e, "provider_error", proof)
        /\ UNCHANGED <<row, store, writing, app, crashes, sized>>
    BY DEF ProviderFails, Awaiting
  <1>2. writing' = None
    BY <1>1, NoneIsNone DEF DownloadInv, LoopOK
  <1>3. "provider_error" \in Errors
    BY DEF Errors
  <1>4. QED
    BY <1>1, <1>2, <1>3, RaiseKeeps

----------------------------------------------------------------------------
(* The way from the claim to success *)

\* A step of the current execution that leaves the files and their facts alone.
LEMMA QuietStep ==
    ASSUME DownloadInv, NEW e \in Executors, NEW x \in ExType, Current(e), loop \in {e, None}, loop' = e,
           ex' = [ex EXCEPT ![e] = x], x.pc # "idle", x.gen = ex[e].gen,
           row' \in RowType, row'.gen = row.gen, row'.state # "succeeded",
           UNCHANGED <<store, app, crashes, sized>>, writing' = None, FileOK(x),
           x.pc = "success" => x.digest = ex[e].digest /\ StateProved(e, TRUE)
    PROVE  DownloadInv'
  <1>1. UNCHANGED <<fact, data, tempNames, target, linked, indexed, app, crashes, sized>>
    BY DEF store
  <1>2. ex'[e] = x
    BY DEF DownloadInv, TypeOK
  <1>3. StoreTypes' /\ DataOK'
    BY <1>1, TypeParts DEF DownloadInv, StoreTypes, DataOK
  <1>4. OffsetNeverAhead' /\ PublishedFaithful'
    BY <1>1 DEF DownloadInv, OffsetNeverAhead, PublishedFaithful, PublishedIntact, LinkNeverDangles
  <1>5. FileOK(x)'
    BY <1>1 DEF FileOK
  <1>6. SuccessOK'
    BY DEF SuccessOK
  <1>7. x.pc = "success" => StateProved(e, TRUE)'
    BY <1>1, <1>2 DEF StateProved, FileProved
  <1>8. QED
    BY <1>3, <1>4, <1>5, <1>6, <1>7, WorkStep

\* A heartbeat or none, and on to the next program counter.
LEMMA GotoKeeps ==
    ASSUME DownloadInv, NEW e \in Executors, ex[e].pc \notin {"idle", "await", "final", "chunk"} \cup Leaving,
           NEW pc \in AtWorkPcs, NEW clean \in BOOLEAN,
           ex' = [ex EXCEPT ![e] = [ex[e] EXCEPT !.pc = pc, !.clean = clean]],
           row' = row \/ \E stage \in Stages : row' = HeartbeatRow(row, stage),
           UNCHANGED <<store, loop, writing, app, crashes, sized>>,
           pc \in Writing => ex[e].pc \in Writing \ {"begin"} /\ pc # "chunk",
           pc = "opening" => ex[e].pc = "preflight",
           pc \in Complete => ex[e].pc \in Complete,
           pc \in Published => ex[e].pc \in Published,
           pc = "success" => StateProved(e, TRUE)
    PROVE  DownloadInv'
  <1>1. Current(e) /\ FileOK(ex[e]) /\ row.state # "succeeded" /\ loop = e /\ writing = None
    BY AtWork
  <1>2. row \in RowType /\ ex[e] \in ExType
    BY TypeParts DEF DownloadInv, StoreTypes
  <1>3. row' \in RowType /\ row'.gen = row.gen /\ row'.state # "succeeded"
    BY <1>1, <1>2, OtherRowsKeep
  <1>4. PICK x : x = [ex[e] EXCEPT !.pc = pc, !.clean = clean]
    OBVIOUS
  <1>5. /\ x \in ExType /\ x.pc = pc /\ x.gen = ex[e].gen /\ x.digest = ex[e].digest
        /\ x.temp = ex[e].temp /\ x.start = ex[e].start
    BY <1>2, <1>4 DEF ExType, AtWorkPcs
  <1>6. FileOK(x)
    BY <1>1, <1>5 DEF FileOK, AtWorkPcs
  <1>7. pc # "idle"
    BY DEF AtWorkPcs
  <1>8. QED
    BY <1>1, <1>3, <1>4, <1>5, <1>6, <1>7, QuietStep

LEMMA GotoIs ==
    ASSUME ex \in [Executors -> ExType], NEW e \in Executors, NEW pc, Goto(e, pc)
    PROVE  ex' = [ex EXCEPT ![e] = [ex[e] EXCEPT !.pc = pc, !.clean = ex[e].clean]]
  <1>1. ex[e] \in ExType
    OBVIOUS
  <1>2. [ex[e] EXCEPT !.pc = pc, !.clean = ex[e].clean] = [ex[e] EXCEPT !.pc = pc]
    BY <1>1 DEF ExType
  <1>3. QED
    BY <1>2 DEF Goto

LEMMA ProgressIs ==
    ASSUME ex \in [Executors -> ExType], NEW e \in Executors, NEW stage, NEW pc, Progress(e, stage, pc)
    PROVE  /\ ex' = [ex EXCEPT ![e] = [ex[e] EXCEPT !.pc = pc, !.clean = FALSE]]
           /\ row' = HeartbeatRow(row, stage)
  BY DEF Progress

LEMMA ExecutorType ==
    ASSUME DownloadInv, NEW e \in Executors
    PROVE  /\ ex[e] \in ExType /\ ex[e].clean \in BOOLEAN /\ ex \in [Executors -> ExType]
           /\ ex[e].digest \in Seq(Nat) /\ Len(ex[e].digest) \in Nat /\ ex[e].start \in Nat
           /\ row \in RowType
  <1>1. ex[e] \in ExType /\ ex \in [Executors -> ExType]
    BY DEF DownloadInv, TypeOK
  <1>2. ex[e].clean \in BOOLEAN /\ ex[e].digest \in Seq(Nat) /\ ex[e].start \in Nat
    BY <1>1 DEF ExType
  <1>3. Len(ex[e].digest) \in Nat
    BY <1>2
  <1>4. QED
    BY <1>1, <1>2, <1>3, TypeParts DEF DownloadInv, StoreTypes

LEMMA PreflightKeeps ==
    ASSUME DownloadInv, NEW e \in Executors, Preflight(e) \/ PreflightRefused(e)
    PROVE  DownloadInv'
  <1>1. ex[e].pc = "preflight" /\ UNCHANGED <<row, store, writing, app, crashes, sized>>
    BY DEF Preflight, PreflightRefused, At
  <1>2. row.state # "succeeded" /\ loop = e /\ writing = None
    BY <1>1, AtWork DEF Leaving
  <1>3. CASE Leave(e)
    BY <1>1, <1>2, <1>3, LeaveKeeps, ExecutorType DEF store
  <1>4. CASE Goto(e, "opening") /\ UNCHANGED loop
    <2>1. /\ "opening" \in AtWorkPcs /\ "opening" \notin Writing \cup Complete \cup Published
          /\ ex[e].pc \notin {"idle", "await", "final", "chunk"} \cup Leaving
      BY <1>1 DEF AtWorkPcs, Leaving, Writing, Complete, Published
    <2>2. ex' = [ex EXCEPT ![e] = [ex[e] EXCEPT !.pc = "opening", !.clean = ex[e].clean]]
      BY <1>4, GotoIs, ExecutorType
    <2>3. QED
      BY <1>1, <1>4, <2>1, <2>2, GotoKeeps, ExecutorType
  <1>5. QED
    BY <1>3, <1>4 DEF Preflight, PreflightRefused

LEMMA OpenKeeps ==
    ASSUME DownloadInv, NEW e \in Executors, CreateTemp(e)
    PROVE  DownloadInv'
  <1>1. ex[e].pc = "opening"
    BY DEF CreateTemp, At
  <1>2. Current(e) /\ FileOK(ex[e]) /\ row.state # "succeeded" /\ loop = e /\ writing = None
    BY <1>1, AtWork DEF Leaving
  <1>3. PICK i \in Inodes : /\ FreshInode(i)
                            /\ tempNames' = tempNames \cup {i}
                            /\ data' = [data EXCEPT ![i] = << >>]
                            /\ ex' = [ex EXCEPT ![e].pc = "begin", ![e].temp = i]
    BY DEF CreateTemp
  <1>4. UNCHANGED <<row, fact, target, linked, indexed, loop, writing, app, crashes, sized>>
    BY DEF CreateTemp
  <1>5. data' \in [Inodes -> Seq(Nat)] /\ \A j \in Inodes : data'[j] = IF j = i THEN << >> ELSE data[j]
    BY <1>3 DEF DownloadInv, TypeOK
  <1>6. i # target /\ i # fact.temp
    BY <1>3 DEF FreshInode
  <1>7. StoreTypes'
    BY <1>3, <1>4, <1>5, TypeParts DEF DownloadInv, StoreTypes
  <1>8. DataOK'
    BY <1>5, AssetFacts DEF DownloadInv, DataOK
  <1>9. PublishedFaithful' /\ OffsetNeverAhead'
    <2>1. target # None => data'[target] = data[target]
      BY <1>5, <1>6 DEF DownloadInv, TypeOK
    <2>2. fact.temp \in tempNames' => fact.temp \in tempNames /\ data'[fact.temp] = data[fact.temp]
      BY <1>3, <1>5, <1>6 DEF DownloadInv, TypeOK
    <2>3. PublishedFaithful'
      BY <1>4, <2>1 DEF DownloadInv, PublishedFaithful, PublishedIntact, LinkNeverDangles
    <2>4. OffsetNeverAhead'
      BY <1>4, <2>2 DEF DownloadInv, OffsetNeverAhead
    <2>5. QED
      BY <2>3, <2>4
  <1>10. PICK x : x = [ex[e] EXCEPT !.pc = "begin", !.temp = i]
    OBVIOUS
  <1>11. /\ x \in ExType /\ x.pc = "begin" /\ x.gen = ex[e].gen /\ x.temp = i
         /\ x.digest = ex[e].digest /\ x.start = ex[e].start
    BY <1>10, ExecutorType, ExecutorRecord
  <1>12. FileOK(x)'
    <2>1. x.digest = << >> /\ x.start = 0 /\ Len(x.digest) = 0
      BY <1>1, <1>2, <1>11 DEF FileOK
    <2>2. data'[i] = << >>
      BY <1>5
    <2>3. QED
      BY <1>4, <1>6, <1>11, <2>1, <2>2 DEF FileOK, Complete, Published
  <1>13. SuccessOK'
    BY <1>2, <1>4 DEF SuccessOK
  <1>14. ex' = [ex EXCEPT ![e] = x]
    BY <1>3, <1>10, ExecutorType
  <1>15. QED
    BY <1>2, <1>4, <1>7, <1>8, <1>9, <1>11, <1>12, <1>13, <1>14, WorkStep

LEMMA ReopenKeeps ==
    ASSUME DownloadInv, NEW e \in Executors, ReopenTemp(e)
    PROVE  DownloadInv'
  <1>1. ex[e].pc = "opening" /\ UNCHANGED <<row, store, loop, writing, app, crashes, sized>>
    BY DEF ReopenTemp, At
  <1>2. Current(e) /\ row.state # "succeeded" /\ loop = e /\ writing = None
    BY <1>1, AtWork DEF Leaving
  <1>3. CASE \E err \in {"storage_unsafe", "snapshot_changed"} : Raise(e, err, FALSE)
    <2>1. PICK err \in {"storage_unsafe", "snapshot_changed"} : Raise(e, err, FALSE)
      BY <1>3
    <2>2. QED
      BY <1>1, <2>1, WorkRaises DEF Errors, Leaving
  <1>4. CASE /\ Reopenable /\ Len(data[fact.temp]) = fact.offset
             /\ ex' = [ex EXCEPT ![e].pc = "begin", ![e].temp = fact.temp,
                                 ![e].start = fact.offset, ![e].digest = data[fact.temp]]
    <2>1. PICK x : x = [ex[e] EXCEPT !.pc = "begin", !.temp = fact.temp,
                                     !.start = fact.offset, !.digest = data[fact.temp]]
      OBVIOUS
    <2>2. /\ fact.temp \in Inodes /\ fact.temp # target /\ fact.offset \in Nat
          /\ data[fact.temp] \in Seq(Nat)
      BY <1>4 DEF Reopenable, OneName, DownloadInv, TypeOK
    <2>3. /\ x \in ExType /\ x.pc = "begin" /\ x.gen = ex[e].gen /\ x.temp = fact.temp
          /\ x.digest = data[fact.temp] /\ x.start = fact.offset
      BY <2>1, <2>2, ExecutorType, ExecutorRecord
    <2>4. FileOK(x)
      BY <1>4, <2>2, <2>3 DEF FileOK, Complete, Published
    <2>5. ex' = [ex EXCEPT ![e] = x]
      BY <1>4, <2>1, ExecutorType
    <2>6. QED
      BY <1>1, <1>2, <2>3, <2>4, <2>5, QuietStep, ExecutorType
  <1>5. QED
    BY <1>3, <1>4 DEF ReopenTemp

\* A fenced step of an execution at work either finds its lease or raises.
LEMMA NoLease ==
    ASSUME DownloadInv, NEW e \in Executors, ex[e].pc \notin {"idle", "await", "final", "chunk"} \cup Leaving,
           Raise(e, LeaseError, FALSE), UNCHANGED <<row, store, loop, writing, app, crashes, sized>>
    PROVE  DownloadInv'
  BY WorkRaises, LeaseErrorIs

LEMMA BeginKeeps ==
    ASSUME DownloadInv, NEW e \in Executors, Begin(e)
    PROVE  DownloadInv'
  <1>1. ex[e].pc = "begin"
    BY DEF Begin, At
  <1>2. Current(e) /\ FileOK(ex[e]) /\ row.state # "succeeded" /\ loop = e /\ writing = None
    BY <1>1, AtWork DEF Leaving
  <1>3. CASE ~Lease(e)
    BY <1>1, <1>3, NoLease DEF Begin, Fenced, Leaving
  <1>4. CASE Lease(e)
    <2>1. /\ ex' = [ex EXCEPT ![e] = [ex[e] EXCEPT !.pc = "await", !.clean = FALSE]]
          /\ row' = HeartbeatRow(row, "downloading")
      BY <1>4, ProgressIs, ExecutorType DEF Begin, Fenced
    <2>2. /\ fact' = [temp |-> ex[e].temp, offset |-> ex[e].start] /\ loop' = None
          /\ UNCHANGED <<data, tempNames, target, linked, indexed, writing, app, crashes, sized>>
      BY <1>4 DEF Begin, Fenced
    <2>3. /\ ex[e].temp \in Inodes /\ ex[e].temp # target /\ data[ex[e].temp] = ex[e].digest
          /\ ex[e].start \in Nat /\ ex[e].start <= Len(ex[e].digest)
      BY <1>1, <1>2, ExecutorType DEF FileOK, Writing
    <2>4. row' \in RowType /\ row'.gen = row.gen /\ row'.state # "succeeded"
      BY <1>2, <2>1, OtherRowsKeep, ExecutorType DEF Stages
    <2>5. PICK x : x = [ex[e] EXCEPT !.pc = "await", !.clean = FALSE]
      OBVIOUS
    <2>6. /\ x \in ExType /\ x.pc = "await" /\ x.gen = ex[e].gen /\ x.temp = ex[e].temp
          /\ x.digest = ex[e].digest /\ x.start = ex[e].start
      BY <2>5, ExecutorType, ExecutorRecord
    <2>7. fact'.temp = ex[e].temp /\ fact'.offset = ex[e].start
      BY <2>2
    <2>8. FileOK(x)'
      BY <2>2, <2>3, <2>6, <2>7 DEF FileOK, Complete, Published
    <2>9. StoreTypes'
      BY <2>2, <2>3, <2>4, TypeParts DEF DownloadInv, StoreTypes
    <2>10. DataOK' /\ PublishedFaithful'
      BY <2>2 DEF DownloadInv, DataOK, PublishedFaithful, PublishedIntact, LinkNeverDangles
    <2>11. OffsetNeverAhead' /\ SuccessOK'
      BY <2>2, <2>3, <2>4, <2>7 DEF OffsetNeverAhead, SuccessOK
    <2>12. ex' = [ex EXCEPT ![e] = x]
      BY <2>1, <2>5
    <2>13. QED
      BY <1>2, <2>2, <2>4, <2>6, <2>8, <2>9, <2>10, <2>11, <2>12, WorkStep
  <1>5. QED
    BY <1>3, <1>4

----------------------------------------------------------------------------
(* The stream *)

LEMMA LeaseIsCurrent ==
    ASSUME NEW e \in Executors, Lease(e), ex[e].pc # "idle"
    PROVE  Current(e) /\ row.state = "running"
  BY DEF Lease, FenceHolds, Current

LEMMA ReceiveKeeps ==
    ASSUME DownloadInv, NEW e \in Executors, ReceiveChunk(e)
    PROVE  DownloadInv'
  <1>1. /\ ex[e].pc = "await" /\ loop = None /\ writing = None /\ loop' = e
        /\ UNCHANGED <<row, fact, tempNames, target, linked, indexed, app, crashes, sized>>
    BY DEF ReceiveChunk, Awaiting
  <1>2. CASE ~Lease(e)
    <2>1. Raise(e, LeaseError, FALSE) /\ UNCHANGED <<data, writing>>
      BY <1>2 DEF ReceiveChunk
    <2>2. QED
      BY <1>1, <2>1, RaiseKeeps, LeaseErrorIs DEF store
  <1>3. CASE Lease(e)
    <2>1. Current(e) /\ row.state = "running"
      BY <1>1, <1>3, LeaseIsCurrent
    <2>2. FileOK(ex[e])
      BY <2>1 DEF DownloadInv, FilesOK
    <2>3. PICK t, d, n : t = ex[e].temp /\ d = ex[e].digest /\ n = Len(ex[e].digest)
      OBVIOUS
    <2>4. /\ data' = [data EXCEPT ![t] = Append(@, n + 1)]
          /\ writing' = e /\ Goto(e, "chunk")
      BY <1>3, <2>3 DEF ReceiveChunk
    <2>5. /\ t \in Inodes /\ t # target /\ data[t] = d /\ d \in Seq(Nat) /\ n \in Nat
          /\ fact.temp \in {t, None} /\ ex[e].start <= n
      BY <1>1, <2>2, <2>3, ExecutorType DEF FileOK, Writing
    <2>6. /\ data' \in [Inodes -> Seq(Nat)]
          /\ \A i \in Inodes : data'[i] = IF i = t THEN Append(d, n + 1) ELSE data[i]
      BY <2>4, <2>5 DEF DownloadInv, TypeOK
    <2>7. StoreTypes'
      BY <1>1, <2>6, TypeParts DEF DownloadInv, StoreTypes
    <2>8. Append(d, n + 1) = Asset(n + 1) /\ Len(Append(d, n + 1)) = n + 1
      <3>1. d = Asset(n)
        BY <2>3, <2>5 DEF DownloadInv, DataOK
      <3>2. Append(Asset(n), n + 1) = Asset(n + 1)
        BY <2>5, AssetFacts
      <3>3. n + 1 \in Nat /\ Len(Asset(n + 1)) = n + 1
        BY <2>5, AssetFacts
      <3>4. QED
        BY <3>1, <3>2, <3>3
    <2>9. DataOK'
      <3>1. ASSUME NEW i \in Inodes, i = t PROVE data'[i] = Asset(Len(data'[i]))
        BY <2>6, <2>8, <3>1
      <3>2. ASSUME NEW i \in Inodes, i # t PROVE data'[i] = Asset(Len(data'[i]))
        <4>1. data'[i] = data[i]
          BY <2>6, <3>2
        <4>2. data[i] = Asset(Len(data[i]))
          BY <3>2 DEF DownloadInv, DataOK
        <4>3. QED
          BY <4>1, <4>2
      <3>3. QED
        BY <3>1, <3>2 DEF DataOK
    <2>10. PublishedFaithful'
      <3>1. target # None => data'[target] = data[target]
        BY <2>5, <2>6 DEF DownloadInv, TypeOK
      <3>2. QED
        BY <1>1, <3>1 DEF DownloadInv, PublishedFaithful, PublishedIntact, LinkNeverDangles
    <2>11. OffsetNeverAhead'
      <3>1. fact.offset \in Nat /\ (fact.temp \in tempNames => fact.temp \in Inodes)
        BY DEF DownloadInv, TypeOK
      <3>2. fact.temp \in tempNames => fact.offset <= Len(data'[fact.temp])
        <4>1. CASE fact.temp = t
          <5>1. fact.temp \in tempNames => fact.offset <= n
            BY <2>3, <2>5, <4>1 DEF DownloadInv, OffsetNeverAhead
          <5>2. QED
            BY <2>5, <2>6, <2>8, <3>1, <4>1, <5>1
        <4>2. CASE fact.temp # t
          BY <2>6, <3>1, <4>2 DEF DownloadInv, OffsetNeverAhead
        <4>3. QED
          BY <4>1, <4>2
      <3>3. QED
        BY <1>1, <3>2 DEF OffsetNeverAhead
    <2>12. PICK x : x = [ex[e] EXCEPT !.pc = "chunk", !.clean = ex[e].clean]
      OBVIOUS
    <2>13. /\ x \in ExType /\ x.pc = "chunk" /\ x.gen = ex[e].gen /\ x.temp = t
           /\ x.digest = d /\ x.start = ex[e].start
      BY <2>3, <2>12, ExecutorType, ExecutorRecord
    <2>14. FileOK(x)'
      BY <1>1, <2>3, <2>5, <2>6, <2>13 DEF FileOK, Complete, Published
    <2>15. ex' = [ex EXCEPT ![e] = x]
      BY <2>4, <2>12, GotoIs, ExecutorType
    <2>16. SuccessOK'
      BY <1>1, <2>1 DEF SuccessOK
    <2>17. QED
      BY <1>1, <2>1, <2>4, <2>7, <2>9, <2>10, <2>11, <2>13, <2>14, <2>15, <2>16, WorkStep
  <1>4. QED
    BY <1>2, <1>3

LEMMA CommitChunkKeeps ==
    ASSUME DownloadInv, NEW e \in Executors, CommitChunk(e)
    PROVE  DownloadInv'
  <1>1. ex[e].pc = "chunk" /\ writing' = None /\ loop' = None
        /\ UNCHANGED <<data, tempNames, target, linked, indexed, app, crashes, sized>>
    BY DEF CommitChunk, At
  <1>2. Current(e) /\ FileOK(ex[e]) /\ row.state # "succeeded" /\ loop = e
    BY <1>1, AtWork DEF Leaving
  <1>3. PICK t, d, n : t = ex[e].temp /\ d = ex[e].digest /\ n = Len(ex[e].digest)
    OBVIOUS
  <1>4. /\ t \in Inodes /\ t # target /\ data[t] = Append(d, n + 1) /\ d \in Seq(Nat) /\ n \in Nat
        /\ fact.temp \in {t, None} /\ ex[e].start \in Nat /\ ex[e].start <= n
    BY <1>1, <1>2, <1>3, ExecutorType DEF FileOK, Writing
  <1>5. Append(d, n + 1) \in Seq(Nat) /\ Len(Append(d, n + 1)) = n + 1
    BY <1>3, <1>4
  <1>6. row' \in RowType /\ row'.gen = row.gen /\ row'.state # "succeeded"
    BY <1>2, OtherRowsKeep, ExecutorType DEF CommitChunk, Stages
  <1>7. /\ fact' \in [temp : Inodes \cup {None}, offset : Nat]
        /\ fact'.temp = fact.temp /\ fact'.offset = n + 1
    <2>1. fact' = [fact EXCEPT !.offset = n + 1] /\ n + 1 \in Nat
      BY <1>3, <1>4 DEF CommitChunk
    <2>2. fact \in [temp : Inodes \cup {None}, offset : Nat]
      BY DEF DownloadInv, TypeOK
    <2>3. QED
      BY <2>1, <2>2
  <1>8. PICK x : x = [ex[e] EXCEPT !.pc = "await", !.clean = FALSE, !.digest = Append(d, n + 1)]
    OBVIOUS
  <1>9. /\ x \in ExType /\ x.pc = "await" /\ x.gen = ex[e].gen /\ x.temp = t
        /\ x.digest = Append(d, n + 1) /\ x.start = ex[e].start
    BY <1>3, <1>5, <1>8, ExecutorType, ExecutorRecord
  <1>10. ex' = [ex EXCEPT ![e] = x]
    BY <1>3, <1>8, ExecutorType DEF CommitChunk
  <1>11. FileOK(x)'
    BY <1>1, <1>4, <1>5, <1>7, <1>9 DEF FileOK, Complete, Published
  <1>12. StoreTypes'
    BY <1>1, <1>6, <1>7, TypeParts DEF DownloadInv, StoreTypes
  <1>13. DataOK' /\ PublishedFaithful'
    BY <1>1 DEF DownloadInv, DataOK, PublishedFaithful, PublishedIntact, LinkNeverDangles
  <1>14. OffsetNeverAhead'
    <2>1. fact.temp \in tempNames => fact.temp = t
      BY <1>4, NoneIsNone DEF DownloadInv, TypeOK
    <2>2. QED
      BY <1>1, <1>4, <1>5, <1>7, <2>1 DEF OffsetNeverAhead
  <1>15. SuccessOK'
    BY <1>6 DEF SuccessOK
  <1>16. QED
    BY <1>1, <1>2, <1>6, <1>9, <1>10, <1>11, <1>12, <1>13, <1>14, <1>15, WorkStep

LEMMA StreamEndsKeeps ==
    ASSUME DownloadInv, NEW e \in Executors, StreamEnds(e)
    PROVE  DownloadInv'
  <1>1. /\ ex[e].pc = "await" /\ loop = None /\ loop' = e
        /\ UNCHANGED <<row, store, writing, app, crashes, sized>>
    BY DEF StreamEnds, Awaiting
  <1>2. writing = None /\ writing' = None
    BY <1>1, NoneIsNone DEF DownloadInv, LoopOK
  <1>3. CASE \E err \in {LeaseError, "integrity_failed"} : Raise(e, err, FALSE)
    <2>1. PICK err \in {LeaseError, "integrity_failed"} : Raise(e, err, FALSE)
      BY <1>3
    <2>2. err \in Errors
      BY <2>1, LeaseErrorIs DEF Errors
    <2>3. QED
      BY <1>1, <1>2, <2>1, <2>2, RaiseKeeps
  <1>4. CASE /\ Lease(e) /\ Len(ex[e].digest) # ex[e].start
             /\ sized => Len(ex[e].digest) = AssetChunks
             /\ Goto(e, "verify")
    <2>1. Current(e) /\ row.state = "running"
      BY <1>1, <1>4, LeaseIsCurrent
    <2>2. FileOK(ex[e])
      BY <2>1 DEF DownloadInv, FilesOK
    <2>3. PICK x : x = [ex[e] EXCEPT !.pc = "verify", !.clean = ex[e].clean]
      OBVIOUS
    <2>4. /\ x \in ExType /\ x.pc = "verify" /\ x.gen = ex[e].gen /\ x.temp = ex[e].temp
          /\ x.digest = ex[e].digest /\ x.start = ex[e].start
      BY <2>3, ExecutorType, ExecutorRecord
    <2>5. Len(ex[e].digest) > 0
      BY <1>1, <1>4, <2>2, ExecutorType DEF FileOK, Writing
    <2>6. FileOK(x)
      BY <1>1, <1>4, <2>2, <2>4, <2>5 DEF FileOK, Writing, Complete, Published
    <2>7. ex' = [ex EXCEPT ![e] = x]
      BY <1>4, <2>3, GotoIs, ExecutorType
    <2>8. QED
      BY <1>1, <1>2, <2>1, <2>4, <2>6, <2>7, QuietStep, ExecutorType
  <1>5. QED
    BY <1>3, <1>4 DEF StreamEnds

----------------------------------------------------------------------------
(* Publication, link, index and success *)

LEMMA VerifiedKeeps ==
    ASSUME DownloadInv, NEW e \in Executors, CommitVerified(e)
    PROVE  DownloadInv'
  <1>1. ex[e].pc = "verify"
    BY DEF CommitVerified, At
  <1>2. Current(e) /\ FileOK(ex[e]) /\ row.state # "succeeded" /\ loop = e /\ writing = None
    BY <1>1, AtWork DEF Leaving
  <1> DEFINE Recorded == OneName(ex[e].temp) /\ fact.temp \in {ex[e].temp, None}
  <1>3. CASE ~Recorded
    <2>1. Raise(e, "storage_unsafe", FALSE) /\ UNCHANGED <<row, store, loop, writing, app, crashes, sized>>
      BY <1>3 DEF CommitVerified
    <2>2. QED
      BY <1>1, <2>1, WorkRaises DEF Errors, Leaving
  <1>4. CASE Recorded /\ ~Lease(e)
    BY <1>1, <1>4, NoLease DEF CommitVerified, Fenced, Leaving
  <1>5. CASE Recorded /\ Lease(e)
    <2>1. /\ ex' = [ex EXCEPT ![e] = [ex[e] EXCEPT !.pc = "publish", !.clean = FALSE]]
          /\ row' = HeartbeatRow(row, "verified")
      BY <1>5, ProgressIs, ExecutorType DEF CommitVerified, Fenced
    <2>2. /\ fact' = [fact EXCEPT !.offset = Len(ex[e].digest)]
          /\ UNCHANGED <<data, tempNames, target, linked, indexed, loop, writing, app, crashes, sized>>
      BY <1>5 DEF CommitVerified, Fenced
    <2>3. row' \in RowType /\ row'.gen = row.gen /\ row'.state # "succeeded"
      BY <1>2, <2>1, OtherRowsKeep, ExecutorType DEF Stages
    <2>4. fact \in [temp : Inodes \cup {None}, offset : Nat]
      BY DEF DownloadInv, TypeOK
    <2>5. /\ fact' \in [temp : Inodes \cup {None}, offset : Nat]
          /\ fact'.temp = fact.temp /\ fact'.offset = Len(ex[e].digest)
      BY <2>2, <2>4, ExecutorType
    <2>6. PICK x : x = [ex[e] EXCEPT !.pc = "publish", !.clean = FALSE]
      OBVIOUS
    <2>7. /\ x \in ExType /\ x.pc = "publish" /\ x.gen = ex[e].gen /\ x.temp = ex[e].temp
          /\ x.digest = ex[e].digest /\ x.start = ex[e].start
      BY <2>6, ExecutorType, ExecutorRecord
    <2>8. FileOK(x)'
      BY <1>1, <1>2, <2>2, <2>5, <2>7 DEF FileOK, Writing, Complete, Published
    <2>9. StoreTypes'
      BY <2>2, <2>3, <2>5, TypeParts DEF DownloadInv, StoreTypes
    <2>10. DataOK' /\ PublishedFaithful'
      BY <2>2 DEF DownloadInv, DataOK, PublishedFaithful, PublishedIntact, LinkNeverDangles
    <2>11. OffsetNeverAhead'
      <3>1. data[ex[e].temp] = ex[e].digest /\ fact.temp \in {ex[e].temp, None}
        BY <1>1, <1>2 DEF FileOK, Writing
      <3>2. fact.temp \in tempNames => fact.temp = ex[e].temp
        BY <3>1, NoneIsNone DEF DownloadInv, TypeOK
      <3>3. QED
        BY <2>2, <2>5, <3>1, <3>2, ExecutorType DEF OffsetNeverAhead
    <2>12. SuccessOK' /\ ex' = [ex EXCEPT ![e] = x]
      BY <2>1, <2>3, <2>6 DEF SuccessOK
    <2>13. QED
      BY <1>2, <2>2, <2>3, <2>7, <2>8, <2>9, <2>10, <2>11, <2>12, WorkStep
  <1>6. QED
    BY <1>3, <1>5, <1>4

LEMMA ReadyKeeps ==
    ASSUME DownloadInv, NEW e \in Executors, ReadyToPublish(e)
    PROVE  DownloadInv'
  <1>1. ex[e].pc = "publish" /\ ex[e].pc \notin {"idle", "await", "final", "chunk"} \cup Leaving
    BY DEF ReadyToPublish, At, Leaving
  <1>2. CASE ~Lease(e)
    BY <1>1, <1>2, NoLease DEF ReadyToPublish, Fenced
  <1>3. CASE Lease(e)
    <2>1. Goto(e, "linkfile") /\ UNCHANGED <<row, store, loop, writing, app, crashes, sized>>
      BY <1>3 DEF ReadyToPublish, Fenced
    <2>2. ex' = [ex EXCEPT ![e] = [ex[e] EXCEPT !.pc = "linkfile", !.clean = ex[e].clean]]
      BY <2>1, GotoIs, ExecutorType
    <2>3. /\ "linkfile" \in AtWorkPcs /\ "linkfile" \notin Published
          /\ ex[e].pc \in Writing \ {"begin"} /\ ex[e].pc \in Complete
      BY <1>1 DEF AtWorkPcs, Writing, Complete, Published
    <2>4. QED
      BY <1>1, <2>1, <2>2, <2>3, GotoKeeps, ExecutorType
  <1>4. QED
    BY <1>2, <1>3

LEMMA LinkFileKeeps ==
    ASSUME DownloadInv, NEW e \in Executors, LinkFile(e)
    PROVE  DownloadInv'
  <1>1. /\ ex[e].pc = "linkfile"
        /\ UNCHANGED <<row, fact, data, tempNames, linked, indexed, loop, writing, app, crashes, sized>>
    BY DEF LinkFile, At
  <1>2. Current(e) /\ FileOK(ex[e]) /\ row.state # "succeeded" /\ loop = e /\ writing = None
    BY <1>1, AtWork DEF Leaving
  <1>3. CASE \E err \in {"target_exists", "publish_failed"} : Raise(e, err, FALSE) /\ UNCHANGED target
    <2>1. PICK err \in {"target_exists", "publish_failed"} : Raise(e, err, FALSE) /\ UNCHANGED target
      BY <1>3
    <2>2. QED
      BY <1>1, <2>1, WorkRaises DEF Errors, Leaving, store
  <1>4. CASE /\ target = None /\ target' = ex[e].temp
             /\ ex' = [ex EXCEPT ![e].pc = "unlink", ![e].published = TRUE]
    <2>1. PICK x : x = [ex[e] EXCEPT !.pc = "unlink", !.published = TRUE]
      OBVIOUS
    <2>2. /\ x \in ExType /\ x.pc = "unlink" /\ x.gen = ex[e].gen /\ x.temp = ex[e].temp
          /\ x.digest = ex[e].digest /\ x.start = ex[e].start
      BY <2>1, ExecutorType, ExecutorRecord
    <2>3. /\ ex[e].temp \in Inodes /\ data[ex[e].temp] = ex[e].digest /\ Len(ex[e].digest) > 0
          /\ sized => Len(ex[e].digest) = AssetChunks
      BY <1>1, <1>2 DEF FileOK, Writing, Complete
    <2>4. StoreTypes'
      BY <1>1, <1>4, <2>3, TypeParts DEF DownloadInv, StoreTypes
    <2>5. DataOK' /\ OffsetNeverAhead'
      BY <1>1 DEF DownloadInv, DataOK, OffsetNeverAhead
    <2>6. FileOK(x)'
      BY <1>1, <1>4, <2>2, <2>3 DEF FileOK, Writing
    <2>7. PublishedFaithful'
      <3>1. data[ex[e].temp] = Asset(Len(data[ex[e].temp]))
        BY <2>3 DEF DownloadInv, DataOK
      <3>2. PublishedIntact'
        BY <1>1, <1>4, <2>3, <3>1 DEF PublishedIntact
      <3>3. linked' = None
        BY <1>1, <1>4 DEF DownloadInv, PublishedFaithful, LinkNeverDangles
      <3>4. QED
        BY <3>2, <3>3 DEF PublishedFaithful, LinkNeverDangles
    <2>8. SuccessOK' /\ ex' = [ex EXCEPT ![e] = x]
      BY <1>1, <1>2, <1>4, <2>1, ExecutorType DEF SuccessOK
    <2>9. QED
      BY <1>1, <1>2, <2>2, <2>4, <2>5, <2>6, <2>7, <2>8, WorkStep, ExecutorType
  <1>5. QED
    BY <1>3, <1>4 DEF LinkFile

LEMMA UnlinkKeeps ==
    ASSUME DownloadInv, NEW e \in Executors, UnlinkTemp(e)
    PROVE  DownloadInv'
  <1>1. /\ ex[e].pc = "unlink" /\ tempNames' = tempNames \ {ex[e].temp} /\ Goto(e, "published")
        /\ UNCHANGED <<row, fact, data, target, linked, indexed, loop, writing, app, crashes, sized>>
    BY DEF UnlinkTemp, At
  <1>2. Current(e) /\ FileOK(ex[e]) /\ row.state # "succeeded" /\ loop = e /\ writing = None
    BY <1>1, AtWork DEF Leaving
  <1>3. PICK x : x = [ex[e] EXCEPT !.pc = "published", !.clean = ex[e].clean]
    OBVIOUS
  <1>4. /\ x \in ExType /\ x.pc = "published" /\ x.gen = ex[e].gen /\ x.temp = ex[e].temp
        /\ x.digest = ex[e].digest /\ x.start = ex[e].start
    BY <1>3, ExecutorType, ExecutorRecord
  <1>5. ex' = [ex EXCEPT ![e] = x]
    BY <1>1, <1>3, GotoIs, ExecutorType
  <1>6. StoreTypes' /\ DataOK' /\ PublishedFaithful' /\ OffsetNeverAhead'
    BY <1>1, TypeParts DEF DownloadInv, StoreTypes, DataOK, PublishedFaithful, PublishedIntact,
                           LinkNeverDangles, OffsetNeverAhead
  <1>7. FileOK(x)' /\ SuccessOK'
    BY <1>1, <1>2, <1>4 DEF FileOK, Writing, Complete, Published, SuccessOK
  <1>8. QED
    BY <1>1, <1>2, <1>4, <1>5, <1>6, <1>7, WorkStep, ExecutorType

LEMMA PublishedKeeps ==
    ASSUME DownloadInv, NEW e \in Executors, CommitPublished(e)
    PROVE  DownloadInv'
  <1>1. ex[e].pc = "published"
    BY DEF CommitPublished, At
  <1>2. Current(e) /\ FileOK(ex[e]) /\ row.state # "succeeded" /\ loop = e /\ writing = None
    BY <1>1, AtWork DEF Leaving
  <1>3. CASE ~Lease(e)
    BY <1>1, <1>3, NoLease DEF CommitPublished, Fenced, Leaving
  <1>4. CASE Lease(e)
    <2>1. /\ ex' = [ex EXCEPT ![e] = [ex[e] EXCEPT !.pc = "link", !.clean = FALSE]]
          /\ row' = HeartbeatRow(row, "published")
      BY <1>4, ProgressIs, ExecutorType DEF CommitPublished, Fenced
    <2>2. /\ fact' = [temp |-> None, offset |-> Len(ex[e].digest)]
          /\ UNCHANGED <<data, tempNames, target, linked, indexed, loop, writing, app, crashes, sized>>
      BY <1>4 DEF CommitPublished, Fenced
    <2>3. row' \in RowType /\ row'.gen = row.gen /\ row'.state # "succeeded"
      BY <1>2, <2>1, OtherRowsKeep, ExecutorType DEF Stages, RecoveryReviewStages
    <2>4. fact' \in [temp : Inodes \cup {None}, offset : Nat] /\ fact'.temp = None
      BY <2>2, ExecutorType
    <2>5. PICK x : x = [ex[e] EXCEPT !.pc = "link", !.clean = FALSE]
      OBVIOUS
    <2>6. /\ x \in ExType /\ x.pc = "link" /\ x.gen = ex[e].gen /\ x.temp = ex[e].temp
          /\ x.digest = ex[e].digest /\ x.start = ex[e].start
      BY <2>5, ExecutorType, ExecutorRecord
    <2>7. StoreTypes' /\ DataOK' /\ PublishedFaithful'
      BY <2>2, <2>3, <2>4, TypeParts DEF DownloadInv, StoreTypes, DataOK, PublishedFaithful,
                                         PublishedIntact, LinkNeverDangles
    <2>8. OffsetNeverAhead'
      BY <2>2, <2>4, NoneIsNone DEF OffsetNeverAhead, DownloadInv, TypeOK
    <2>9. FileOK(x)' /\ SuccessOK'
      BY <1>1, <1>2, <2>2, <2>3, <2>6 DEF FileOK, Writing, Complete, Published, SuccessOK
    <2>10. ex' = [ex EXCEPT ![e] = x]
      BY <2>1, <2>5
    <2>11. QED
      BY <1>2, <2>2, <2>3, <2>6, <2>7, <2>8, <2>9, <2>10, WorkStep
  <1>5. QED
    BY <1>3, <1>4

LEMMA LinkedKeeps ==
    ASSUME DownloadInv, NEW e \in Executors, CommitLinked(e)
    PROVE  DownloadInv'
  <1>1. ex[e].pc = "link" /\ ex[e].pc \notin {"idle", "await", "final", "chunk"} \cup Leaving
    BY DEF CommitLinked, At, Leaving
  <1>2. Current(e) /\ FileOK(ex[e]) /\ row.state # "succeeded" /\ loop = e /\ writing = None
    BY <1>1, AtWork
  <1>3. CASE ~Lease(e)
    BY <1>1, <1>3, NoLease DEF CommitLinked, Fenced
  <1>4. CASE Lease(e) /\ linked # None
    <2>1. Raise(e, "link_failed", FALSE) /\ UNCHANGED <<row, store, loop, writing, app, crashes, sized>>
      BY <1>4 DEF CommitLinked, Fenced
    <2>2. QED
      BY <1>1, <2>1, WorkRaises DEF Errors
  <1>5. CASE Lease(e) /\ linked = None
    <2>1. /\ ex' = [ex EXCEPT ![e] = [ex[e] EXCEPT !.pc = "prove_link", !.clean = FALSE]]
          /\ row' = HeartbeatRow(row, "db_linked")
      BY <1>5, ProgressIs, ExecutorType DEF CommitLinked, Fenced
    <2>2. /\ linked' = ex[e].digest
          /\ UNCHANGED <<fact, data, tempNames, target, indexed, loop, writing, app, crashes, sized>>
      BY <1>5 DEF CommitLinked, Fenced
    <2>3. row' \in RowType /\ row'.gen = row.gen /\ row'.state # "succeeded"
      BY <1>2, <2>1, OtherRowsKeep, ExecutorType DEF Stages, RecoveryReviewStages
    <2>4. PICK x : x = [ex[e] EXCEPT !.pc = "prove_link", !.clean = FALSE]
      OBVIOUS
    <2>5. /\ x \in ExType /\ x.pc = "prove_link" /\ x.gen = ex[e].gen /\ x.temp = ex[e].temp
          /\ x.digest = ex[e].digest /\ x.start = ex[e].start
      BY <2>4, ExecutorType, ExecutorRecord
    <2>6. ex[e].temp \in Inodes /\ target = ex[e].temp /\ data[target] = ex[e].digest
      BY <1>1, <1>2 DEF FileOK, Published
    <2>7. StoreTypes' /\ DataOK' /\ OffsetNeverAhead'
      BY <2>2, <2>3, TypeParts, ExecutorType DEF DownloadInv, StoreTypes, DataOK, OffsetNeverAhead
    <2>8. PublishedFaithful'
      <3>1. PublishedIntact'
        BY <2>2 DEF DownloadInv, PublishedFaithful, PublishedIntact
      <3>2. LinkNeverDangles'
        BY <2>2, <2>6, NoneIsNone DEF LinkNeverDangles
      <3>3. QED
        BY <3>1, <3>2 DEF PublishedFaithful
    <2>9. FileOK(x)' /\ SuccessOK'
      BY <1>1, <1>2, <2>2, <2>3, <2>5 DEF FileOK, Writing, Complete, Published, SuccessOK
    <2>10. ex' = [ex EXCEPT ![e] = x]
      BY <2>1, <2>4
    <2>11. QED
      BY <1>2, <2>2, <2>3, <2>5, <2>7, <2>8, <2>9, <2>10, WorkStep
  <1>6. QED
    BY <1>3, <1>4, <1>5

\* The two proofs: on to pc with everything proved, or out.
LEMMA ProvingKeeps ==
    ASSUME DownloadInv, NEW e \in Executors, NEW indexToo \in BOOLEAN, NEW pc \in {"index", "success"},
           ex[e].pc \in {"prove_link", "prove_index"},
           pc = "success" => indexToo, Proving(e, StateProved(e, indexToo), pc)
    PROVE  DownloadInv'
  <1>1. /\ ex[e].pc \notin {"idle", "await", "final", "chunk"} \cup Leaving
        /\ ex[e].pc \in Published /\ ex[e].pc \in Complete
    BY DEF Leaving, Published, Complete
  <1>2. UNCHANGED <<row, store, loop, writing, app, crashes, sized>>
    BY DEF Proving
  <1>3. CASE \E err \in {LeaseError, "unknown"}, proof \in BOOLEAN : Raise(e, err, proof)
    <2>1. PICK err \in {LeaseError, "unknown"}, proof \in BOOLEAN : Raise(e, err, proof)
      BY <1>3
    <2>2. err \in Errors
      BY <2>1, LeaseErrorIs DEF Errors
    <2>3. QED
      BY <1>1, <1>2, <2>1, <2>2, WorkRaises
  <1>4. CASE StateProved(e, indexToo) /\ Goto(e, pc)
    <2>1. ex' = [ex EXCEPT ![e] = [ex[e] EXCEPT !.pc = pc, !.clean = ex[e].clean]]
      BY <1>4, GotoIs, ExecutorType
    <2>2. pc \in AtWorkPcs /\ pc \notin Writing /\ pc # "opening"
      BY DEF AtWorkPcs, Writing
    <2>3. pc = "success" => StateProved(e, TRUE)
      BY <1>4 DEF StateProved
    <2>4. QED
      BY <1>1, <1>2, <2>1, <2>2, <2>3, GotoKeeps, ExecutorType
  <1>5. QED
    BY <1>3, <1>4 DEF Proving

LEMMA SyncIndexKeeps ==
    ASSUME DownloadInv, NEW e \in Executors, NEW ok \in BOOLEAN, SyncIndex(e, ok)
    PROVE  DownloadInv'
  <1>1. /\ ex[e].pc = "index" /\ indexed' = (ok /\ target # None) /\ Goto(e, "indexed")
        /\ UNCHANGED <<row, fact, data, tempNames, target, linked, loop, writing, app, crashes, sized>>
    BY DEF SyncIndex, At
  <1>2. Current(e) /\ FileOK(ex[e]) /\ row.state # "succeeded" /\ loop = e /\ writing = None
    BY <1>1, AtWork DEF Leaving
  <1>3. PICK x : x = [ex[e] EXCEPT !.pc = "indexed", !.clean = ex[e].clean]
    OBVIOUS
  <1>4. /\ x \in ExType /\ x.pc = "indexed" /\ x.gen = ex[e].gen /\ x.temp = ex[e].temp
        /\ x.digest = ex[e].digest /\ x.start = ex[e].start
    BY <1>3, ExecutorType, ExecutorRecord
  <1>5. ex' = [ex EXCEPT ![e] = x]
    BY <1>1, <1>3, GotoIs, ExecutorType
  <1>6. StoreTypes'
    <2>1. indexed' \in BOOLEAN
      BY <1>1
    <2>2. QED
      BY <1>1, <2>1, TypeParts DEF DownloadInv, StoreTypes
  <1>7. DataOK' /\ PublishedFaithful' /\ OffsetNeverAhead'
    BY <1>1 DEF DownloadInv, DataOK, PublishedFaithful, PublishedIntact, LinkNeverDangles, OffsetNeverAhead
  <1>8. FileOK(x)' /\ SuccessOK'
    BY <1>1, <1>2, <1>4 DEF FileOK, Writing, Complete, Published, SuccessOK
  <1>9. QED
    BY <1>1, <1>2, <1>4, <1>5, <1>6, <1>7, <1>8, WorkStep, ExecutorType

LEMMA CommitIndexedKeeps ==
    ASSUME DownloadInv, NEW e \in Executors, CommitIndexed(e)
    PROVE  DownloadInv'
  <1>1. /\ ex[e].pc = "indexed" /\ ex[e].pc \notin {"idle", "await", "final", "chunk"} \cup Leaving
        /\ ex[e].pc \in Published /\ ex[e].pc \in Complete
    BY DEF CommitIndexed, At, Leaving, Published, Complete
  <1>2. CASE ~Lease(e)
    BY <1>1, <1>2, NoLease DEF CommitIndexed, Fenced
  <1>3. CASE Lease(e)
    <2>1. /\ ex' = [ex EXCEPT ![e] = [ex[e] EXCEPT !.pc = "prove_index", !.clean = FALSE]]
          /\ row' = HeartbeatRow(row, "index_coordinated")
      BY <1>3, ProgressIs, ExecutorType DEF CommitIndexed, Fenced
    <2>2. UNCHANGED <<store, loop, writing, app, crashes, sized>>
      BY <1>3 DEF CommitIndexed, Fenced
    <2>3. "prove_index" \in AtWorkPcs /\ "prove_index" \notin Writing /\ "index_coordinated" \in Stages
      BY DEF AtWorkPcs, Writing, Stages, RecoveryReviewStages
    <2>4. QED
      BY <1>1, <2>1, <2>2, <2>3, GotoKeeps
  <1>4. QED
    BY <1>2, <1>3

LEMMA CommitSuccessKeeps ==
    ASSUME DownloadInv, NEW e \in Executors, CommitSuccess(e)
    PROVE  DownloadInv'
  <1>1. ex[e].pc = "success" /\ UNCHANGED <<store, loop, writing, app, crashes, sized>>
    BY DEF CommitSuccess, At
  <1>2. Current(e) /\ FileOK(ex[e]) /\ row.state # "succeeded" /\ loop = e /\ writing = None
    BY <1>1, AtWork DEF Leaving
  <1>3. CASE Raise(e, "error", TRUE) /\ UNCHANGED row
    BY <1>1, <1>3, WorkRaises DEF Errors, Leaving
  <1>4. CASE /\ row' = [TransitionRow(row, "succeeded") EXCEPT !.stage = "durable_verified"]
             /\ Goto(e, "final")
    <2>1. PICK r \in RowType : r = TransitionRow(row, "succeeded") /\ r.gen = row.gen /\ r.state = "succeeded"
      BY TransitionRowKeeps, ExecutorType DEF TaskState
    <2>2. row' \in RowType /\ row'.gen = row.gen
      BY <1>4, <2>1 DEF RowType, Stages, RecoveryReviewStages
    <2>3. PICK x : x = [ex[e] EXCEPT !.pc = "final", !.clean = ex[e].clean]
      OBVIOUS
    <2>4. x \in ExType /\ x.pc = "final" /\ x.gen = ex[e].gen
      BY <2>3, ExecutorType, ExecutorRecord
    <2>5. ex' = [ex EXCEPT ![e] = x]
      BY <1>4, <2>3, GotoIs, ExecutorType
    <2>6. UNCHANGED <<fact, data, tempNames, target, linked, indexed, app, crashes, sized>>
      BY <1>1 DEF store
    <2>7. StoreTypes' /\ DataOK' /\ PublishedFaithful' /\ OffsetNeverAhead'
      BY <2>2, <2>6, TypeParts DEF DownloadInv, StoreTypes, DataOK, PublishedFaithful, PublishedIntact,
                                   LinkNeverDangles, OffsetNeverAhead
    <2>8. FileOK(x)'
      BY <2>4 DEF FileOK, Writing, Complete, Published
    <2>9. SuccessOK'
      <3>1. StateProved(e, TRUE)
        BY <1>1 DEF DownloadInv, ProofOK
      <3>2. data[target] = ex[e].digest
        BY <1>1, <1>2 DEF FileOK, Published
      <3>3. SuccessIsProved'
        BY <2>6, <3>1, <3>2 DEF StateProved, FileProved, SuccessIsProved
      <3>4. \A f \in Executors : f # e => ex[f].pc \in Resting
        BY <1>2 DEF DownloadInv, LoopOK
      <3>5. \A f \in Executors : ex'[f] = IF f = e THEN x ELSE ex[f]
        BY <2>5, ExecutorType
      <3>6. QED
        BY <2>4, <3>3, <3>4, <3>5 DEF SuccessOK, Resting
    <2>10. QED
      BY <1>1, <1>2, <2>2, <2>4, <2>5, <2>7, <2>8, <2>9, WorkStep
  <1>5. QED
    BY <1>3, <1>4 DEF CommitSuccess

----------------------------------------------------------------------------
(* The invariant *)

LEMMA InitDownloadInv == Init => DownloadInv
  <1> SUFFICES ASSUME Init PROVE DownloadInv
    OBVIOUS
  <1>1. row.state = "queued" /\ NewRow("queued") \in RowType
    BY DEF Init, NewRow, RowType, TaskState, Stages
  <1>2. ex \in [Executors -> ExType] /\ \A e \in Executors : ex[e].pc = "idle"
    BY FreshType DEF Init
  <1>3. fact \in [temp : Inodes \cup {None}, offset : Nat] /\ fact.temp = None
    BY DEF Init
  <1>4. data \in [Inodes -> Seq(Nat)] /\ \A i \in Inodes : data[i] = << >>
    BY DEF Init
  <1>5. TypeOK
    <2>1. StoreTypes
      <3>1. sized \in BOOLEAN
        BY SizesDeclaredAssumption DEF Init
      <3>2. crashes \in 0..MaxCrashes
        BY BoundsAssumption DEF Init
      <3>3. indexed \in BOOLEAN /\ app = "up" /\ tempNames = {} /\ target = None /\ linked = None
        BY DEF Init
      <3>4. row \in RowType
        BY <1>1 DEF Init
      <3>5. QED
        BY <1>3, <1>4, <3>1, <3>2, <3>3, <3>4 DEF StoreTypes
    <2>2. QED
      BY <1>2, <2>1, TypeParts DEF Init
  <1>6. LoopOK /\ GenerationsOK /\ FilesOK /\ ProofOK
    BY <1>2 DEF Init, LoopOK, GenerationsOK, FilesOK, ProofOK, Current, Resting
  <1>7. DataOK
    BY <1>4, AssetFacts DEF DataOK
  <1>8. OffsetNeverAhead /\ PublishedFaithful
    BY <1>3 DEF Init, OffsetNeverAhead, PublishedFaithful, PublishedIntact, LinkNeverDangles
  <1>9. SuccessOK
    BY <1>1 DEF SuccessOK
  <1>10. QED
    BY <1>5, <1>6, <1>7, <1>8, <1>9 DEF DownloadInv

LEMMA ExecutorKeeps ==
    ASSUME DownloadInv, NEW e \in Executors, ExecutorStep(e)
    PROVE  DownloadInv'
  <1>1. ProveLink(e) => DownloadInv'
    BY ProvingKeeps DEF ProveLink, At
  <1>2. ProveIndex(e) => DownloadInv'
    BY ProvingKeeps DEF ProveIndex, At
  <1>3. Answers \subseteq BOOLEAN
    BY DEF Answers
  <1>4. QED
    BY <1>1, <1>2, <1>3, PreflightKeeps, OpenKeeps, ReopenKeeps, BeginKeeps, ReceiveKeeps, CommitChunkKeeps,
       StreamEndsKeeps, ProviderFailsKeeps, VerifiedKeeps, ReadyKeeps, LinkFileKeeps, UnlinkKeeps,
       PublishedKeeps, LinkedKeeps, SyncIndexKeeps, CommitIndexedKeeps, CommitSuccessKeeps,
       FinalProofKeeps, SomethingRaisesKeeps, ProveOutcomeKeeps, ReadTaskKeeps, RemoveTempKeeps, StopKeeps, ClearFactKeeps
       DEF ExecutorStep

LEMMA NextDownloadInv == DownloadInv /\ [Next]_vars => DownloadInv'
  <1> SUFFICES ASSUME DownloadInv, [Next]_vars PROVE DownloadInv'
    OBVIOUS
  <1>1. CASE UNCHANGED vars
    <2>1. UNCHANGED <<row, store, ex, loop, writing, app, crashes, sized>>
      BY <1>1 DEF vars
    <2>2. row \in RowType /\ app \in {"up", "down", "failed"}
      BY TypeParts DEF DownloadInv, StoreTypes
    <2>3. QED
      BY <2>1, <2>2, RowStep
  <1>2. QED
    BY <1>1, ExecutorKeeps, StartKeeps, RequestsKeep, CrashKeeps, RestartKeeps DEF Next

LEMMA DownloadInvHolds == Spec => []DownloadInv
  BY InitDownloadInv, NextDownloadInv, PTL DEF Spec

\* Every variable has its type; the write lock is held by the execution that
\* holds the event loop (execute()).
THEOREM DownloadTyped == Spec => []TypeOK
  BY DownloadInvHolds, PTL DEF DownloadInv

\* What is published is an unbroken beginning of the asset, all of it when its
\* size is declared, and what is linked is what is published, for any number of
\* executions, crashes and restarts (_write_fenced_chunk, os.link).
THEOREM PublicationsAreFaithful == Spec => []PublishedFaithful
  BY DownloadInvHolds, PTL DEF DownloadInv

\* A resume cannot skip bytes: the recorded offset is never ahead of the file.
THEOREM OffsetsAreNeverAhead == Spec => []OffsetNeverAhead
  BY DownloadInvHolds, PTL DEF DownloadInv

\* A SUCCEEDED task has its file published, linked and indexed, whoever else was
\* executing it and whatever crashed (_verify_download_committed_state).
THEOREM SuccessesAreProved == Spec => []SuccessIsProved
  <1>1. DownloadInv => SuccessIsProved
    BY DEF DownloadInv, SuccessOK, SuccessIsProved
  <1>2. QED
    BY <1>1, DownloadInvHolds, PTL
=============================================================================
