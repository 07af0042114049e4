--------------------------- MODULE MediaDirectories ---------------------------
(***************************************************************************)
(* Creating, renaming (or moving) and deleting media directories              *)
(* (services/media_directory_management.py), under the media operation lock:   *)
(* one operation at a time, beside page edits of covers and avatars, which      *)
(* take no media lock, and other programs.  A rename cannot be atomic with its   *)
(* reference updates; BEGIN IMMEDIATE holds other writers off until the commit,   *)
(* and a raising commit is looked at from a new session before the name is taken  *)
(* back.                                                                     *)
(*                                                                          *)
(* Two names of one parent.  A directory is a number (device and inode); its       *)
(* manifest is a version, 0 when empty.                                        *)
(***************************************************************************)
EXTENDS Naturals, FiniteSets

CONSTANTS
    DirRef,         \* items and creators with a cover or avatar
    MaxDirs,        \* bound: directories ever made
    MaxManifest,    \* bound: changes of a directory's files
    MaxConfirms     \* bound: confirmed operations

ASSUME DirAssumption == {MaxDirs, MaxManifest, MaxConfirms} \subseteq Nat /\ MaxDirs > 0

DirName == {"A", "B"}
Dirs == 1..MaxDirs
NoDir == 0
Operation == {"create", "rename", "delete"}

VARIABLES
    dirs,       \* the directory each name leads to
    files,      \* its manifest
    refs,       \* the directory name each object's path goes through, or "none"
    pend,       \* page edits: validated and not yet committed
    token,      \* the last signed preview
    dop,        \* the running operation
    dbLock,     \* BEGIN IMMEDIATE is held by the operation
    dindex,     \* media index: usable, and the names it lists
    confirms,   \* how many operations were confirmed
    raced,      \* history: references assigned across a move of their directory
    doubted,    \* history: an outcome was unknown, or the process stopped
    drift       \* history: the index was left behind by others or by a failure

dirVars == <<dirs, files, refs, pend, token, dop, dbLock, dindex, confirms, raced, doubted, drift>>

NoOp == [pc |-> "idle"]
NoToken == [operation |-> "none"]
OpAt(pc) == dop.pc = pc
Other(n) == CHOOSE m \in DirName : m # n
Manifest(d) == IF d = NoDir THEN 0 ELSE files[d]
Resolves(n) == dirs[n] # NoDir /\ Manifest(dirs[n]) # 0
RefsIn(n) == {o \in DirRef : refs[o] = n}

----------------------------------------------------------------------------
(* Preview                                                                  *)

\* A snapshot exists only when the target name is free, and for a deletion only
\* of an empty directory nothing refers to.
Snapshot(operation, source) ==
    [operation |-> operation, source |-> source, dir |-> dirs[source],
     manifest |-> Manifest(dirs[source]), refs |-> RefsIn(source)]

SnapshotValid(operation, source) ==
    CASE operation = "create" -> dirs[source] = NoDir
      [] operation = "rename" -> dirs[source] # NoDir /\ dirs[Other(source)] = NoDir
      [] operation = "delete" -> /\ dirs[source] # NoDir /\ Manifest(dirs[source]) = 0
                                 /\ RefsIn(source) = {}

PreviewDirectory(operation, source) ==
    /\ confirms < MaxConfirms
    /\ SnapshotValid(operation, source)
    /\ token' = Snapshot(operation, source)
    /\ UNCHANGED <<dirs, files, refs, pend, dop, dbLock, dindex, confirms, raced, doubted, drift>>

----------------------------------------------------------------------------
(* execute_directory_mutation                                               *)

Fresh == /\ SnapshotValid(token.operation, token.source)
         /\ Snapshot(token.operation, token.source) = token

Told(outcome) == dop' = [dop EXCEPT !.pc = "told", !.outcome = outcome]

\* Decode, begin a write transaction (not for create), look again.
ConfirmDirectory ==
    /\ OpAt("idle") /\ token # NoToken /\ confirms < MaxConfirms
    /\ confirms' = confirms + 1
    /\ dop' = [snap |-> token, before |-> dirs, outcome |-> IF Fresh THEN "none" ELSE "rejected",
               pc |-> IF Fresh THEN token.operation ELSE "told"]
    /\ dbLock' = (Fresh /\ token.operation # "create")
    /\ token' = NoToken
    /\ UNCHANGED <<dirs, files, refs, pend, dindex, raced, doubted, drift>>

\* mkdir, stat, open and fsync; whatever fails after mkdir is partly known.
MakeDirectory ==
    LET n == dop.snap.source
        unused == {d \in Dirs : (\A m \in DirName : dirs[m] # d) /\ files[d] = 0}
    IN  /\ OpAt("create") /\ unused # {}
        /\ IF dirs[n] # NoDir
           THEN Told("unknown") /\ UNCHANGED dirs
           ELSE /\ dirs' = [dirs EXCEPT ![n] = CHOOSE d \in unused : TRUE]
                /\ \E outcome \in {"committed", "partial"} : Told(outcome)
        /\ UNCHANGED <<files, refs, pend, token, dbLock, dindex, confirms, raced, doubted, drift>>

\* rmdir refuses a directory that is not empty any more.
RemoveDirectory ==
    LET n == dop.snap.source
    IN  /\ OpAt("delete")
        /\ dbLock' = FALSE
        /\ IF Manifest(dirs[n]) # 0
           THEN Told("unknown") /\ UNCHANGED <<dirs, raced>>
           ELSE /\ dirs' = [dirs EXCEPT ![n] = NoDir]
                /\ raced' = raced \cup {o \in DirRef : pend[o] = n}
                /\ \/ Told("committed")
                   \/ dop' = [dop EXCEPT !.pc = "inspectDelete"]
        /\ UNCHANGED <<files, refs, pend, token, dindex, confirms, doubted, drift>>

\* _independent_delete_outcome after a failing sync or commit.
InspectDelete ==
    LET n == dop.snap.source
    IN  /\ OpAt("inspectDelete")
        /\ \/ Told(IF RefsIn(n) = {} /\ dirs[n] = NoDir THEN "partial" ELSE "unknown")
           \/ Told("unknown")
        /\ UNCHANGED <<dirs, files, refs, pend, token, dbLock, dindex, confirms, raced, doubted, drift>>

\* renameat2 with RENAME_NOREPLACE; an occupied target ends the operation.
MoveTo(from, to) == dirs' = [dirs EXCEPT ![from] = NoDir, ![to] = dirs[from]]

RenameDirectory ==
    LET n == dop.snap.source
    IN  /\ OpAt("rename")
        /\ IF dirs[Other(n)] # NoDir
           THEN Told("rejected") /\ dbLock' = FALSE /\ UNCHANGED <<dirs, raced>>
           ELSE /\ MoveTo(n, Other(n))
                /\ raced' = raced \cup {o \in DirRef : pend[o] \in DirName}
                /\ dop' = [dop EXCEPT !.pc = "moved"]
                /\ UNCHANGED dbLock
        /\ UNCHANGED <<files, refs, pend, token, dindex, confirms, doubted, drift>>

MovedRefs(snap) == [o \in DirRef |-> IF o \in snap.refs THEN Other(snap.source) ELSE refs[o]]

\* Reference updates and commit: done (the last sync may fail), failed, or lost.
CommitReferences ==
    /\ OpAt("moved")
    /\ dbLock' = FALSE
    /\ \/ /\ refs' = MovedRefs(dop.snap)
          /\ \/ \E outcome \in {"committed", "partial"} : Told(outcome)
             \/ dop' = [dop EXCEPT !.pc = "inspect"]
       \/ refs' = refs /\ dop' = [dop EXCEPT !.pc = "inspect"]
    /\ UNCHANGED <<dirs, files, pend, token, dindex, confirms, raced, doubted, drift>>

\* _independent_outcome: both names, every reference of the plan, and no others.
DirHolds(n) == dirs[n] = dop.snap.dir /\ Manifest(dirs[n]) = dop.snap.manifest
Missing(n) == dirs[n] = NoDir

IndependentOutcomeMutant(source, target) ==
    IF (RefsIn(source) \cup RefsIn(target)) \ dop.snap.refs # {} THEN "unknown"
    ELSE IF DirHolds(target) /\ Missing(source) THEN "not_committed" ELSE "unknown"
IndependentOutcome(source, target) ==
    IF (RefsIn(source) \cup RefsIn(target)) \ dop.snap.refs # {} THEN "unknown"
    ELSE IF dop.snap.refs \subseteq RefsIn(target) /\ DirHolds(target) /\ Missing(source)
         THEN "committed_after_error"
    ELSE IF /\ dop.snap.refs \subseteq RefsIn(source)
            /\ \/ DirHolds(target) /\ Missing(source)
               \/ DirHolds(source) /\ Missing(target)
         THEN "not_committed"
    ELSE "unknown"

InspectRename ==
    LET outcome == IndependentOutcome(dop.snap.source, Other(dop.snap.source))
    IN  /\ OpAt("inspect")
        /\ \/ IF outcome = "not_committed" THEN dop' = [dop EXCEPT !.pc = "back"] ELSE Told(outcome)
           \/ Told("unknown")
        /\ UNCHANGED <<dirs, files, refs, pend, token, dbLock, dindex, confirms, raced, doubted, drift>>

BackOutcomes(renamed) == IF renamed THEN {"rolled_back", "unknown"} ELSE {"unknown"}

\* The name is taken back without the write lock.
RenameBack ==
    LET n == dop.snap.source
        free == dirs[n] = NoDir /\ dirs[Other(n)] # NoDir
    IN  /\ OpAt("back")
        /\ IF free
           THEN /\ MoveTo(Other(n), n)
                /\ raced' = raced \cup {o \in DirRef : pend[o] \in DirName}
           ELSE UNCHANGED <<dirs, raced>>
        /\ \E outcome \in BackOutcomes(free) : Told(outcome)
        /\ UNCHANGED <<files, refs, pend, token, dbLock, dindex, confirms, doubted, drift>>

----------------------------------------------------------------------------
(* Index coordination                                                       *)

\* classify_directory_result and _classify_directory_error.
FilesystemOutcome(outcome) ==
    CASE outcome \in {"committed", "committed_after_error", "partial"} -> "changed"
      [] outcome = "unknown" -> "unknown"
      [] OTHER -> "no_change"

\* Refresh or invalidate; a lost media lock turns any outcome into unknown, a
\* failing refresh into an invalidation, and a failing invalidation is reported.
CoordinateDirectory ==
    /\ OpAt("told")
    /\ dop' = NoOp
    /\ \E seen \in {FilesystemOutcome(dop.outcome), "unknown"}, scans, marks \in BOOLEAN :
          LET refreshed == seen = "changed" /\ scans
          IN  /\ dindex' = CASE seen = "no_change" -> dindex
                             [] refreshed -> [valid |-> TRUE, names |-> dirs]
                             [] OTHER -> IF marks THEN [dindex EXCEPT !.valid = FALSE] ELSE dindex
              /\ drift' = CASE refreshed -> FALSE
                            [] seen = "no_change" -> drift
                            [] OTHER -> drift \/ ~marks
    /\ doubted' = (doubted \/ dop.outcome = "unknown")
    /\ UNCHANGED <<dirs, files, refs, pend, token, dbLock, confirms, raced>>

----------------------------------------------------------------------------
(* Beside it                                                                *)

\* A page validates the path first and writes it when the database lets it.
PageValidate(o, n) ==
    /\ pend[o] = "none"
    /\ Resolves(n)
    /\ pend' = [pend EXCEPT ![o] = n]
    /\ UNCHANGED <<dirs, files, refs, token, dop, dbLock, dindex, confirms, raced, doubted, drift>>

PageCommit(o) ==
    /\ pend[o] # "none" /\ ~dbLock
    /\ refs' = [refs EXCEPT ![o] = pend[o]]
    /\ pend' = [pend EXCEPT ![o] = "none"]
    /\ raced' = IF o \in raced \/ OpAt("back") THEN raced \cup {o} ELSE raced
    /\ UNCHANGED <<dirs, files, token, dop, dbLock, dindex, confirms, doubted, drift>>

PageClear(o) ==
    /\ refs[o] # "none" /\ ~dbLock
    /\ refs' = [refs EXCEPT ![o] = "none"]
    /\ raced' = IF pend[o] = "none" THEN raced \ {o} ELSE raced
    /\ UNCHANGED <<dirs, files, pend, token, dop, dbLock, dindex, confirms, doubted, drift>>

\* Other programs add files, empty what nothing refers to, and make directories.
TouchFiles(n) ==
    /\ dirs[n] # NoDir
    /\ \/ files[dirs[n]] < MaxManifest /\ files' = [files EXCEPT ![dirs[n]] = @ + 1]
       \/ /\ \A o \in DirRef : refs[o] = "none" /\ pend[o] = "none"
          /\ files[dirs[n]] # 0
          /\ files' = [files EXCEPT ![dirs[n]] = 0]
    /\ UNCHANGED <<dirs, refs, pend, token, dop, dbLock, dindex, confirms, raced, doubted, drift>>

Occupy(n) ==
    LET unused == {d \in Dirs : (\A m \in DirName : dirs[m] # d) /\ files[d] = 0}
    IN  /\ dirs[n] = NoDir /\ unused # {}
        /\ dirs' = [dirs EXCEPT ![n] = CHOOSE d \in unused : TRUE]
        /\ drift' = TRUE
        /\ UNCHANGED <<files, refs, pend, token, dop, dbLock, dindex, confirms, raced, doubted>>

\* The process stops: the transaction is gone, the names stay as they are.
CrashDirectory ==
    /\ ~OpAt("idle")
    /\ dop' = NoOp
    /\ dbLock' = FALSE
    /\ pend' = [o \in DirRef |-> "none"]
    /\ doubted' = TRUE /\ drift' = TRUE
    /\ UNCHANGED <<dirs, files, refs, token, dindex, confirms, raced>>

DirInit ==
    /\ dirs \in {[A |-> 1, B |-> NoDir], [A |-> NoDir, B |-> NoDir]}
    /\ files = [d \in Dirs |-> IF d = 1 THEN 1 ELSE 0]
    /\ refs \in {r \in [DirRef -> {"A", "none"}] : \A o \in DirRef : r[o] = "A" => dirs["A"] = 1}
    /\ pend = [o \in DirRef |-> "none"]
    /\ token = NoToken
    /\ dop = NoOp
    /\ dbLock = FALSE
    /\ dindex = [valid |-> TRUE, names |-> dirs]
    /\ confirms = 0
    /\ raced = {} /\ doubted = FALSE /\ drift = FALSE

DirNext ==
    \/ \E operation \in Operation, n \in DirName : PreviewDirectory(operation, n)
    \/ ConfirmDirectory \/ MakeDirectory \/ RemoveDirectory \/ InspectDelete
    \/ RenameDirectory \/ CommitReferences \/ InspectRename \/ RenameBack
    \/ CoordinateDirectory \/ CrashDirectory
    \/ \E o \in DirRef :
          PageCommit(o) \/ PageClear(o) \/ (\E n \in DirName : PageValidate(o, n))
    \/ \E n \in DirName : TouchFiles(n) \/ Occupy(n)

DirSpec == DirInit /\ [][DirNext]_dirVars

----------------------------------------------------------------------------
(* Properties                                                               *)

\* Two names never lead to one directory, and the write lock is held exactly from
\* the final look to the commit (BEGIN IMMEDIATE in execute_directory_mutation).
DirTypeOK ==
    /\ \A n \in DirName : dirs[n] \in Dirs \cup {NoDir}
    /\ dirs["A"] = dirs["B"] => dirs["A"] = NoDir
    /\ \A o \in DirRef : {refs[o], pend[o]} \subseteq DirName \cup {"none"}
    /\ dbLock <=> dop.pc \in {"rename", "moved", "delete"}

\* Between operations every reference leads to a file, whatever failed, except
\* one that was assigned across a move, or after an outcome told as unknown.
StableRefsResolve ==
    OpAt("idle") /\ ~doubted =>
        \A o \in DirRef \ raced : refs[o] # "none" => Resolves(refs[o])

\* What the user is told of a rename is what became of the directory: committed
\* is at the target with its references, rolled back or rejected is where it was.
DirOutcomeTruthful ==
    OpAt("told") /\ dop.snap.operation = "rename" =>
        CASE dop.outcome \in {"committed", "committed_after_error", "partial"} ->
                /\ dirs[Other(dop.snap.source)] = dop.snap.dir
                /\ dop.snap.refs \cap RefsIn(dop.snap.source) # {} /\ raced = {} =>
                      Resolves(dop.snap.source)
          [] dop.outcome \in {"rolled_back", "rejected"} ->
                \A n \in DirName : dop.before[n] # NoDir => dirs[n] = dop.before[n]
          [] OTHER -> TRUE

\* A usable index lists the names that are there: every outcome is synchronized
\* or invalidates it, unless the invalidation failed or others changed the names.
DirIndexFaithful == OpAt("idle") /\ dindex.valid /\ ~drift => dindex.names = dirs

\* Directory, references, index and answer of a directory operation agree after
\* it, though no transaction spans them and each of its steps may fail.
DirectoriesFaithful == StableRefsResolve /\ DirOutcomeTruthful /\ DirIndexFaithful
=============================================================================
