---------------------------- MODULE LibraryProofs ----------------------------
(***************************************************************************)
(* The parts that work on the media library, each by an inductive           *)
(* invariant of its own, and last the library they make together.          *)
(*                                                                         *)
(* Lock: which objects each process has flocked (LockInv).                 *)
(*                                                                         *)
(* Local workflow: what the one execution knows of its file, its link and   *)
(* its proof at each step, and what of that the rows keep (LocalInv).      *)
(*                                                                         *)
(* Index: a row says what the version it was made from held, so does the   *)
(* copy a refresh works on, and only a commit replaces the rows (IndexInv).*)
(*                                                                         *)
(* Uploads: what an upload takes for known lies under its name, and its    *)
(* temporary holds what is wanted, unless others put something else there  *)
(* (UploadInv).                                                            *)
(*                                                                         *)
(* Directories: where a directory under way is, and where a reference to   *)
(* it may lead at each step of its rename (DirInv).                        *)
(***************************************************************************)
EXTENDS MCLibrary, TLAPS, WellFoundedInduction

----------------------------------------------------------------------------
(* The media operation lock                                                *)

Opened == [pc : {"opened", "dir", "file", "inside"}, dir : Objects, file : Objects]

LockTypes ==
    /\ objects \in Objects /\ lockDir \in Objects
    /\ lockFile \in [Objects -> Objects \cup {0}]
    /\ flocked \subseteq Objects \X Proc
    /\ holder \in [Proc -> {Outside} \cup Opened]
    /\ outcome \in [Proc -> {"none", "known", "unknown", "refused"}]

\* A process has the directory from FlockDir to the end.
DirectoryIsHeld ==
    \A p \in Proc : holder[p].pc \in {"dir", "file", "inside"} => <<holder[p].dir, p>> \in flocked

\* Nothing is reported before the operation is over.
NothingToldYet == \A p \in Proc : holder[p].pc # "out" => outcome[p] = "none"

LockInv == LockTypes /\ LockTypeOK /\ DirectoryIsHeld /\ NothingToldYet

\* A process that is not out has opened two objects.
LEMMA OpenedObjects ==
    ASSUME LockTypes, NEW p \in Proc, holder[p].pc # "out"
    PROVE  holder[p] \in Opened
  BY DEF LockTypes, Outside

LEMMA OutsideIsOut == Outside.pc = "out"
  BY DEF Outside

LEMMA InitLockInv == LockInit => LockInv
  <1> SUFFICES ASSUME LockInit PROVE LockInv
    OBVIOUS
  <1>1. 1 \in Objects
    BY LockAssumption DEF Objects
  <1>2. LockTypes
    BY <1>1 DEF LockInit, LockTypes
  <1>3. LockTypeOK
    BY DEF LockInit, LockTypeOK
  <1>4. DirectoryIsHeld
    BY OutsideIsOut DEF LockInit, DirectoryIsHeld
  <1>5. NothingToldYet
    BY OutsideIsOut DEF LockInit, NothingToldYet
  <1>6. QED
    BY <1>2, <1>3, <1>4, <1>5 DEF LockInv

\* A process that goes out, or dies, takes all its flocks with it.
LEMMA GoingOutKeeps ==
    ASSUME LockInv, NEW p \in Proc, flocked' = Drop(p), GoOut(p),
           NEW o \in {"none", "known", "unknown", "refused"},
           outcome' = [outcome EXCEPT ![p] = o], UNCHANGED <<lockDir, lockFile, objects>>
    PROVE  LockInv'
  <1>1. /\ holder' \in [Proc -> {Outside} \cup Opened]
        /\ holder'[p] = Outside
        /\ \A q \in Proc : q # p => holder'[q] = holder[q]
    BY DEF LockInv, LockTypes, GoOut
  <1>2. LockTypes'
    BY <1>1 DEF LockInv, LockTypes, Drop
  <1>3. LockTypeOK'
    BY <1>1 DEF LockInv, LockTypes, LockTypeOK, Drop, PAt
  <1>4. DirectoryIsHeld'
    BY <1>1, OutsideIsOut DEF LockInv, DirectoryIsHeld, Drop
  <1>5. NothingToldYet'
    BY <1>1, OutsideIsOut DEF LockInv, LockTypes, NothingToldYet
  <1>6. QED
    BY <1>2, <1>3, <1>4, <1>5 DEF LockInv

\* A flock that nobody holds, taken by a process on an object it opened.
LEMMA FlockingKeeps ==
    ASSUME LockInv, NEW p \in Proc, NEW o \in Objects, NEW pc \in {"dir", "file"},
           holder[p].pc # "out", o \in {holder[p].dir, holder[p].file}, Free(o),
           o = holder[p].dir \/ holder[p].pc = "dir",
           flocked' = flocked \cup {<<o, p>>},
           holder' = [holder EXCEPT ![p].pc = pc],
           UNCHANGED <<lockDir, lockFile, objects, outcome>>
    PROVE  LockInv'
  <1>1. holder[p] \in Opened
    BY OpenedObjects DEF LockInv
  <1>2. /\ holder' \in [Proc -> {Outside} \cup Opened]
        /\ holder'[p].pc = pc /\ pc # "out"
        /\ holder'[p].dir = holder[p].dir /\ holder'[p].file = holder[p].file
        /\ \A q \in Proc : q # p => holder'[q] = holder[q]
    BY <1>1 DEF LockInv, LockTypes, Opened
  <1>3. LockTypes'
    BY <1>2 DEF LockInv, LockTypes
  <1>4. LockTypeOK'
    <2>1. ASSUME NEW f \in flocked', NEW g \in flocked', f[1] = g[1] PROVE f = g
      BY <2>1 DEF LockInv, LockTypes, LockTypeOK, Free
    <2>2. ASSUME NEW f \in flocked'
          PROVE  holder'[f[2]].pc # "out" /\ f[1] \in {holder'[f[2]].dir, holder'[f[2]].file}
      <3>1. CASE f = <<o, p>>
        BY <1>2, <3>1
      <3>2. CASE f \in flocked
        BY <1>2, <3>2 DEF LockInv, LockTypes, LockTypeOK, PAt
      <3>3. QED
        BY <3>1, <3>2
    <2>3. QED
      BY <2>1, <2>2 DEF LockTypeOK, PAt
  <1>5. DirectoryIsHeld'
    BY <1>2 DEF LockInv, DirectoryIsHeld
  <1>6. NothingToldYet'
    BY <1>2 DEF LockInv, NothingToldYet
  <1>7. QED
    BY <1>3, <1>4, <1>5, <1>6 DEF LockInv

\* Every step of the specification keeps the invariant.
LEMMA NextLockInv == LockInv /\ [LockNext]_lockVars => LockInv'
  <1> SUFFICES ASSUME LockInv, [LockNext]_lockVars PROVE LockInv'
    OBVIOUS
  <1>1. ASSUME NEW p \in Proc, OpenLock(p) PROVE LockInv'
    <2>1. lockFile'[lockDir] \in Objects /\ lockFile' \in [Objects -> Objects \cup {0}]
          /\ objects' \in Objects
      BY <1>1, LockAssumption DEF OpenLock, LockInv, LockTypes, Objects
    <2> DEFINE h == [pc |-> "opened", dir |-> lockDir, file |-> lockFile'[lockDir]]
    <2>2. /\ h \in Opened /\ holder' = [holder EXCEPT ![p] = h]
          /\ flocked' = flocked /\ lockDir' = lockDir /\ holder[p].pc = "out"
      BY <1>1, <2>1 DEF OpenLock, LockInv, LockTypes, Opened, PAt
    <2> HIDE DEF h
    <2>3. h.pc = "opened"
      BY DEF h
    <2>4. LockTypes'
      BY <1>1, <2>1, <2>2 DEF LockInv, LockTypes, OpenLock
    <2>5. LockTypeOK'
      <3>1. \A f \in flocked : f[2] \in Proc /\ f[2] # p
        BY <2>2 DEF LockInv, LockTypes, LockTypeOK, PAt
      <3>2. QED
        BY <2>2, <3>1 DEF LockInv, LockTypes, LockTypeOK, PAt
    <2>6. DirectoryIsHeld'
      BY <2>2, <2>3 DEF LockInv, LockTypes, DirectoryIsHeld
    <2>7. NothingToldYet'
      BY <1>1, <2>2 DEF OpenLock, LockInv, LockTypes, NothingToldYet
    <2>8. QED
      BY <2>4, <2>5, <2>6, <2>7 DEF LockInv
  <1>2. ASSUME NEW p \in Proc, FlockDir(p) PROVE LockInv'
    <2>1. holder[p].pc = "opened" /\ holder[p] \in Opened
      BY <1>2, OpenedObjects DEF FlockDir, PAt, LockInv
    <2>2. QED
      BY <1>2, <2>1, FlockingKeeps DEF FlockDir, Opened
  <1>3. ASSUME NEW p \in Proc, FlockFile(p) PROVE LockInv'
    <2>1. holder[p].pc = "dir" /\ holder[p] \in Opened
      BY <1>3, OpenedObjects DEF FlockFile, PAt, LockInv
    <2>2. QED
      BY <1>3, <2>1, FlockingKeeps DEF FlockFile, Opened
  <1>4. ASSUME NEW p \in Proc, LeaveLock(p) \/ LeaveOperation(p) \/ Die(p) PROVE LockInv'
    BY <1>4, GoingOutKeeps DEF LeaveLock, LeaveOperation, Die, OutcomeOf
  <1>5. ASSUME NEW p \in Proc, EnterLock(p) PROVE LockInv'
    <2>1. holder[p].pc = "file" /\ holder[p] \in Opened
      BY <1>5, OpenedObjects DEF EnterLock, PAt, LockInv
    <2>2. /\ holder' \in [Proc -> {Outside} \cup Opened]
          /\ holder'[p].pc = "inside"
          /\ holder'[p].dir = holder[p].dir /\ holder'[p].file = holder[p].file
          /\ \A q \in Proc : q # p => holder'[q] = holder[q]
      BY <1>5, <2>1 DEF EnterLock, LockInv, LockTypes, Opened
    <2>3. LockTypes'
      BY <1>5, <2>2 DEF EnterLock, LockInv, LockTypes
    <2>4. LockTypeOK'
      BY <1>5, <2>2 DEF EnterLock, LockInv, LockTypes, LockTypeOK, PAt
    <2>5. DirectoryIsHeld'
      BY <1>5, <2>1, <2>2 DEF EnterLock, LockInv, DirectoryIsHeld
    <2>6. NothingToldYet'
      BY <1>5, <2>1, <2>2 DEF EnterLock, LockInv, NothingToldYet
    <2>7. QED
      BY <2>3, <2>4, <2>5, <2>6 DEF LockInv
  <1>6. CASE ReplaceDirectory \/ RemoveFile \/ \E o \in Objects : ChangeMode(o)
    <2>1. UNCHANGED <<flocked, holder, outcome>> /\ LockTypes'
      BY <1>6, LockAssumption
         DEF ReplaceDirectory, RemoveFile, ChangeMode, LockInv, LockTypes, Objects
    <2>2. QED
      BY <2>1 DEF LockInv, LockTypeOK, DirectoryIsHeld, NothingToldYet, PAt
  <1>7. CASE UNCHANGED lockVars
    BY <1>7 DEF lockVars, LockInv, LockTypes, LockTypeOK, DirectoryIsHeld, NothingToldYet, PAt
  <1>8. QED
    BY <1>1, <1>2, <1>3, <1>4, <1>5, <1>6, <1>7 DEF LockNext, LockStep

\* Objects are flocked by one process at a time, and only by one that opened them
\* (services/media_operation_lock.py), whatever operators do to the names.
THEOREM LockTypesHold == LockSpec => [](LockInv /\ LockTypeOK)
  <1>1. LockInv => LockTypeOK
    BY DEF LockInv
  <1>2. QED
    BY <1>1, InitLockInv, NextLockInv, PTL DEF LockSpec

\* One process is inside a lock directory at a time.
LEMMA HeldDirectoryExcludes == LockInv => DirectoryExcludes
  <1> SUFFICES ASSUME LockInv, NEW p \in Proc, NEW q \in Proc,
                      holder[p].pc = "inside", holder[q].pc = "inside",
                      holder[p].dir = holder[q].dir
               PROVE  p = q
    BY DEF DirectoryExcludes, PAt
  <1>1. <<holder[p].dir, p>> \in flocked /\ <<holder[q].dir, q>> \in flocked
    BY DEF LockInv, DirectoryIsHeld
  <1>2. <<holder[p].dir, p>> = <<holder[q].dir, q>>
    BY <1>1 DEF LockInv, LockTypeOK
  <1>3. QED
    BY <1>2

\* An operation reports a known outcome only from the directory the path leads to.
LEMMA KnownOnlyUnderTheCurrentLock == LockInv /\ LockNext => LostLockIsUnknown
  <1> SUFFICES ASSUME LockInv, LockNext, NEW p \in Proc,
                      holder[p].pc = "inside", outcome'[p] = "known"
               PROVE  lockDir = holder[p].dir
    BY DEF LostLockIsUnknown, PAt
  <1>1. outcome[p] = "none" /\ outcome \in [Proc -> {"none", "known", "unknown", "refused"}]
    BY DEF LockInv, LockTypes, NothingToldYet
  <1>2. LeaveOperation(p)
    BY <1>1 DEF LockNext, LockStep, OpenLock, FlockDir, FlockFile, LeaveLock, EnterLock,
                LeaveOperation, Die, ReplaceDirectory, RemoveFile, ChangeMode
  <1>3. Verifies(holder[p])
    BY <1>1, <1>2 DEF LeaveOperation, OutcomeOf
  <1>4. QED
    BY <1>3 DEF Verifies

\* Two media operations are never inside one lock directory at once, whatever
\* operators do to the lock file; and one whose lock directory was replaced under
\* it does not claim to know its outcome (services/media_operation_lock.py and
\* _verify_outcome of media_write_coordination.py).
THEOREM OperationsExclude == LockSpec => ExclusiveOrUnknown
  <1>1. LockInv => DirectoryExcludes
    BY HeldDirectoryExcludes
  <1>2. LockInv /\ [LockNext]_lockVars => [LostLockIsUnknown]_lockVars
    BY KnownOnlyUnderTheCurrentLock
  <1>3. QED
    BY <1>1, <1>2, InitLockInv, NextLockInv, PTL DEF LockSpec, ExclusiveOrUnknown

----------------------------------------------------------------------------
(* Local workflow                                                          *)

LocalRows == [state : TaskState \cup {"none"},
              stage : Stages \cup PostWrite \cup {"none", "queued", "local_import_queued", "integrity_queued"}]
LinkRow == [task : Imports, sha : {0, 1}]
Execution == [pc : {"claimed", "checked", "linked", "verified", "failed"}, task : LocalTasks, fact : Files]

RowTypes ==
    /\ file \in Files
    /\ plans \in [ImportItem -> Files]
    /\ ltask \in [LocalTasks -> LocalRows]
    /\ fact \in [Imports -> Files]
    /\ link \in LinkRow \cup {NoLink}
    /\ LocalTypeOK

\* The fact row of an import is the file it was confirmed with.
FactsOK == \A t \in Imports : ltask[t] # NoLocal => fact[t] # 0 /\ Sha(fact[t]) = t.sha

RowsOK == RowTypes /\ FactsOK /\ Agreed \subseteq proved /\ LinksAreProved

\* What the execution x knows of its import at each stage.
KnowsFile(x) == x.pc \in {"checked", "linked", "verified"} => x.fact # 0 /\ Sha(x.fact) = x.task.sha
KnowsLink(x) == x.pc \in {"linked", "verified"} => link = [task |-> x.task, sha |-> x.task.sha]
KnowsProof(x) == x.pc = "verified" => x.task \in proved

ExecutionOK(x) ==
    /\ x \in Execution
    /\ ltask[x.task].state # "succeeded"
    /\ x.task \in Imports => KnowsFile(x) /\ KnowsLink(x) /\ KnowsProof(x)

LocalInv == RowsOK /\ (exec = Resting \/ ExecutionOK(exec))

----------------------------------------------------------------------------
LEMMA TaskKinds ==
    /\ Imports \subseteq LocalTasks /\ IntegrityChecks \subseteq LocalTasks /\ Upkeep \subseteq LocalTasks
    /\ \A t \in Imports : t.kind = "import" /\ t.sha \in {0, 1}
    /\ \A t \in LocalTasks : t.kind = "import" => t \in Imports
    /\ \A t \in LocalTasks : t.kind \in {"import", "check", "index", "recovery"}
  BY DEF Imports, IntegrityChecks, Upkeep, LocalTasks

LEMMA ShaIsBit == \A n \in Files : Sha(n) \in {0, 1}
  <1>1. \A n \in Nat : n % 2 \in {0, 1}
    OBVIOUS
  <1>2. QED
    BY <1>1, LocalAssumption DEF Files, Sha

LEMMA LinkIsReal ==
    ASSUME link \in LinkRow \cup {NoLink}
    PROVE  /\ link # NoLink <=> link \in LinkRow
           /\ \A t \in Imports : link.task = t => link \in LinkRow
           /\ link \in LinkRow => link.task \in Imports /\ link.sha \in {0, 1}
                                  /\ link = [task |-> link.task, sha |-> link.sha]
  <1>1. \A t \in Imports : t # [kind |-> "none"]
    BY TaskKinds
  <1>2. NoLink \notin LinkRow
    BY <1>1 DEF NoLink, LinkRow
  <1>3. NoLink.task = [kind |-> "none"]
    BY DEF NoLink
  <1>4. QED
    BY <1>1, <1>2, <1>3 DEF LinkRow

LEMMA RowFields ==
    ASSUME NEW state \in TaskState \cup {"none"}, NEW stage
    PROVE  /\ LocalRow(state, stage).state = state /\ LocalRow(state, stage).stage = stage
           /\ stage \in Stages \cup PostWrite \cup {"none", "queued", "local_import_queued", "integrity_queued"}
                 => LocalRow(state, stage) \in LocalRows
           /\ state # "none" => LocalRow(state, stage) # NoLocal
  BY DEF LocalRow, LocalRows, NoLocal

\* Where link, file and index cannot agree better than before, nothing new agrees.
LEMMA AgreedStays ==
    ASSUME UNCHANGED <<file, link, proved>>, Agreed \subseteq proved, lindex' = lindex \/ ~lindex'.valid
    PROVE  (Agreed \subseteq proved)'
  BY DEF Agreed

\* One task's row changes, and it does not succeed by that.
LEMMA RowChanges ==
    ASSUME RowsOK, NEW t \in LocalTasks, NEW x \in LocalRows,
           x = NoLocal \/ x.state \in TaskState,
           x.state = "succeeded" => t \notin Imports \/ x = ltask[t],
           x = NoLocal => link.task # t,
           t \in Imports /\ x # NoLocal => fact'[t] # 0 /\ Sha(fact'[t]) = t.sha,
           ltask' = [ltask EXCEPT ![t] = x],
           fact' \in [Imports -> Files], \A u \in Imports \ {t} : fact'[u] = fact[u],
           UNCHANGED <<file, plans, link, proved>>,
           lindex' = lindex \/ ~lindex'.valid, lindex' \in [valid : BOOLEAN, file : Files]
    PROVE  RowsOK'
  <1>1. /\ ltask' \in [LocalTasks -> LocalRows] /\ ltask'[t] = x
        /\ \A u \in LocalTasks \ {t} : ltask'[u] = ltask[u]
    BY DEF RowsOK, RowTypes
  <1>2. LocalTypeOK'
    BY <1>1 DEF RowsOK, RowTypes, LocalTypeOK
  <1>3. RowTypes'
    BY <1>1, <1>2 DEF RowsOK, RowTypes
  <1>4. FactsOK'
    BY <1>1, TaskKinds DEF RowsOK, FactsOK
  <1>5. (Agreed \subseteq proved)'
    BY AgreedStays DEF RowsOK
  <1>6. ImportOwnsLink' /\ SuccessWasProved'
    BY <1>1, TaskKinds DEF RowsOK, LinksAreProved, ImportOwnsLink, SuccessWasProved
  <1>7. LinkKeepsTask'
    <2>1. link # NoLink => link.task \in LocalTasks
      BY LinkIsReal, TaskKinds DEF RowsOK, RowTypes
    <2>2. QED
      BY <1>1, <2>1 DEF RowsOK, LinksAreProved, LinkKeepsTask
  <1>8. QED
    BY <1>3, <1>4, <1>5, <1>6, <1>7 DEF RowsOK, LinksAreProved

\* The rows change beside an execution that goes on.
LEMMA ExecutionGoesOn ==
    ASSUME LocalInv, RowsOK', UNCHANGED <<exec, link>>, proved \subseteq proved',
           exec # Resting => (ltask'[exec.task].state = "succeeded" => ltask[exec.task].state = "succeeded")
    PROVE  LocalInv'
  BY DEF LocalInv, ExecutionOK, KnowsFile, KnowsLink, KnowsProof

LEMMA StateChanges ==
    ASSUME LocalInv, NEW t \in LocalTasks, NEW state \in TaskState \ {"succeeded"}, ltask[t] # NoLocal,
           ltask' = [ltask EXCEPT ![t].state = state], UNCHANGED <<file, plans, fact, link, lindex, proved>>
    PROVE  RowsOK' /\ \A u \in LocalTasks : ltask'[u].state = "succeeded" => ltask[u].state = "succeeded"
  <1> PICK x : x = [ltask[t] EXCEPT !.state = state]
    OBVIOUS
  <1>1. ltask \in [LocalTasks -> LocalRows] /\ fact \in [Imports -> Files] /\ RowsOK
    BY DEF LocalInv, RowsOK, RowTypes
  <1>2. x \in LocalRows /\ x.state = state
    BY <1>1 DEF LocalRows
  <1>3. ltask' = [ltask EXCEPT ![t] = x]
    BY <1>1
  <1>4. t \in Imports => fact[t] # 0 /\ Sha(fact[t]) = t.sha
    BY <1>1 DEF RowsOK, FactsOK
  <1>5. lindex' \in [valid : BOOLEAN, file : Files]
    BY <1>1 DEF RowsOK, RowTypes, LocalTypeOK
  <1>6. x.state \in TaskState /\ x # NoLocal
    BY <1>2 DEF NoLocal, LocalRow, TaskState
  <1>7. RowsOK'
    BY <1>1, <1>2, <1>3, <1>4, <1>5, <1>6, RowChanges
  <1>8. QED
    BY <1>1, <1>2, <1>3, <1>7

----------------------------------------------------------------------------
LEMMA InitLocalInv == LocalInit => LocalInv
  <1> SUFFICES ASSUME LocalInit PROVE LocalInv
    OBVIOUS
  <1>1. 0 \in Files /\ 1 \in Files
    BY LocalAssumption DEF Files
  <1>2. NoLocal \in LocalRows /\ NoLocal.state = "none"
    BY DEF NoLocal, LocalRow, LocalRows
  <1>3. ltask = [t \in LocalTasks |-> NoLocal] /\ link = NoLink /\ exec = Resting /\ proved = {}
    BY DEF LocalInit
  <1>4. LocalTypeOK
    <2>1. lindex \in [valid : BOOLEAN, file : Files]
      <3>1. \/ lindex = [valid |-> FALSE, file |-> 0]
            \/ lindex = [valid |-> TRUE, file |-> 1]
        BY DEF LocalInit
      <3>2. \A v \in BOOLEAN, n \in Files : [valid |-> v, file |-> n] \in [valid : BOOLEAN, file : Files]
        BY Zenon
      <3>3. QED
        BY <1>1, <3>1, <3>2
    <2>2. QED
      BY <1>1, <1>3, <2>1 DEF LocalInit, LocalTypeOK
  <1>5. RowTypes
    BY <1>1, <1>2, <1>3, <1>4 DEF LocalInit, RowTypes
  <1>6. FactsOK /\ Agreed \subseteq proved
    BY <1>3, TaskKinds DEF FactsOK, Agreed
  <1>7. LinksAreProved
    BY <1>2, <1>3, TaskKinds DEF LinksAreProved, ImportOwnsLink, SuccessWasProved, LinkKeepsTask
  <1>8. QED
    BY <1>3, <1>5, <1>6, <1>7 DEF LocalInv, RowsOK

LEMMA PreviewKeeps == LocalInv /\ (\E item \in ImportItem : PreviewImport(item)) => LocalInv'
  <1> SUFFICES ASSUME LocalInv, NEW item \in ImportItem, PreviewImport(item) PROVE LocalInv'
    OBVIOUS
  <1>1. plans' \in [ImportItem -> Files] /\ UNCHANGED <<file, ltask, fact, link, lindex, exec, proved>>
    BY DEF PreviewImport, LocalInv, RowsOK, RowTypes
  <1>2. RowTypes'
    BY <1>1 DEF LocalInv, RowsOK, RowTypes, LocalTypeOK
  <1>3. RowsOK'
    BY <1>1, <1>2 DEF LocalInv, RowsOK, FactsOK, Agreed, LinksAreProved, ImportOwnsLink,
                      SuccessWasProved, LinkKeepsTask
  <1>4. QED
    BY <1>1, <1>3, ExecutionGoesOn

LEMMA ConfirmKeeps == LocalInv /\ (\E item \in ImportItem : ConfirmImport(item)) => LocalInv'
  <1> SUFFICES ASSUME LocalInv, NEW item \in ImportItem, ConfirmImport(item) PROVE LocalInv'
    OBVIOUS
  <1> PICK t : t = ImportTask(item)
    OBVIOUS
  <1> PICK x : x = LocalRow("queued", "local_import_queued")
    OBVIOUS
  <1>1. plans[item] \in Files \ {0} /\ Sha(plans[item]) \in {0, 1}
    BY ShaIsBit DEF ConfirmImport, LocalInv, RowsOK, RowTypes
  <1>2. t \in Imports /\ t.sha = Sha(plans[item]) /\ t \in LocalTasks
    BY <1>1, TaskKinds DEF ImportTask, Imports
  <1>3. x \in LocalRows /\ x.state = "queued" /\ x # NoLocal
    BY RowFields DEF TaskState
  <1>4. /\ fact' = [fact EXCEPT ![t] = plans[item]] /\ ltask' = [ltask EXCEPT ![t] = x]
        /\ UNCHANGED <<file, plans, link, lindex, exec, proved>>
    BY DEF ConfirmImport
  <1>5. /\ ltask \in [LocalTasks -> LocalRows] /\ fact \in [Imports -> Files] /\ RowsOK
        /\ lindex' \in [valid : BOOLEAN, file : Files]
    BY <1>4 DEF LocalInv, RowsOK, RowTypes, LocalTypeOK
  <1>6. /\ fact' \in [Imports -> Files] /\ fact'[t] = plans[item]
        /\ \A u \in Imports \ {t} : fact'[u] = fact[u]
    BY <1>1, <1>2, <1>4, <1>5
  <1>7. x.state \in TaskState
    BY <1>3 DEF TaskState
  <1>8. RowsOK'
    BY <1>1, <1>2, <1>3, <1>4, <1>5, <1>6, <1>7, RowChanges
  <1>9. \A u \in LocalTasks : ltask'[u].state = "succeeded" => ltask[u].state = "succeeded"
    BY <1>2, <1>3, <1>4, <1>5
  <1>10. QED
    BY <1>4, <1>8, <1>9, ExecutionGoesOn DEF LocalInv, ExecutionOK, Execution

LEMMA CheckKeeps == LocalInv /\ CreateCheck => LocalInv'
  <1> SUFFICES ASSUME LocalInv, CreateCheck PROVE LocalInv'
    OBVIOUS
  <1> PICK t : t = [kind |-> "check", sha |-> link.sha]
    OBVIOUS
  <1> PICK x : x = LocalRow(IF ltask[t] = NoLocal THEN "queued" ELSE ltask[t].state, "integrity_queued")
    OBVIOUS
  <1>1. link.sha \in {0, 1}
    BY LinkIsReal DEF CreateCheck, LocalInv, RowsOK, RowTypes
  <1>2. t \in LocalTasks /\ t \notin Imports
    BY <1>1, TaskKinds DEF IntegrityChecks
  <1>3. /\ ltask \in [LocalTasks -> LocalRows] /\ fact \in [Imports -> Files] /\ RowsOK
        /\ lindex \in [valid : BOOLEAN, file : Files]
    BY DEF LocalInv, RowsOK, RowTypes, LocalTypeOK
  <1>4. ltask[t] = NoLocal \/ ltask[t].state \in TaskState
    BY <1>2 DEF LocalInv, RowsOK, RowTypes, LocalTypeOK
  <1>5. /\ x \in LocalRows /\ x.state \in TaskState /\ x # NoLocal
        /\ x.state = "succeeded" => ltask[t].state = "succeeded"
    BY <1>4, RowFields DEF TaskState
  <1>6. ltask' = [ltask EXCEPT ![t] = x] /\ UNCHANGED <<file, plans, fact, link, lindex, exec, proved>>
    BY <1>3 DEF CreateCheck
  <1>7. RowsOK'
    BY <1>2, <1>3, <1>5, <1>6, RowChanges
  <1>8. \A u \in LocalTasks : ltask'[u].state = "succeeded" => ltask[u].state = "succeeded"
    BY <1>2, <1>3, <1>5, <1>6
  <1>9. QED
    BY <1>6, <1>7, <1>8, ExecutionGoesOn DEF LocalInv, ExecutionOK, Execution

LEMMA UpkeepKeeps == LocalInv /\ (\E t \in Upkeep : CreateUpkeep(t)) => LocalInv'
  <1> SUFFICES ASSUME LocalInv, NEW t \in Upkeep, CreateUpkeep(t) PROVE LocalInv'
    OBVIOUS
  <1> PICK x : x = LocalRow("queued", "queued")
    OBVIOUS
  <1>1. t \in LocalTasks /\ t \notin Imports
    BY TaskKinds DEF Upkeep
  <1>2. /\ ltask \in [LocalTasks -> LocalRows] /\ fact \in [Imports -> Files] /\ RowsOK
        /\ lindex \in [valid : BOOLEAN, file : Files]
    BY DEF LocalInv, RowsOK, RowTypes, LocalTypeOK
  <1>3. x \in LocalRows /\ x.state \in TaskState /\ x.state = "queued" /\ x # NoLocal
    BY RowFields DEF TaskState
  <1>4. ltask' = [ltask EXCEPT ![t] = x] /\ UNCHANGED <<file, plans, fact, link, lindex, exec, proved>>
    BY DEF CreateUpkeep
  <1>5. RowsOK'
    BY <1>1, <1>2, <1>3, <1>4, RowChanges
  <1>6. \A u \in LocalTasks : ltask'[u].state = "succeeded" => ltask[u].state = "succeeded"
    BY <1>1, <1>2, <1>3, <1>4
  <1>7. QED
    BY <1>4, <1>5, <1>6, ExecutionGoesOn DEF LocalInv, ExecutionOK, Execution

LEMMA DeleteKeeps == LocalInv /\ (\E t \in LocalTasks : DeleteLocal(t)) => LocalInv'
  <1> SUFFICES ASSUME LocalInv, NEW t \in LocalTasks, DeleteLocal(t) PROVE LocalInv'
    OBVIOUS
  <1>1. /\ ltask \in [LocalTasks -> LocalRows] /\ fact \in [Imports -> Files] /\ RowsOK
        /\ lindex \in [valid : BOOLEAN, file : Files]
    BY DEF LocalInv, RowsOK, RowTypes, LocalTypeOK
  <1>2. NoLocal \in LocalRows /\ NoLocal.state = "none"
    BY DEF NoLocal, LocalRow, LocalRows
  <1>3. /\ ltask' = [ltask EXCEPT ![t] = NoLocal] /\ link.task # t
        /\ UNCHANGED <<file, plans, fact, link, lindex, exec, proved>>
    BY DEF DeleteLocal, HistoryFree
  <1>4. RowsOK'
    BY <1>1, <1>2, <1>3, RowChanges
  <1>5. \A u \in LocalTasks : ltask'[u].state = "succeeded" => ltask[u].state = "succeeded"
    BY <1>1, <1>2, <1>3
  <1>6. QED
    BY <1>3, <1>4, <1>5, ExecutionGoesOn DEF LocalInv, ExecutionOK, Execution

LEMMA PagesKeep ==
    LocalInv /\ (\E t \in LocalTasks : \/ BlockUnverified(t)
                                       \/ \E target \in {"paused", "cancelling", "cancelled", "queued"} :
                                              Press(t, target))
    => LocalInv'
  <1> SUFFICES ASSUME LocalInv, NEW t \in LocalTasks,
                      \/ BlockUnverified(t)
                      \/ \E target \in {"paused", "cancelling", "cancelled", "queued"} : Press(t, target)
               PROVE  LocalInv'
    OBVIOUS
  <1>1. PICK state \in {"blocked", "paused", "cancelling", "cancelled", "queued"} :
            ltask' = [ltask EXCEPT ![t].state = state]
    BY DEF BlockUnverified, Press
  <1>2. UNCHANGED <<file, plans, fact, link, lindex, exec, proved>> /\ ltask[t] # NoLocal
    <2>1. LocalRow("queued", "local_import_queued") # NoLocal
      BY RowFields DEF TaskState
    <2>2. QED
      BY <2>1 DEF BlockUnverified, Press
  <1>3. state \in TaskState \ {"succeeded"}
    BY DEF TaskState
  <1>4. RowsOK' /\ \A u \in LocalTasks : ltask'[u].state = "succeeded" => ltask[u].state = "succeeded"
    BY <1>1, <1>2, <1>3, StateChanges
  <1>5. QED
    BY <1>2, <1>4, ExecutionGoesOn DEF LocalInv, ExecutionOK, Execution

----------------------------------------------------------------------------
LEMMA StartLocalKeeps ==
    LocalInv /\ (\E t \in LocalTasks, resume \in BOOLEAN : StartLocal(t, resume)) => LocalInv'
  <1> SUFFICES ASSUME LocalInv, NEW t \in LocalTasks, NEW resume \in BOOLEAN, StartLocal(t, resume)
               PROVE  LocalInv'
    OBVIOUS
  <1> PICK x : x = [pc |-> "claimed", task |-> t, fact |-> 0]
    OBVIOUS
  <1>1. /\ ltask' = [ltask EXCEPT ![t].state = "running"] /\ ltask[t] # NoLocal /\ exec' = x
        /\ UNCHANGED <<file, plans, fact, link, lindex, proved>>
    BY DEF StartLocal
  <1>2. RowsOK'
    BY <1>1, StateChanges DEF TaskState
  <1>3. ltask'[t].state = "running"
    BY <1>1 DEF LocalInv, RowsOK, RowTypes, LocalRows
  <1>4. x \in Execution
    BY LocalAssumption DEF Execution, Files
  <1>5. ExecutionOK(x)'
    BY <1>3, <1>4 DEF ExecutionOK, KnowsFile, KnowsLink, KnowsProof
  <1>6. QED
    BY <1>1, <1>2, <1>5 DEF LocalInv

LEMMA Executing ==
    ASSUME LocalInv, NEW pc \in {"claimed", "checked", "linked", "verified", "failed"}, exec.pc = pc
    PROVE  /\ ExecutionOK(exec) /\ exec.task \in LocalTasks /\ exec.fact \in Files
           /\ exec = [pc |-> pc, task |-> exec.task, fact |-> exec.fact]
           /\ \A new : [exec EXCEPT !.pc = new] = [pc |-> new, task |-> exec.task, fact |-> exec.fact]
  <1>1. ExecutionOK(exec)
    BY DEF LocalInv, Resting
  <1>2. exec \in Execution
    BY <1>1 DEF ExecutionOK
  <1>3. \A new : [exec EXCEPT !.pc = new] = [pc |-> new, task |-> exec.task, fact |-> exec.fact]
    BY <1>2 DEF Execution
  <1>5. exec.task \in LocalTasks /\ exec.fact \in Files
    BY <1>2 DEF Execution
  <1>6. exec = [pc |-> exec.pc, task |-> exec.task, fact |-> exec.fact]
    BY <1>2 DEF Execution
  <1>7. QED
    BY <1>1, <1>3, <1>5, <1>6

LEMMA MovedRow ==
    ASSUME LocalInv, exec.task \in LocalTasks, Running, NEW state \in TaskState \ {"succeeded"},
           NEW stage \in Stages, Moved(state, stage), UNCHANGED <<file, plans, fact, link, proved>>,
           lindex' = lindex \/ lindex' = [lindex EXCEPT !.valid = FALSE]
    PROVE  RowsOK' /\ ltask'[exec.task].state = state
  <1> PICK t : t = exec.task
    OBVIOUS
  <1> PICK x : x = LocalRow(state, stage)
    OBVIOUS
  <1>1. /\ ltask \in [LocalTasks -> LocalRows] /\ fact \in [Imports -> Files] /\ RowsOK
        /\ lindex \in [valid : BOOLEAN, file : Files]
    BY DEF LocalInv, RowsOK, RowTypes, LocalTypeOK
  <1>2. ltask[t] # NoLocal
    BY DEF Running, Row, NoLocal, LocalRow
  <1>3. x \in LocalRows /\ x.state \in TaskState /\ x.state = state /\ x # NoLocal
    BY RowFields DEF TaskState
  <1>4. ltask' = [ltask EXCEPT ![t] = x]
    BY DEF Moved
  <1>5. /\ lindex' \in [valid : BOOLEAN, file : Files]
        /\ lindex' = lindex \/ ~lindex'.valid
    BY <1>1
  <1>6. t \in Imports => fact[t] # 0 /\ Sha(fact[t]) = t.sha
    BY <1>1, <1>2 DEF RowsOK, FactsOK
  <1>7. RowsOK'
    BY <1>1, <1>2, <1>3, <1>4, <1>5, <1>6, RowChanges
  <1>8. QED
    BY <1>1, <1>3, <1>4, <1>7

\* Rows as they were, the index as it was or invalid.
LEMMA RowsRest ==
    ASSUME LocalInv, UNCHANGED <<file, plans, ltask, fact, link, proved>>,
           lindex' = lindex \/ lindex' = [lindex EXCEPT !.valid = FALSE]
    PROVE  RowsOK'
  <1>1. lindex' = lindex \/ ~lindex'.valid
    BY DEF LocalInv, RowsOK, RowTypes, LocalTypeOK
  <1>2. (Agreed \subseteq proved)'
    BY <1>1, AgreedStays DEF LocalInv, RowsOK
  <1>3. RowTypes' /\ FactsOK'
    BY DEF LocalInv, RowsOK, RowTypes, FactsOK, LocalTypeOK
  <1>4. LinksAreProved'
    BY DEF LocalInv, RowsOK, LinksAreProved, ImportOwnsLink, SuccessWasProved, LinkKeepsTask
  <1>5. QED
    BY <1>2, <1>3, <1>4 DEF RowsOK

\* An execution on its way out knows nothing that could be wrong.
LEMMA FailingIsOK ==
    ASSUME LocalInv, exec # Resting, Goto("failed"), RowsOK', ltask'[exec.task].state # "succeeded"
    PROVE  LocalInv'
  <1>1. exec' \in Execution /\ exec'.pc = "failed" /\ exec'.task = exec.task
    BY DEF LocalInv, ExecutionOK, Execution, Goto
  <1>2. QED
    BY <1>1 DEF LocalInv, ExecutionOK, KnowsFile, KnowsLink, KnowsProof

LEMMA BeatKeeps == LocalInv /\ Beat => LocalInv'
  <1> SUFFICES ASSUME LocalInv, Beat PROVE LocalInv'
    OBVIOUS
  <1> PICK t : t = exec.task
    OBVIOUS
  <1>1. /\ exec.pc = "claimed" /\ UNCHANGED <<file, plans, fact, link, lindex, proved>>
    BY DEF Beat, At
  <1>2. /\ ExecutionOK(exec) /\ t \in LocalTasks /\ exec # Resting
        /\ exec = [pc |-> "claimed", task |-> t, fact |-> exec.fact]
    BY <1>1, Executing DEF Resting
  <1>3. CASE FactMatches(t) /\ Running
    <2> PICK x : x = [pc |-> "checked", task |-> t, fact |-> file]
      OBVIOUS
    <2>1. Moved("running", "integrity_check") /\ exec' = [exec EXCEPT !.pc = "checked", !.fact = file]
      BY <1>3 DEF Beat
    <2>2. exec' = x
      <3>1. exec \in Execution
        BY <1>2 DEF ExecutionOK
      <3>2. exec' \in [pc : {"checked"}, task : {t}, fact : {file}]
        BY <2>1, <3>1 DEF Execution
      <3>3. QED
        BY <3>2
    <2>3. RowsOK' /\ ltask'[t].state = "running"
      BY <1>1, <1>2, <1>3, <2>1, MovedRow DEF TaskState, Stages
    <2>4. x \in Execution
      BY <1>2 DEF Execution, LocalInv, RowsOK, RowTypes
    <2>5. t \in Imports => file # 0 /\ Sha(file) = t.sha
      <3> SUFFICES ASSUME t \in Imports PROVE file # 0 /\ Sha(file) = t.sha
        OBVIOUS
      <3>1. file = fact[t]
        BY <1>3, TaskKinds DEF FactMatches
      <3>2. ltask[t] # NoLocal
        BY <1>3 DEF Running, Row, NoLocal, LocalRow
      <3>3. QED
        BY <3>1, <3>2 DEF LocalInv, RowsOK, FactsOK
    <2>6. ExecutionOK(x)'
      BY <2>3, <2>4, <2>5 DEF ExecutionOK, KnowsFile, KnowsLink, KnowsProof
    <2>7. QED
      BY <2>2, <2>3, <2>6 DEF LocalInv
  <1>4. CASE ~(FactMatches(t) /\ Running)
    <2>1. Goto("failed") /\ UNCHANGED ltask
      BY <1>4 DEF Beat
    <2>2. RowsOK'
      BY <1>1, <2>1, RowsRest
    <2>3. ltask'[exec.task].state # "succeeded"
      BY <1>2, <2>1 DEF ExecutionOK
    <2>4. QED
      BY <1>2, <2>1, <2>2, <2>3, FailingIsOK
  <1>5. QED
    BY <1>3, <1>4

LEMMA LinkKeeps == LocalInv /\ LinkFile => LocalInv'
  <1> SUFFICES ASSUME LocalInv, LinkFile PROVE LocalInv'
    OBVIOUS
  <1> PICK t : t = exec.task
    OBVIOUS
  <1> PICK r : r = [ltask[t] EXCEPT !.stage = StageOf(t)]
    OBVIOUS
  <1> PICK k : k = [task |-> t, sha |-> Sha(exec.fact)]
    OBVIOUS
  <1>1. /\ exec.pc = "checked" /\ lindex' = [valid |-> TRUE, file |-> file]
        /\ UNCHANGED <<file, plans, fact>> /\ proved' = proved \cup Agreed'
    BY DEF LinkFile, At, Refreshed
  <1>2. /\ ExecutionOK(exec) /\ t \in LocalTasks /\ exec # Resting
        /\ exec = [pc |-> "checked", task |-> t, fact |-> exec.fact] /\ exec.fact \in Files
    BY <1>1, Executing DEF Resting
  <1>3. /\ ltask \in [LocalTasks -> LocalRows] /\ fact \in [Imports -> Files] /\ RowsOK
        /\ lindex' \in [valid : BOOLEAN, file : Files] /\ link \in LinkRow \cup {NoLink}
    BY <1>1 DEF LocalInv, RowsOK, RowTypes, LocalTypeOK
  <1>4. t \in Imports => /\ exec.fact # 0 /\ Sha(exec.fact) = t.sha /\ k \in LinkRow
                         /\ k = [task |-> t, sha |-> t.sha] /\ t.kind = "import"
    <2>1. t \in Imports => exec.fact # 0 /\ Sha(exec.fact) = t.sha
      BY <1>1, <1>2 DEF ExecutionOK, KnowsFile
    <2>2. QED
      BY <2>1, TaskKinds DEF LinkRow
  <1>5. CASE MayLink(t) /\ Row # NoLocal
    <2>1. /\ Goto("linked") /\ ltask' = [ltask EXCEPT ![t].stage = StageOf(t)]
          /\ link' = IF t.kind = "import" THEN k ELSE link
      BY <1>5 DEF LinkFile
    <2>2. /\ r \in LocalRows /\ r.state = ltask[t].state /\ ltask[t] # NoLocal
      <3>1. StageOf(t) \in Stages \cup PostWrite
        BY DEF StageOf, PostWrite
      <3>2. QED
        BY <1>2, <1>3, <1>5, <3>1 DEF LocalRows, Row
    <2>3. ltask[t].state \in TaskState /\ ltask[t].state # "succeeded"
      BY <1>2, <2>2 DEF LocalInv, RowsOK, RowTypes, LocalTypeOK, ExecutionOK
    <2>4. r # NoLocal
      BY <2>2, <2>3 DEF NoLocal, LocalRow, TaskState
    <2>5. /\ ltask' \in [LocalTasks -> LocalRows] /\ ltask'[t] = r
          /\ \A u \in LocalTasks \ {t} : ltask'[u] = ltask[u]
      BY <1>2, <1>3, <2>1, <2>2
    <2>6. link' \in LinkRow \cup {NoLink} /\ (t \in Imports => link' = k) /\ (t \notin Imports => link' = link)
      BY <1>2, <1>3, <1>4, <2>1, TaskKinds
    <2>7. link' # NoLink => link'.task \in Imports
      BY <2>6, TaskKinds DEF LinkRow, NoLink
    <2>8. Agreed' \subseteq Imports
      BY <2>7 DEF Agreed
    <2>9. LocalTypeOK'
      <3>1. \A u \in LocalTasks : ltask'[u] # NoLocal =>
                /\ ltask'[u].state \in TaskState
                /\ u \in Imports /\ ltask'[u].state = "succeeded" => ltask'[u].stage = "durable_verified"
        <4>1. LocalTypeOK
          BY <1>3 DEF RowsOK, RowTypes
        <4>2. ltask'[t].state = ltask[t].state
          BY <2>2, <2>5
        <4>3. TAKE u \in LocalTasks
        <4>4. CASE u = t
          BY <2>3, <4>2, <4>4
        <4>5. CASE u # t
          BY <2>5, <4>1, <4>5 DEF LocalTypeOK
        <4>6. QED
          BY <4>4, <4>5
      <3>2. proved' \subseteq Imports
        BY <1>1, <1>3, <2>8 DEF RowsOK, RowTypes, LocalTypeOK
      <3>3. QED
        BY <1>1, <1>3, <2>7, <3>1, <3>2 DEF RowsOK, RowTypes, LocalTypeOK
    <2>10. RowTypes'
      BY <1>1, <1>3, <2>5, <2>6, <2>9 DEF RowsOK, RowTypes
    <2>11. FactsOK'
      BY <1>1, <1>3, <2>2, <2>5, TaskKinds DEF RowsOK, FactsOK
    <2>12. (Agreed \subseteq proved)'
      BY <1>1
    <2>13. \A u \in Imports : ltask'[u] # NoLocal /\ ltask'[u].state = "succeeded" =>
              u # t /\ ltask[u] # NoLocal /\ ltask[u].state = "succeeded"
      BY <2>2, <2>3, <2>5, TaskKinds
    <2>14. \A u \in Imports : ltask'[u] # NoLocal /\ ltask'[u].state = "succeeded" =>
              t \notin Imports /\ link # NoLink /\ link.task = u /\ link.sha = u.sha
      <3> SUFFICES ASSUME NEW u \in Imports, ltask'[u] # NoLocal, ltask'[u].state = "succeeded"
                   PROVE  t \notin Imports /\ link # NoLink /\ link.task = u /\ link.sha = u.sha
        OBVIOUS
      <3>1. u # t /\ link # NoLink /\ link.task = u /\ link.sha = u.sha
        BY <1>3, <2>13 DEF RowsOK, LinksAreProved, ImportOwnsLink
      <3>2. t \notin Imports
        BY <1>4, <1>5, <3>1 DEF MayLink
      <3>3. QED
        BY <3>1, <3>2
    <2>15. ImportOwnsLink'
      BY <2>6, <2>14 DEF ImportOwnsLink
    <2>16. SuccessWasProved'
      BY <1>1, <1>3, <2>13 DEF RowsOK, LinksAreProved, SuccessWasProved
    <2>17. LinkKeepsTask'
      <3>1. CASE t \in Imports
        BY <2>4, <2>5, <2>6, <3>1 DEF LinkKeepsTask
      <3>2. CASE t \notin Imports
        <4>1. link # NoLink => link.task \in LocalTasks /\ ltask[link.task] # NoLocal
          BY <1>3, LinkIsReal, TaskKinds DEF RowsOK, LinksAreProved, LinkKeepsTask
        <4>2. QED
          BY <2>4, <2>5, <2>6, <3>2, <4>1 DEF LinkKeepsTask
      <3>3. QED
        BY <3>1, <3>2
    <2>18. RowsOK'
      BY <2>10, <2>11, <2>12, <2>15, <2>16, <2>17 DEF RowsOK, LinksAreProved
    <2> PICK x : x = [pc |-> "linked", task |-> t, fact |-> exec.fact]
      OBVIOUS
    <2>19. exec' = x
      BY <1>2, <2>1 DEF Goto
    <2>20. x \in Execution
      BY <1>2 DEF Execution
    <2>21. ExecutionOK(x)'
      BY <1>4, <2>2, <2>3, <2>5, <2>6, <2>20 DEF ExecutionOK, KnowsFile, KnowsLink, KnowsProof
    <2>22. QED
      BY <2>18, <2>19, <2>21 DEF LocalInv
  <1>6. CASE ~(MayLink(t) /\ Row # NoLocal)
    <2>1. Goto("failed") /\ UNCHANGED <<ltask, link>>
      BY <1>6 DEF LinkFile
    <2>2. Agreed' \subseteq Imports
      <3>1. link # NoLink => link.task \in Imports
        BY <1>3 DEF RowsOK, RowTypes, LocalTypeOK
      <3>2. QED
        BY <2>1, <3>1 DEF Agreed
    <2>3. LocalTypeOK'
      BY <1>1, <1>3, <2>1, <2>2 DEF RowsOK, RowTypes, LocalTypeOK
    <2>4. RowTypes' /\ FactsOK' /\ (Agreed \subseteq proved)'
      BY <1>1, <1>3, <2>1, <2>3 DEF RowsOK, RowTypes, FactsOK
    <2>5. LinksAreProved'
      BY <1>1, <1>3, <2>1 DEF RowsOK, LinksAreProved, ImportOwnsLink, SuccessWasProved, LinkKeepsTask
    <2>6. ltask'[exec.task].state # "succeeded"
      BY <1>2, <2>1 DEF ExecutionOK
    <2>7. QED
      BY <1>2, <2>1, <2>4, <2>5, <2>6, FailingIsOK DEF RowsOK
  <1>7. QED
    BY <1>5, <1>6

LEMMA RefreshFailureKeeps == LocalInv /\ RefreshFails => LocalInv'
  <1> SUFFICES ASSUME LocalInv, RefreshFails PROVE LocalInv'
    OBVIOUS
  <1>1. /\ exec.pc = "checked" /\ Goto("failed") /\ UNCHANGED <<file, plans, ltask, fact, link, proved>>
        /\ lindex' = lindex \/ lindex' = [lindex EXCEPT !.valid = FALSE]
    BY DEF RefreshFails, At
  <1>2. ExecutionOK(exec) /\ exec # Resting
    BY <1>1, Executing DEF Resting
  <1>3. RowsOK'
    BY <1>1, RowsRest
  <1>4. QED
    BY <1>1, <1>2, <1>3, FailingIsOK DEF ExecutionOK

LEMMA VerifyKeeps == LocalInv /\ VerifyLink => LocalInv'
  <1> SUFFICES ASSUME LocalInv, VerifyLink PROVE LocalInv'
    OBVIOUS
  <1> PICK t : t = exec.task
    OBVIOUS
  <1>1. /\ exec.pc = "linked" /\ UNCHANGED <<file, plans, ltask, fact, link, lindex, proved>>
        /\ Goto(IF VerifyHolds(t) THEN "verified" ELSE "failed")
    BY DEF VerifyLink, At
  <1>2. /\ ExecutionOK(exec) /\ t \in LocalTasks /\ exec # Resting
        /\ exec = [pc |-> "linked", task |-> t, fact |-> exec.fact] /\ exec.fact \in Files
    BY <1>1, Executing DEF Resting
  <1>3. RowsOK'
    BY <1>1, RowsRest
  <1>4. CASE VerifyHolds(t)
    <2> PICK x : x = [pc |-> "verified", task |-> t, fact |-> exec.fact]
      OBVIOUS
    <2>1. exec' = x /\ x \in Execution
      BY <1>1, <1>2, <1>4 DEF Goto, Execution
    <2>2. t \in Imports => /\ exec.fact # 0 /\ Sha(exec.fact) = t.sha
                           /\ link = [task |-> t, sha |-> t.sha] /\ t.kind = "import"
      BY <1>1, <1>2, TaskKinds DEF ExecutionOK, KnowsFile, KnowsLink
    <2>3. t \in Imports => t \in proved
      <3> SUFFICES ASSUME t \in Imports PROVE t \in proved
        OBVIOUS
      <3>1. file = exec.fact /\ lindex.valid /\ lindex.file # 0 /\ Sha(lindex.file) = Sha(exec.fact)
        BY <1>4, <2>2 DEF VerifyHolds
      <3>2. link.task = t /\ link.sha = t.sha /\ link # NoLink
        BY <2>2, TaskKinds DEF NoLink
      <3>3. t \in Agreed
        BY <2>2, <3>1, <3>2 DEF Agreed
      <3>4. QED
        BY <3>3 DEF LocalInv, RowsOK
    <2>4. ExecutionOK(x)'
      BY <1>1, <1>2, <2>1, <2>2, <2>3 DEF ExecutionOK, KnowsFile, KnowsLink, KnowsProof
    <2>5. QED
      BY <1>3, <2>1, <2>4 DEF LocalInv
  <1>5. CASE ~VerifyHolds(t)
    BY <1>1, <1>2, <1>3, <1>5, FailingIsOK DEF ExecutionOK
  <1>6. QED
    BY <1>4, <1>5

LEMMA SucceedKeeps == LocalInv /\ SucceedLocal => LocalInv'
  <1> SUFFICES ASSUME LocalInv, SucceedLocal PROVE LocalInv'
    OBVIOUS
  <1> PICK t : t = exec.task
    OBVIOUS
  <1> PICK r : r = LocalRow("succeeded", "durable_verified")
    OBVIOUS
  <1>1. exec.pc = "verified" /\ UNCHANGED <<file, plans, fact, link, lindex, proved>>
    BY DEF SucceedLocal, At
  <1>2. /\ ExecutionOK(exec) /\ t \in LocalTasks /\ exec # Resting
    BY <1>1, Executing DEF Resting
  <1>3. CASE Running
    <2>1. ltask' = [ltask EXCEPT ![t] = r] /\ exec' = Resting
      BY <1>3 DEF SucceedLocal, Moved, SuccessStage
    <2>2. RowsOK /\ ltask \in [LocalTasks -> LocalRows] /\ ltask[t] # NoLocal
      BY <1>3 DEF LocalInv, RowsOK, RowTypes, Running, Row, NoLocal, LocalRow
    <2>3. r \in LocalRows /\ r # NoLocal /\ r.state = "succeeded" /\ r.stage = "durable_verified"
      BY RowFields DEF TaskState, Stages, RecoveryReviewStages
    <2>4. /\ ltask' \in [LocalTasks -> LocalRows] /\ ltask'[t] = r
          /\ \A u \in LocalTasks \ {t} : ltask'[u] = ltask[u]
      BY <1>2, <2>1, <2>2, <2>3
    <2>5. t \in Imports => t \in proved /\ link = [task |-> t, sha |-> t.sha]
      BY <1>1, <1>2 DEF ExecutionOK, KnowsProof, KnowsLink
    <2>6. LocalTypeOK'
      BY <1>1, <2>2, <2>3, <2>4 DEF RowsOK, RowTypes, LocalTypeOK, TaskState
    <2>7. RowTypes' /\ FactsOK'
      BY <1>1, <2>2, <2>4, <2>6, TaskKinds DEF RowsOK, RowTypes, FactsOK
    <2>8. (Agreed \subseteq proved)'
      BY <1>1, <2>2 DEF RowsOK, Agreed
    <2>9. t \in Imports => link # NoLink /\ link.task = t /\ link.sha = t.sha
      BY <2>5, TaskKinds DEF NoLink
    <2>10. ImportOwnsLink' /\ SuccessWasProved'
      BY <1>1, <2>2, <2>4, <2>5, <2>9, TaskKinds
         DEF RowsOK, LinksAreProved, ImportOwnsLink, SuccessWasProved
    <2>11. LinkKeepsTask'
      <3>1. link # NoLink => link.task \in LocalTasks /\ ltask[link.task] # NoLocal
        BY <2>2, LinkIsReal, TaskKinds DEF RowsOK, RowTypes, LinksAreProved, LinkKeepsTask
      <3>2. QED
        BY <1>1, <2>3, <2>4, <3>1 DEF LinkKeepsTask
    <2>12. QED
      BY <2>1, <2>7, <2>8, <2>10, <2>11 DEF LocalInv, RowsOK, LinksAreProved
  <1>4. CASE ~Running
    <2>1. Goto("failed") /\ UNCHANGED ltask
      BY <1>4 DEF SucceedLocal
    <2>2. RowsOK'
      BY <1>1, <2>1, RowsRest
    <2>3. QED
      BY <1>2, <2>1, <2>2, FailingIsOK DEF ExecutionOK
  <1>5. QED
    BY <1>3, <1>4

LEMMA UnwindKeeps == LocalInv /\ Unwind => LocalInv'
  <1> SUFFICES ASSUME LocalInv, Unwind PROVE LocalInv'
    OBVIOUS
  <1>1. exec.pc = "failed" /\ exec' = Resting /\ UNCHANGED <<file, plans, fact, link, proved>>
    BY DEF Unwind, At
  <1>2. exec.task \in LocalTasks
    BY <1>1, Executing
  <1>3. CASE Running
    <2>1. /\ Moved("outcome_unknown", "recovery_required") \/ Moved("failed", "validation_failed")
          /\ lindex' = lindex \/ lindex' = [lindex EXCEPT !.valid = FALSE]
      BY <1>3 DEF Unwind
    <2>2. {"outcome_unknown", "failed"} \subseteq TaskState \ {"succeeded"}
      BY DEF TaskState
    <2>3. {"recovery_required", "validation_failed"} \subseteq Stages
      BY DEF Stages
    <2>4. RowsOK'
      BY <1>1, <1>2, <1>3, <2>1, <2>2, <2>3, MovedRow
    <2>5. QED
      BY <1>1, <2>4 DEF LocalInv
  <1>4. CASE ~Running
    <2>1. UNCHANGED <<ltask, lindex>>
      BY <1>4 DEF Unwind
    <2>2. QED
      BY <1>1, <2>1, RowsRest DEF LocalInv
  <1>5. QED
    BY <1>3, <1>4

----------------------------------------------------------------------------
LEMMA ChangeKeeps == LocalInv /\ ChangeFile => LocalInv'
  <1> SUFFICES ASSUME LocalInv, ChangeFile PROVE LocalInv'
    OBVIOUS
  <1>1. /\ file' \in Files /\ proved' = proved \cup Agreed'
        /\ UNCHANGED <<plans, ltask, fact, link, lindex, exec>>
    BY DEF ChangeFile
  <1>2. Agreed' \subseteq Imports
    <2>1. link # NoLink => link.task \in Imports
      BY DEF LocalInv, RowsOK, RowTypes, LocalTypeOK
    <2>2. QED
      BY <1>1, <2>1 DEF Agreed
  <1>3. LocalTypeOK'
    BY <1>1, <1>2 DEF LocalInv, RowsOK, RowTypes, LocalTypeOK
  <1>4. RowTypes' /\ FactsOK' /\ (Agreed \subseteq proved)'
    BY <1>1, <1>3 DEF LocalInv, RowsOK, RowTypes, FactsOK
  <1>5. LinksAreProved'
    BY <1>1 DEF LocalInv, RowsOK, LinksAreProved, ImportOwnsLink, SuccessWasProved, LinkKeepsTask
  <1>6. QED
    BY <1>1, <1>4, <1>5, ExecutionGoesOn DEF RowsOK

LEMMA CrashKeeps == LocalInv /\ CrashLocal => LocalInv'
  <1> SUFFICES ASSUME LocalInv, CrashLocal PROVE LocalInv'
    OBVIOUS
  <1>1. /\ exec' = Resting /\ UNCHANGED <<file, plans, fact, link, lindex, proved>>
        /\ ltask' = [t \in LocalTasks |-> IF ltask[t].state = "running"
                       THEN LocalRow(RecoveryTarget(ltask[t]), ltask[t].stage) ELSE ltask[t]]
    BY DEF CrashLocal
  <1>2. RowsOK /\ ltask \in [LocalTasks -> LocalRows]
    BY DEF LocalInv, RowsOK, RowTypes
  <1>3. \A t \in LocalTasks : /\ ltask'[t] \in LocalRows
                              /\ \/ ltask'[t] = ltask[t]
                                 \/ /\ ltask[t] # NoLocal /\ ltask'[t] # NoLocal
                                    /\ ltask'[t].state \in TaskState \ {"succeeded"}
    <2> SUFFICES ASSUME NEW t \in LocalTasks, ltask[t].state = "running"
                 PROVE  /\ ltask'[t] \in LocalRows /\ ltask[t] # NoLocal /\ ltask'[t] # NoLocal
                        /\ ltask'[t].state \in TaskState \ {"succeeded"}
      BY <1>1, <1>2
    <2>1. RecoveryTarget(ltask[t]) \in {"blocked", "paused"}
      BY DEF RecoveryTarget
    <2>2. ltask'[t] = LocalRow(RecoveryTarget(ltask[t]), ltask[t].stage)
      BY <1>1
    <2>3. ltask[t].stage \in Stages \cup PostWrite \cup {"none", "queued", "local_import_queued", "integrity_queued"}
      BY <1>2 DEF LocalRows
    <2>4. QED
      BY <2>1, <2>2, <2>3 DEF LocalRows, LocalRow, NoLocal, TaskState
  <1>4. LocalTypeOK'
    BY <1>1, <1>2, <1>3 DEF RowsOK, RowTypes, LocalTypeOK
  <1>5. RowTypes'
    <2>1. ltask' \in [LocalTasks -> LocalRows]
      BY <1>1, <1>3
    <2>2. QED
      BY <1>1, <1>2, <1>4, <2>1 DEF RowsOK, RowTypes
  <1>6. FactsOK' /\ (Agreed \subseteq proved)'
    BY <1>1, <1>2, <1>3, TaskKinds DEF RowsOK, FactsOK, Agreed
  <1>7. ImportOwnsLink' /\ SuccessWasProved'
    BY <1>1, <1>2, <1>3, TaskKinds DEF RowsOK, LinksAreProved, ImportOwnsLink, SuccessWasProved
  <1>8. LinkKeepsTask'
    <2>1. link # NoLink => link.task \in LocalTasks /\ ltask[link.task] # NoLocal
      BY <1>2, LinkIsReal, TaskKinds DEF RowsOK, RowTypes, LinksAreProved, LinkKeepsTask
    <2>2. QED
      BY <1>1, <1>3, <2>1 DEF LinkKeepsTask
  <1>9. QED
    BY <1>1, <1>5, <1>6, <1>7, <1>8 DEF LocalInv, RowsOK, LinksAreProved

LEMMA NextLocalInv == LocalInv /\ [LocalNext]_localVars => LocalInv'
  <1> SUFFICES ASSUME LocalInv, [LocalNext]_localVars PROVE LocalInv'
    OBVIOUS
  <1>1. CASE UNCHANGED localVars
    <2>1. RowsOK'
      BY <1>1, RowsRest DEF localVars
    <2>2. QED
      BY <1>1, <2>1, ExecutionGoesOn DEF localVars
  <1>2. CASE LocalNext
    BY <1>2, PreviewKeeps, ConfirmKeeps, CheckKeeps, UpkeepKeeps, DeleteKeeps, PagesKeep, StartLocalKeeps,
       BeatKeeps, LinkKeeps, RefreshFailureKeeps, VerifyKeeps, SucceedKeeps, UnwindKeeps, ChangeKeeps,
       CrashKeeps DEF LocalNext
  <1>3. QED
    BY <1>1, <1>2

LEMMA LocalInvHolds == LocalSpec => []LocalInv
  BY InitLocalInv, NextLocalInv, PTL DEF LocalSpec

\* A succeeded import owns the link of the path, was proved while file, link and
\* index agreed, and its history stays (execute_local_task).
THEOREM ImportsAreProved == LocalSpec => []LinksAreProved
  <1>1. LocalInv => LinksAreProved
    BY DEF LocalInv, RowsOK
  <1>2. QED
    BY <1>1, LocalInvHolds, PTL

----------------------------------------------------------------------------
(* Media index                                                             *)

Versions == 1..MaxVersions
RealRow == [ver : Versions, body : Bodies \cup {"unread"}, signed : BOOLEAN]
PathRows == [IPath -> RealRow \cup {NoRow}]

\* A row that says what its version held.
Tells(p, r) == r.ver # 0 => body[p][r.ver] # "none" /\ r.body \in {body[p][r.ver], "unread"}
AllTell(r) == \A p \in IPath : Tells(p, r[p])

DiskOK ==
    /\ mroot \in 0..MaxRoots
    /\ body \in [IPath -> [Versions -> Bodies \cup {"none"}]]
    /\ disk \in [IPath -> 0..MaxVersions]
    /\ \A p \in IPath : disk[p] # 0 => body[p][disk[p]] # "none"

\* Rows without a signature may be forged.
IndexedOK ==
    /\ irows \in PathRows
    /\ \A p \in IPath : Trusted(irows[p]) => Tells(p, irows[p])
    /\ written \in PathRows /\ AllTell(written)

Listing == [pc : {"list"}, full : BOOLEAN, root : {0}, cache : PathRows]
Reading == [pc : {"read", "write"}, full : BOOLEAN, root : 1..MaxRoots, cache : PathRows,
            todo : SUBSET IPath, found : [IPath -> 0..MaxVersions], out : PathRows]

\* What a running refresh x has: rows that tell, of the root that is there.
ScanOK(x) ==
    \/ x.pc \in {"idle", "failed"}
    \/ x \in Listing /\ AllTell(x.cache)
    \/ /\ x \in Reading /\ AllTell(x.cache) /\ AllTell(x.out)
       /\ \A p \in x.todo : x.found[p] # 0 /\ body[p][x.found[p]] # "none"
       /\ rootDrift \/ x.root = mroot

RootOpOK ==
    /\ "pc" \in DOMAIN rootOp /\ rootOp.pc \in {"idle", "make", "verify"}
    /\ rootOp.pc # "idle" => scan.pc = "idle"

\* Of the index's state: its signature is the last refresh's, its root the present
\* one, unless the histories say otherwise.
StateOK ==
    /\ istate \in [valid : BOOLEAN, root : 0..MaxRoots, signed : PathRows]
    /\ istate.valid => istate.root # 0
    /\ istate.valid /\ ~rootDrift => istate.root = mroot
    /\ istate.valid /\ ~resigned => istate.signed = written
    /\ rootDrift \in BOOLEAN /\ resigned \in BOOLEAN

IndexInv == DiskOK /\ IndexedOK /\ ScanOK(scan) /\ RootOpOK /\ StateOK

----------------------------------------------------------------------------
LEMMA NoRowIsNoRow == NoRow.ver = 0 /\ EmptyRows \in PathRows /\ \A r \in RealRow : r.ver # 0
  BY DEF NoRow, EmptyRows, PathRows, RealRow, Versions

LEMMA RowIsReal ==
    ASSUME NEW v \in Versions, NEW b \in Bodies \cup {"unread"}, NEW signed \in BOOLEAN
    PROVE  /\ IndexRow(v, b, signed) \in RealRow
           /\ IndexRow(v, b, signed).ver = v /\ IndexRow(v, b, signed).body = b
           /\ IndexRow(v, b, signed).signed = signed
  BY DEF IndexRow, RealRow

LEMMA SignedRow ==
    \A v \in Versions, b \in Bodies : /\ IndexRow(v, b, TRUE) \in RealRow
                                      /\ IndexRow(v, b, TRUE).ver = v /\ IndexRow(v, b, TRUE).body = b
  BY DEF IndexRow, RealRow

\* Versions are written once, so rows go on telling.
LEMMA TellsStays ==
    ASSUME DiskOK, \A p \in IPath, v \in Versions : body[p][v] # "none" => body'[p][v] = body[p][v],
           NEW p \in IPath, NEW r \in RealRow \cup {NoRow}, Tells(p, r)
    PROVE  Tells(p, r)'
  <1>1. r.ver # 0 => r.ver \in Versions
    BY NoRowIsNoRow DEF RealRow
  <1>2. QED
    BY <1>1 DEF Tells

LEMMA EmptyTells == AllTell(EmptyRows)
  BY NoRowIsNoRow DEF AllTell, Tells, EmptyRows

\* The cache of a refresh that begins.
LEMMA CacheTells ==
    ASSUME IndexedOK, NEW c, c = [p \in IPath |-> IF Trusted(irows[p]) THEN irows[p] ELSE NoRow]
    PROVE  c \in PathRows /\ AllTell(c)
  <1>1. \A p \in IPath : c[p] = irows[p] \/ c[p] = NoRow
    OBVIOUS
  <1>2. c \in PathRows
    BY <1>1 DEF IndexedOK, PathRows
  <1>3. \A p \in IPath : Tells(p, c[p])
    BY NoRowIsNoRow DEF IndexedOK, Tells
  <1>4. QED
    BY <1>2, <1>3 DEF AllTell

\* Disk and histories unchanged: what was known of rows and refresh stays.
LEMMA DiskStays ==
    ASSUME UNCHANGED <<mroot, disk, body>>, DiskOK
    PROVE  DiskOK'
  BY DEF DiskOK

LEMMA RowsStay ==
    ASSUME UNCHANGED <<body, irows, written>>, IndexedOK
    PROVE  IndexedOK'
  BY DEF IndexedOK, Tells, AllTell

\* A step of the refresh that leaves everything else alone.
LEMMA ScanSteps ==
    ASSUME IndexInv, UNCHANGED <<mroot, disk, body, irows, istate, rootOp, written, resigned, rootDrift>>,
           ScanOK(scan'), rootOp.pc = "idle"
    PROVE  IndexInv'
  <1>1. ScanOK(scan)'
    BY DEF ScanOK, AllTell, Tells
  <1>2. DiskOK' /\ IndexedOK'
    BY DiskStays, RowsStay DEF IndexInv
  <1>3. RootOpOK' /\ StateOK'
    BY DEF IndexInv, RootOpOK, StateOK
  <1>4. QED
    BY <1>1, <1>2, <1>3 DEF IndexInv

LEMMA InitIndexInv == IndexInit => IndexInv
  <1> SUFFICES ASSUME IndexInit PROVE IndexInv
    OBVIOUS
  <1>1. 1 \in Versions /\ 1 \in 1..MaxRoots /\ 1 \in 0..MaxRoots /\ 1 \in 0..MaxVersions /\ 0 \in 0..MaxRoots
    BY IndexAssumption DEF Versions
  <1>2. DiskOK
    <2>1. body \in [IPath -> [Versions -> Bodies \cup {"none"}]]
      BY DEF IndexInit, Versions
    <2>2. \A p \in IPath : body[p][1] \in {"image", "link"}
      BY DEF IndexInit
    <2>3. disk = [p \in IPath |-> 1] /\ mroot = 1
      BY DEF IndexInit
    <2>4. QED
      BY <1>1, <2>1, <2>2, <2>3 DEF DiskOK
  <1>3. irows = EmptyRows /\ written = EmptyRows
    BY DEF IndexInit
  <1>4. IndexedOK
    <2>1. \A p \in IPath : ~Trusted(EmptyRows[p])
      BY NoRowIsNoRow DEF Trusted, EmptyRows
    <2>2. QED
      BY <1>3, <2>1, NoRowIsNoRow, EmptyTells DEF IndexedOK
  <1>5. scan.pc = "idle" /\ rootOp = RootIdle
    BY DEF IndexInit, NotScanning
  <1>6. ScanOK(scan) /\ RootOpOK
    BY <1>5 DEF ScanOK, RootOpOK, RootIdle
  <1>7. StateOK
    <2>1. /\ istate = [valid |-> FALSE, root |-> 0, signed |-> EmptyRows]
          /\ rootDrift = FALSE /\ resigned = FALSE
      BY DEF IndexInit
    <2>2. QED
      BY <1>1, <2>1, NoRowIsNoRow DEF StateOK
  <1>8. QED
    BY <1>2, <1>4, <1>6, <1>7 DEF IndexInv

----------------------------------------------------------------------------
LEMMA BeginKeeps == IndexInv /\ (\E full \in BOOLEAN : BeginRefresh(full)) => IndexInv'
  <1> SUFFICES ASSUME IndexInv, NEW full \in BOOLEAN, BeginRefresh(full) PROVE IndexInv'
    OBVIOUS
  <1> PICK c : c = [p \in IPath |-> IF Trusted(irows[p]) THEN irows[p] ELSE NoRow]
    OBVIOUS
  <1>1. /\ scan' = [pc |-> "list", full |-> full, root |-> 0, cache |-> c] /\ rootOp.pc = "idle"
        /\ UNCHANGED <<mroot, disk, body, irows, istate, rootOp, written, resigned, rootDrift>>
    BY DEF BeginRefresh
  <1>2. c \in PathRows /\ AllTell(c)
    BY CacheTells DEF IndexInv
  <1>3. ScanOK(scan')
    BY <1>1, <1>2 DEF ScanOK, Listing
  <1>4. QED
    BY <1>1, <1>3, ScanSteps

\* The root operation rests while a refresh runs.
LEMMA RootRests == IndexInv /\ scan.pc # "idle" => rootOp.pc = "idle"
  BY DEF IndexInv, RootOpOK

LEMMA ListKeeps == IndexInv /\ ListFiles => IndexInv'
  <1> SUFFICES ASSUME IndexInv, ListFiles PROVE IndexInv'
    OBVIOUS
  <1>1. /\ scan.pc = "list"
        /\ UNCHANGED <<mroot, disk, body, irows, istate, rootOp, written, resigned, rootDrift>>
    BY DEF ListFiles, ScanAt
  <1>2. scan \in Listing /\ AllTell(scan.cache)
    BY <1>1 DEF IndexInv, ScanOK, Reading
  <1>3. CASE mroot = 0
    <2>1. scan' = [scan EXCEPT !.pc = "failed"]
      BY <1>3 DEF ListFiles
    <2>2. scan'.pc = "failed"
      BY <1>2, <2>1 DEF Listing
    <2>3. QED
      BY <1>1, <2>2, ScanSteps, RootRests DEF ScanOK
  <1>4. CASE mroot # 0
    <2> PICK todo : todo = {p \in IPath : BodyNow(p) \in Regular}
      OBVIOUS
    <2>1. scan' = [pc |-> "read", full |-> scan.full, cache |-> scan.cache, root |-> mroot,
                   todo |-> todo, found |-> disk, out |-> EmptyRows]
      BY <1>4 DEF ListFiles
    <2>2. scan' \in Reading
      BY <1>2, <1>4, <2>1, NoRowIsNoRow DEF Reading, Listing, IndexInv, DiskOK
    <2>3. \A p \in todo : disk[p] # 0 /\ body[p][disk[p]] # "none"
      BY DEF BodyNow, Regular
    <2>4. ScanOK(scan')
      BY <1>2, <2>1, <2>2, <2>3, EmptyTells DEF ScanOK
    <2>5. QED
      BY <1>1, <2>4, ScanSteps, RootRests
  <1>5. QED
    BY <1>3, <1>4

LEMMA ReadKeeps == IndexInv /\ (\E p \in IPath : ReadFile(p)) => IndexInv'
  <1> SUFFICES ASSUME IndexInv, NEW p \in IPath, ReadFile(p) PROVE IndexInv'
    OBVIOUS
  <1>1. /\ scan.pc = "read" /\ p \in scan.todo
        /\ UNCHANGED <<mroot, disk, body, irows, istate, rootOp, written, resigned, rootDrift>>
    BY DEF ReadFile, ScanAt
  <1>2. /\ scan \in Reading /\ AllTell(scan.cache) /\ AllTell(scan.out)
        /\ \A q \in scan.todo : scan.found[q] # 0 /\ body[q][scan.found[q]] # "none"
        /\ rootDrift \/ scan.root = mroot
    BY <1>1 DEF IndexInv, ScanOK, Listing
  <1> PICK v : v = scan.found[p]
    OBVIOUS
  <1>3. v \in Versions /\ body[p][v] \in Bodies /\ body[p][v] # "none"
    <2>1. v \in 0..MaxVersions /\ v # 0 /\ body[p][v] # "none"
      BY <1>1, <1>2 DEF Reading
    <2>2. v \in Versions
      BY <2>1, IndexAssumption DEF Versions
    <2>3. QED
      BY <2>1, <2>2 DEF IndexInv, DiskOK
  <1>4. CASE disk[p] = v
    <2>1. PICK b \in IF Reusable(p) THEN {scan.cache[p].body} ELSE {body[p][v], "unread"} :
              scan' = [scan EXCEPT !.todo = @ \ {p}, !.out[p] = IndexRow(v, b, TRUE)]
      BY <1>4 DEF ReadFile
    <2>2. b \in {body[p][v], "unread"}
      <3>1. CASE Reusable(p)
        <4>1. scan.cache[p].ver # 0 /\ scan.cache[p].ver = v /\ b = scan.cache[p].body
          BY <2>1, <3>1 DEF Reusable
        <4>2. QED
          BY <1>2, <4>1 DEF AllTell, Tells
      <3>2. CASE ~Reusable(p)
        BY <2>1, <3>2
      <3>3. QED
        BY <3>1, <3>2
    <2> PICK r : r = IndexRow(v, b, TRUE)
      OBVIOUS
    <2>3. r \in RealRow /\ Tells(p, r)
      <3>1. b \in Bodies \cup {"unread"}
        BY <1>3, <2>2
      <3>2. r \in RealRow /\ r.ver = v /\ r.body = b
        BY <1>3, <3>1, RowIsReal
      <3>3. QED
        BY <1>3, <2>2, <3>2 DEF Tells
    <2>4. /\ scan' \in Reading /\ scan'.todo = scan.todo \ {p} /\ scan'.out = [scan.out EXCEPT ![p] = r]
          /\ scan'.found = scan.found /\ scan'.cache = scan.cache /\ scan'.root = scan.root
      BY <1>2, <2>1, <2>3 DEF Reading, PathRows
    <2>5. AllTell(scan'.out)
      BY <1>2, <2>3, <2>4 DEF AllTell, Reading, PathRows
    <2>6. ScanOK(scan')
      BY <1>2, <2>4, <2>5 DEF ScanOK
    <2>7. QED
      BY <1>1, <2>6, ScanSteps, RootRests
  <1>5. CASE disk[p] # v
    <2>1. scan' = [scan EXCEPT !.todo = @ \ {p}]
      BY <1>5 DEF ReadFile
    <2>2. /\ scan' \in Reading /\ scan'.todo = scan.todo \ {p} /\ scan'.out = scan.out
          /\ scan'.found = scan.found /\ scan'.cache = scan.cache /\ scan'.root = scan.root
      BY <1>2, <2>1 DEF Reading
    <2>3. ScanOK(scan')
      BY <1>2, <2>2 DEF ScanOK
    <2>4. QED
      BY <1>1, <2>3, ScanSteps, RootRests
  <1>6. QED
    BY <1>4, <1>5

LEMMA CheckDirectoriesKeeps == IndexInv /\ CheckDirectories => IndexInv'
  <1> SUFFICES ASSUME IndexInv, CheckDirectories PROVE IndexInv'
    OBVIOUS
  <1>1. /\ scan.pc = "read"
        /\ UNCHANGED <<mroot, disk, body, irows, istate, rootOp, written, resigned, rootDrift>>
        /\ scan' = [scan EXCEPT !.pc = "write"] \/ scan' = [scan EXCEPT !.pc = "failed"]
    BY DEF CheckDirectories, ScanAt
  <1>2. /\ scan \in Reading /\ AllTell(scan.cache) /\ AllTell(scan.out)
        /\ \A q \in scan.todo : scan.found[q] # 0 /\ body[q][scan.found[q]] # "none"
        /\ rootDrift \/ scan.root = mroot
    BY <1>1 DEF IndexInv, ScanOK, Listing
  <1>3. CASE scan' = [scan EXCEPT !.pc = "write"]
    <2>1. /\ scan' \in Reading /\ scan'.todo = scan.todo /\ scan'.out = scan.out
          /\ scan'.found = scan.found /\ scan'.cache = scan.cache /\ scan'.root = scan.root
      BY <1>2, <1>3 DEF Reading
    <2>2. ScanOK(scan')
      BY <1>2, <2>1 DEF ScanOK
    <2>3. QED
      BY <1>1, <2>2, ScanSteps, RootRests
  <1>4. CASE scan' = [scan EXCEPT !.pc = "failed"]
    <2>1. scan'.pc = "failed"
      BY <1>2, <1>4 DEF Reading
    <2>2. QED
      BY <1>1, <2>1, ScanSteps, RootRests DEF ScanOK
  <1>5. QED
    BY <1>1, <1>3, <1>4

LEMMA WriteIndexKeeps == IndexInv /\ WriteIndex => IndexInv'
  <1> SUFFICES ASSUME IndexInv, WriteIndex PROVE IndexInv'
    OBVIOUS
  <1>1. /\ scan.pc = "write" /\ irows' = scan.out /\ written' = scan.out /\ resigned' = FALSE
        /\ istate' = [valid |-> TRUE, root |-> scan.root, signed |-> scan.out]
        /\ rootDrift' = (rootDrift /\ mroot # scan.root) /\ scan' = NotScanning
        /\ UNCHANGED <<mroot, disk, body, rootOp>>
    BY DEF WriteIndex, ScanAt
  <1>2. /\ scan \in Reading /\ AllTell(scan.out) /\ (rootDrift \/ scan.root = mroot)
    BY <1>1 DEF IndexInv, ScanOK, Listing
  <1>3. scan.out \in PathRows /\ scan.root \in 1..MaxRoots
    BY <1>2 DEF Reading
  <1>4. IndexedOK'
    BY <1>1, <1>2, <1>3 DEF IndexedOK, AllTell, Tells
  <1>5. StateOK'
    <2>1. istate'.root # 0 /\ istate'.valid /\ istate'.signed = written' /\ istate'.root = scan.root
      BY <1>1, <1>3, IndexAssumption
    <2>2. istate' \in [valid : BOOLEAN, root : 0..MaxRoots, signed : PathRows]
      <3>1. scan.root \in 0..MaxRoots
        BY <1>3, IndexAssumption
      <3>2. QED
        BY <1>1, <1>3, <3>1
    <2>3. ~rootDrift' => istate'.root = mroot'
      BY <1>1, <1>2, <2>1
    <2>4. rootDrift' \in BOOLEAN /\ resigned' \in BOOLEAN
      BY <1>1
    <2>5. QED
      BY <2>1, <2>2, <2>3, <2>4 DEF StateOK
  <1>6. ScanOK(scan)' /\ RootOpOK'
    BY <1>1 DEF ScanOK, NotScanning, RootOpOK, IndexInv
  <1>7. QED
    BY <1>1, <1>4, <1>5, <1>6, DiskStays DEF IndexInv

LEMMA ScanFailsKeeps == IndexInv /\ ScanFails => IndexInv'
  <1> SUFFICES ASSUME IndexInv, ScanFails PROVE IndexInv'
    OBVIOUS
  <1>1. /\ scan.pc \in {"list", "read", "write"} /\ scan' = [scan EXCEPT !.pc = "failed"]
        /\ UNCHANGED <<mroot, disk, body, irows, istate, rootOp, written, resigned, rootDrift>>
    BY DEF ScanFails
  <1>2. scan \in Listing \/ scan \in Reading
    BY <1>1 DEF IndexInv, ScanOK
  <1>3. scan'.pc = "failed"
    BY <1>1, <1>2 DEF Listing, Reading
  <1>4. QED
    BY <1>1, <1>3, ScanSteps, RootRests DEF ScanOK

\* The state's row changes by signing what is there or by losing its validity.
LEMMA StateSteps ==
    ASSUME IndexInv, UNCHANGED <<mroot, disk, body, irows, written>>,
           istate'.valid => istate.valid, istate'.root = istate.root,
           istate' \in [valid : BOOLEAN, root : 0..MaxRoots, signed : PathRows],
           istate'.valid /\ ~resigned' => ~resigned /\ istate'.signed = istate.signed,
           istate'.valid /\ ~rootDrift' => ~rootDrift,
           rootDrift' \in BOOLEAN, resigned' \in BOOLEAN
    PROVE  DiskOK' /\ IndexedOK' /\ StateOK'
  <1>1. DiskOK' /\ IndexedOK'
    BY DiskStays, RowsStay DEF IndexInv
  <1>2. StateOK'
    BY DEF IndexInv, StateOK
  <1>3. QED
    BY <1>1, <1>2

LEMMA RecordKeeps == IndexInv /\ RecordFailure => IndexInv'
  <1> SUFFICES ASSUME IndexInv, RecordFailure PROVE IndexInv'
    OBVIOUS
  <1>1. scan' = NotScanning /\ UNCHANGED <<mroot, disk, body, irows, rootOp, written, rootDrift>>
    BY DEF RecordFailure
  <1>2. PICK recorded \in BOOLEAN, invalidate \in BOOLEAN :
          /\ istate' = IF recorded \/ invalidate
                       THEN [istate EXCEPT !.valid = @ /\ ~invalidate, !.signed = irows] ELSE istate
          /\ resigned' = (resigned \/ (recorded /\ irows # istate.signed))
    BY DEF RecordFailure
  <1>3. istate \in [valid : BOOLEAN, root : 0..MaxRoots, signed : PathRows] /\ irows \in PathRows
    BY DEF IndexInv, StateOK, IndexedOK
  <1>4. resigned \in BOOLEAN /\ rootDrift \in BOOLEAN
    BY DEF IndexInv, StateOK
  <1>5. CASE recorded \/ invalidate
    <2> PICK valid : valid = (istate.valid /\ ~invalidate)
      OBVIOUS
    <2>1. istate' = [istate EXCEPT !.valid = valid, !.signed = irows] /\ valid \in BOOLEAN
      BY <1>2, <1>3, <1>5
    <2>2. /\ istate' \in [valid : BOOLEAN, root : 0..MaxRoots, signed : PathRows]
          /\ istate'.valid = valid /\ istate'.signed = irows /\ istate'.root = istate.root
      BY <1>3, <2>1
    <2>3. istate'.valid => istate.valid /\ ~invalidate
      BY <2>2
    <2>4. istate'.valid /\ ~resigned' => ~resigned /\ istate'.signed = istate.signed
      BY <1>2, <1>5, <2>2, <2>3
    <2>5. resigned' \in BOOLEAN /\ rootDrift' \in BOOLEAN
      BY <1>1, <1>2, <1>4
    <2>6. DiskOK' /\ IndexedOK' /\ StateOK'
      BY <1>1, <2>2, <2>3, <2>4, <2>5, StateSteps
    <2>7. QED
      BY <1>1, <2>6 DEF IndexInv, ScanOK, NotScanning, RootOpOK
  <1>6. CASE ~(recorded \/ invalidate)
    <2>1. istate' = istate /\ (resigned' <=> resigned) /\ resigned' \in BOOLEAN
      BY <1>2, <1>4, <1>6
    <2>2. DiskOK' /\ IndexedOK' /\ StateOK'
      BY <1>1, <1>3, <1>4, <2>1, StateSteps
    <2>3. QED
      BY <1>1, <2>2 DEF IndexInv, ScanOK, NotScanning, RootOpOK
  <1>7. QED
    BY <1>5, <1>6

LEMMA InvalidIs ==
    ASSUME IndexInv, istate' = [istate EXCEPT !.valid = FALSE, !.signed = irows]
    PROVE  /\ istate' \in [valid : BOOLEAN, root : 0..MaxRoots, signed : PathRows]
           /\ ~istate'.valid /\ istate'.root = istate.root
  <1>1. istate \in [valid : BOOLEAN, root : 0..MaxRoots, signed : PathRows] /\ irows \in PathRows
    BY DEF IndexInv, StateOK, IndexedOK
  <1>2. QED
    BY <1>1

LEMMA InvalidateKeeps == IndexInv /\ InvalidateIndex => IndexInv'
  <1> SUFFICES ASSUME IndexInv, InvalidateIndex PROVE IndexInv'
    OBVIOUS
  <1>1. /\ istate' = [istate EXCEPT !.valid = FALSE, !.signed = irows]
        /\ UNCHANGED <<mroot, disk, body, irows, scan, rootOp, written, resigned, rootDrift>>
    BY DEF InvalidateIndex
  <1>2. resigned \in BOOLEAN /\ rootDrift \in BOOLEAN
    BY DEF IndexInv, StateOK
  <1>3. DiskOK' /\ IndexedOK' /\ StateOK'
    BY <1>1, <1>2, InvalidIs, StateSteps
  <1>4. ScanOK(scan)'
    BY <1>1 DEF IndexInv, ScanOK, AllTell, Tells
  <1>5. QED
    BY <1>1, <1>3, <1>4 DEF IndexInv, RootOpOK

----------------------------------------------------------------------------
LEMMA RootPreviewKeeps == IndexInv /\ (DiagnoseRoot \/ ConfirmRoot) => IndexInv'
  <1> SUFFICES ASSUME IndexInv, DiagnoseRoot \/ ConfirmRoot PROVE IndexInv'
    OBVIOUS
  <1>1. UNCHANGED <<mroot, disk, body, irows, istate, scan, written, resigned, rootDrift>>
    BY DEF DiagnoseRoot, ConfirmRoot
  <1>2. RootOpOK'
    <2>1. CASE DiagnoseRoot
      BY <1>1, <2>1 DEF DiagnoseRoot, IndexInv, RootOpOK
    <2>2. CASE ConfirmRoot
      BY <1>1, <2>2 DEF ConfirmRoot, ScanAt, IndexInv, RootOpOK
    <2>3. QED
      BY <2>1, <2>2
  <1>3. ScanOK(scan)' /\ StateOK'
    BY <1>1 DEF IndexInv, ScanOK, AllTell, Tells, StateOK
  <1>4. QED
    BY <1>1, <1>2, <1>3, DiskStays, RowsStay DEF IndexInv

LEMMA NewRootIsOne == 1..MaxRoots \ RootsUsed # {} => NewRoot \in 1..MaxRoots
  BY DEF NewRoot

LEMMA MakeRootKeeps == IndexInv /\ MakeRoot => IndexInv'
  <1> SUFFICES ASSUME IndexInv, MakeRoot PROVE IndexInv'
    OBVIOUS
  <1>1. rootOp.pc = "make" /\ UNCHANGED <<disk, body, irows, istate, scan, written, resigned, rootDrift>>
    BY DEF MakeRoot
  <1>2. scan.pc = "idle" /\ scan'.pc = "idle"
    BY <1>1 DEF IndexInv, RootOpOK
  <1>3. CASE mroot = 0 /\ 1..MaxRoots \ RootsUsed # {} /\ mroot' = NewRoot
             /\ rootOp' = [rootOp EXCEPT !.pc = "verify", !.made = NewRoot]
    <2>1. mroot' \in 0..MaxRoots
      BY <1>3, NewRootIsOne, IndexAssumption
    <2>2. DiskOK'
      BY <1>1, <2>1 DEF IndexInv, DiskOK
    <2>3. StateOK'
      BY <1>1, <1>3 DEF IndexInv, StateOK
    <2>4. RootOpOK'
      <3>1. "pc" \in DOMAIN rootOp
        BY DEF IndexInv, RootOpOK
      <3>2. "pc" \in DOMAIN rootOp' /\ rootOp'.pc = "verify"
        BY <1>3, <3>1
      <3>3. QED
        BY <1>2, <3>2 DEF RootOpOK
    <2>5. QED
      BY <1>1, <1>2, <2>2, <2>3, <2>4, RowsStay DEF IndexInv, ScanOK
  <1>4. CASE rootOp' = RootIdle /\ UNCHANGED mroot
    BY <1>1, <1>2, <1>4, DiskStays, RowsStay DEF IndexInv, ScanOK, RootOpOK, RootIdle, StateOK
  <1>5. QED
    BY <1>3, <1>4 DEF MakeRoot

LEMMA VerifyRootKeeps == IndexInv /\ VerifyRoot => IndexInv'
  <1> SUFFICES ASSUME IndexInv, VerifyRoot PROVE IndexInv'
    OBVIOUS
  <1>1. /\ rootOp.pc = "verify" /\ rootOp' = RootIdle
        /\ UNCHANGED <<mroot, disk, body, irows, written, resigned>>
    BY DEF VerifyRoot
  <1>2. scan.pc = "idle"
    BY <1>1 DEF IndexInv, RootOpOK
  <1>3. RootOpOK'
    BY <1>1 DEF RootOpOK, RootIdle
  <1>4. CASE UNCHANGED <<istate, rootDrift>>
             /\ scan' = [pc |-> "list", full |-> FALSE, root |-> 0,
                         cache |-> [p \in IPath |-> IF Trusted(irows[p]) THEN irows[p] ELSE NoRow]]
    <2> PICK c : c = [p \in IPath |-> IF Trusted(irows[p]) THEN irows[p] ELSE NoRow]
      OBVIOUS
    <2>1. c \in PathRows /\ AllTell(c)
      BY CacheTells DEF IndexInv
    <2>2. scan' = [pc |-> "list", full |-> FALSE, root |-> 0, cache |-> c]
      BY <1>4
    <2>3. scan' \in Listing /\ scan'.cache = c
      BY <2>1, <2>2 DEF Listing
    <2>4. AllTell(c)'
      BY <1>1, <2>1 DEF AllTell, Tells
    <2>5. ScanOK(scan)'
      BY <2>3, <2>4 DEF ScanOK
    <2>6. StateOK'
      BY <1>1, <1>4 DEF IndexInv, StateOK
    <2>7. QED
      BY <1>1, <1>3, <2>5, <2>6, DiskStays, RowsStay DEF IndexInv
  <1>5. CASE \E done \in BOOLEAN : AfterRoot(done) /\ rootDrift' = ~done /\ UNCHANGED scan
    <2>1. PICK done \in BOOLEAN : AfterRoot(done) /\ rootDrift' = ~done /\ UNCHANGED scan
      BY <1>5
    <2>2. resigned' \in BOOLEAN /\ rootDrift' \in BOOLEAN
      BY <1>1, <2>1 DEF IndexInv, StateOK
    <2>3. StateOK'
      <3>1. CASE done
        <4>1. istate' = [istate EXCEPT !.valid = FALSE, !.signed = irows]
          BY <2>1, <3>1 DEF AfterRoot
        <4>2. QED
          BY <2>2, <4>1, InvalidIs DEF StateOK
      <3>2. CASE ~done
        <4>1. istate' = istate /\ rootDrift'
          BY <2>1, <3>2 DEF AfterRoot
        <4>2. QED
          BY <1>1, <2>2, <4>1 DEF IndexInv, StateOK
      <3>3. QED
        BY <3>1, <3>2
    <2>4. QED
      BY <1>1, <1>2, <1>3, <2>1, <2>3, DiskStays, RowsStay DEF IndexInv, ScanOK
  <1>6. QED
    BY <1>4, <1>5 DEF VerifyRoot

----------------------------------------------------------------------------
\* Others change files or the root, never a version that was there.
LEMMA OthersKeep ==
    ASSUME IndexInv, DiskOK', UNCHANGED <<irows, istate, scan, rootOp, written, resigned>>,
           \A p \in IPath, v \in Versions : body[p][v] # "none" => body'[p][v] = body[p][v],
           rootDrift' = TRUE \/ UNCHANGED <<mroot, rootDrift>>
    PROVE  IndexInv'
  <1>1. \A r \in PathRows : AllTell(r) => AllTell(r)'
    <2> SUFFICES ASSUME NEW r \in PathRows, AllTell(r), NEW p \in IPath PROVE Tells(p, r[p])'
      BY DEF AllTell
    <2>1. r[p] \in RealRow \cup {NoRow} /\ Tells(p, r[p])
      BY DEF PathRows, AllTell
    <2>2. QED
      BY <2>1, TellsStays DEF IndexInv
  <1>2. IndexedOK'
    <2>1. \A p \in IPath : Trusted(irows[p]) => Tells(p, irows[p])'
      BY TellsStays DEF IndexInv, IndexedOK, PathRows
    <2>2. QED
      BY <1>1, <2>1 DEF IndexInv, IndexedOK, Trusted
  <1>3. ScanOK(scan)'
    <2>1. CASE scan.pc \in {"idle", "failed"}
      BY <2>1 DEF ScanOK
    <2>2. CASE scan \in Listing /\ AllTell(scan.cache)
      BY <1>1, <2>2 DEF ScanOK, Listing
    <2>3. CASE /\ scan \in Reading /\ AllTell(scan.cache) /\ AllTell(scan.out)
               /\ \A p \in scan.todo : scan.found[p] # 0 /\ body[p][scan.found[p]] # "none"
               /\ rootDrift \/ scan.root = mroot
      <3>1. AllTell(scan.cache)' /\ AllTell(scan.out)'
        <4>1. scan.cache \in PathRows /\ scan.out \in PathRows
          BY <2>3 DEF Reading
        <4> PICK c, d : c = scan.cache /\ d = scan.out
          OBVIOUS
        <4>2. AllTell(c)' /\ AllTell(d)'
          BY <1>1, <2>3, <4>1
        <4>3. c = scan'.cache /\ d = scan'.out
          OBVIOUS
        <4>4. QED
          BY <4>2, <4>3
      <3>2. \A p \in scan.todo : p \in IPath /\ scan.found[p] \in Versions
        BY <2>3 DEF Reading, Versions
      <3>3. \A p \in scan.todo : body'[p][scan.found[p]] # "none"
        BY <2>3, <3>2
      <3>4. rootDrift' \/ scan.root = mroot'
        BY <2>3
      <3>5. QED
        BY <2>3, <3>1, <3>3, <3>4 DEF ScanOK
    <2>4. QED
      BY <2>1, <2>2, <2>3 DEF IndexInv, ScanOK
  <1>4. RootOpOK' /\ StateOK'
    BY DEF IndexInv, RootOpOK, StateOK
  <1>5. QED
    BY <1>2, <1>3, <1>4 DEF IndexInv

LEMMA DiskChangeKeeps == IndexInv /\ (\E p \in IPath, b \in Bodies \cup {"none"} : ChangeDisk(p, b)) => IndexInv'
  <1> SUFFICES ASSUME IndexInv, NEW p \in IPath, NEW b \in Bodies \cup {"none"}, ChangeDisk(p, b)
               PROVE  IndexInv'
    OBVIOUS
  <1>1. UNCHANGED <<mroot, irows, istate, scan, rootOp, written, resigned, rootDrift>>
    BY DEF ChangeDisk
  <1>2. DiskOK
    BY DEF IndexInv
  <1>3. CASE disk' = [disk EXCEPT ![p] = 0] /\ UNCHANGED body
    <2>1. DiskOK'
      BY <1>1, <1>2, <1>3, IndexAssumption DEF DiskOK
    <2>2. QED
      BY <1>1, <1>3, <2>1, OthersKeep
  <1>4. CASE b \in Bodies /\ \E v \in Versions :
                /\ body[p][v] = "none" /\ disk' = [disk EXCEPT ![p] = v]
                /\ body' = [body EXCEPT ![p][v] = b]
    <2>1. PICK v \in Versions :
                /\ body[p][v] = "none" /\ disk' = [disk EXCEPT ![p] = v]
                /\ body' = [body EXCEPT ![p][v] = b]
      BY <1>4
    <2>2. /\ body' \in [IPath -> [Versions -> Bodies \cup {"none"}]] /\ body'[p][v] = b
          /\ \A q \in IPath, w \in Versions : q # p \/ w # v => body'[q][w] = body[q][w]
      BY <1>2, <2>1 DEF DiskOK
    <2>3. disk' \in [IPath -> 0..MaxVersions] /\ disk'[p] = v /\ \A q \in IPath \ {p} : disk'[q] = disk[q]
      BY <1>2, <2>1 DEF DiskOK, Versions
    <2>4. b # "none"
      BY <1>4 DEF Bodies
    <2>5. \A q \in IPath : disk'[q] # 0 => body'[q][disk'[q]] # "none"
      <3> SUFFICES ASSUME NEW q \in IPath, disk'[q] # 0 PROVE body'[q][disk'[q]] # "none"
        OBVIOUS
      <3>1. CASE q = p
        BY <2>2, <2>3, <2>4, <3>1
      <3>2. CASE q # p
        <4>1. disk[q] \in Versions
          BY <1>2, <2>3, <3>2 DEF DiskOK, Versions
        <4>2. QED
          BY <1>2, <2>2, <2>3, <3>2, <4>1 DEF DiskOK
      <3>3. QED
        BY <3>1, <3>2
    <2>6. DiskOK'
      BY <1>1, <1>2, <2>2, <2>3, <2>5 DEF DiskOK
    <2>7. \A q \in IPath, w \in Versions : body[q][w] # "none" => body'[q][w] = body[q][w]
      BY <2>1, <2>2
    <2>8. QED
      BY <1>1, <2>6, <2>7, OthersKeep
  <1>5. QED
    BY <1>3, <1>4 DEF ChangeDisk, Versions

LEMMA RootChangeKeeps == IndexInv /\ (LoseRoot \/ MakeRootElsewhere) => IndexInv'
  <1> SUFFICES ASSUME IndexInv, LoseRoot \/ MakeRootElsewhere PROVE IndexInv'
    OBVIOUS
  <1>1. UNCHANGED <<body, irows, istate, scan, rootOp, written, resigned>> /\ rootDrift' = TRUE
    BY DEF LoseRoot, MakeRootElsewhere
  <1>2. mroot' \in 0..MaxRoots
    BY NewRootIsOne, IndexAssumption DEF LoseRoot, MakeRootElsewhere
  <1>3. disk' = [p \in IPath |-> 0] \/ disk' = disk
    BY DEF LoseRoot, MakeRootElsewhere
  <1>4. DiskOK'
    BY <1>1, <1>2, <1>3, IndexAssumption DEF IndexInv, DiskOK
  <1>5. QED
    BY <1>1, <1>4, OthersKeep

LEMMA DamageKeeps == IndexInv /\ (\E p \in IPath : DamageIndex(p)) => IndexInv'
  <1> SUFFICES ASSUME IndexInv, NEW p \in IPath, DamageIndex(p) PROVE IndexInv'
    OBVIOUS
  <1>1. /\ UNCHANGED <<mroot, disk, body, istate, scan, rootOp, written, resigned, rootDrift>>
        /\ scan.pc = "idle"
    BY DEF DamageIndex, ScanAt
  <1>2. PICK r \in {NoRow, IndexRow(1, "damaged", FALSE)}
                \cup {IndexRow(v, body[p][v], TRUE) : v \in {w \in 1..MaxVersions : body[p][w] \in Regular}} :
            irows' = [irows EXCEPT ![p] = r]
    BY DEF DamageIndex
  <1>3. r \in RealRow \cup {NoRow} /\ (Trusted(r) => Tells(p, r))
    <2>1. CASE r = NoRow
      BY <2>1, NoRowIsNoRow DEF Trusted
    <2>2. CASE r = IndexRow(1, "damaged", FALSE)
      <3>1. 1 \in Versions /\ "damaged" \in Bodies
        BY IndexAssumption DEF Versions, Bodies
      <3>2. QED
        BY <2>2, <3>1, RowIsReal DEF Trusted
    <2>3. CASE \E v \in Versions : body[p][v] \in Regular /\ r = IndexRow(v, body[p][v], TRUE)
      <3>1. PICK v \in Versions : body[p][v] \in Regular /\ r = IndexRow(v, body[p][v], TRUE)
        BY <2>3
      <3>2. body[p][v] \in Bodies /\ body[p][v] # "none"
        BY <3>1 DEF Regular, Bodies
      <3>3. r \in RealRow /\ r.ver = v /\ r.body = body[p][v]
        BY <3>1, <3>2, SignedRow
      <3>4. QED
        BY <3>2, <3>3 DEF Tells
    <2>4. QED
      BY <1>2, <2>1, <2>2, <2>3 DEF Versions
  <1>4. IndexedOK'
    BY <1>1, <1>2, <1>3 DEF IndexInv, IndexedOK, PathRows, Trusted, Tells, AllTell
  <1>5. ScanOK(scan)' /\ RootOpOK' /\ StateOK'
    BY <1>1 DEF IndexInv, ScanOK, RootOpOK, StateOK
  <1>6. QED
    BY <1>1, <1>4, <1>5, DiskStays DEF IndexInv

LEMMA CrashIndexKeeps == IndexInv /\ CrashIndexing => IndexInv'
  <1> SUFFICES ASSUME IndexInv, CrashIndexing PROVE IndexInv'
    OBVIOUS
  <1>1. /\ scan' = NotScanning /\ rootOp' = RootIdle
        /\ UNCHANGED <<mroot, disk, body, irows, istate, written, resigned, rootDrift>>
    BY DEF CrashIndexing
  <1>2. ScanOK(scan)' /\ RootOpOK' /\ StateOK'
    BY <1>1 DEF IndexInv, ScanOK, NotScanning, RootOpOK, RootIdle, StateOK
  <1>3. QED
    BY <1>1, <1>2, DiskStays, RowsStay DEF IndexInv

LEMMA NextIndexInv == IndexInv /\ [IndexNext]_indexVars => IndexInv'
  <1> SUFFICES ASSUME IndexInv, [IndexNext]_indexVars PROVE IndexInv'
    OBVIOUS
  <1>1. CASE UNCHANGED indexVars
    <2>1. UNCHANGED <<irows, istate, scan, rootOp, written, resigned, mroot, rootDrift, body, disk>>
      BY <1>1 DEF indexVars
    <2>2. QED
      BY <2>1, DiskStays, OthersKeep DEF IndexInv
  <1>2. CASE IndexNext
    BY <1>2, BeginKeeps, ListKeeps, ReadKeeps, CheckDirectoriesKeeps, WriteIndexKeeps, ScanFailsKeeps,
       RecordKeeps, InvalidateKeeps, RootPreviewKeeps, MakeRootKeeps, VerifyRootKeeps, DamageKeeps,
       DiskChangeKeeps, RootChangeKeeps, CrashIndexKeeps DEF IndexNext
  <1>3. QED
    BY <1>1, <1>2

----------------------------------------------------------------------------
LEMMA PagesSee == IndexInv => PageSeesRefresh
  <1> SUFFICES ASSUME IndexInv, ~resigned
               PROVE  PageRows = written \/ \A p \in IPath : PageRows[p].ver = 0 \/ ~PageRows[p].signed
    BY DEF PageSeesRefresh
  <1>1. CASE IndexIntact
    BY <1>1 DEF IndexIntact, PageRows, IndexInv, StateOK
  <1>2. CASE ~IndexIntact
    <2>1. PageRows = [p \in IPath |-> IF BodyNow(p) \in Regular THEN IndexRow(disk[p], BodyNow(p), FALSE) ELSE NoRow]
      BY <1>2 DEF PageRows
    <2>2. \A p \in IPath : IndexRow(disk[p], BodyNow(p), FALSE).signed = FALSE
      BY DEF IndexRow
    <2>3. QED
      BY <2>1, <2>2, NoRowIsNoRow
  <1>3. QED
    BY <1>1, <1>2

\* The codes a finding set has for an object, when it has at most one.
LEMMA OneCode ==
    ASSUME NEW findings, NEW o, NEW code, Finding(code, o) \in findings,
           \A g \in findings : g.object = o => g = Finding(code, o)
    PROVE  {f.code : f \in {g \in findings : g.object = o}} = {code}
  <1>1. Finding(code, o).code = code /\ Finding(code, o).object = o
    BY DEF Finding
  <1>2. QED
    BY <1>1

\* A root that cannot be scanned: every object is reported once.
LEMMA UnscannedRoot ==
    ASSUME NEW owners \in SUBSET IObj, NEW paths \in [owners -> IPath], NEW o \in owners,
           NEW state \in RootStates \ {"ready"}
    PROVE  {f.code : f \in {g \in Audit(paths, state) : g.object = o}} =
              {IF state = "scan_failed" THEN Unscanned(paths[o]) ELSE RootReference(state)}
  <1>1. o # "media-root"
    BY IndexAssumption
  <1>2. \A code, x : Finding(code, x).object = x
    BY DEF Finding
  <1>3. CASE state = "scan_failed"
    <2> PICK code : code = Unscanned(paths[o])
      OBVIOUS
    <2>1. Audit(paths, state) = FailedScanFindings(paths)
      BY <1>3 DEF Audit
    <2>2. \A g \in Audit(paths, state) : g.object = o => g = Finding(code, o)
      BY <1>1, <1>2, <2>1 DEF FailedScanFindings
    <2>3. Finding(code, o) \in Audit(paths, state)
      BY <2>1 DEF FailedScanFindings
    <2>4. QED
      BY <1>3, <2>2, <2>3, OneCode
  <1>4. CASE state # "scan_failed"
    <2> PICK code : code = RootReference(state)
      OBVIOUS
    <2>1. Audit(paths, state) = RootFindings(paths, state)
      BY <1>4 DEF Audit
    <2>2. \A g \in Audit(paths, state) : g.object = o => g = Finding(code, o)
      BY <1>1, <1>2, <2>1 DEF RootFindings
    <2>3. Finding(code, o) \in Audit(paths, state)
      BY <2>1 DEF RootFindings
    <2>4. QED
      BY <1>4, <2>2, <2>3, OneCode
  <1>5. QED
    BY <1>3, <1>4

\* A root that is ready: an object is reported when its file is no image.
LEMMA ScannedRoot ==
    ASSUME NEW owners \in SUBSET IObj, NEW paths \in [owners -> IPath], NEW o \in owners, NEW code,
           code = IF BodyNow(paths[o]) = "damaged" THEN "media_reference_damaged" ELSE Unscanned(paths[o])
    PROVE  {f.code : f \in {g \in Audit(paths, "ready") : g.object = o}} =
              IF BodyNow(paths[o]) # "image" THEN {code} ELSE {}
  <1>1. o \notin IPath
    BY IndexAssumption
  <1>2. \A c, x : Finding(c, x).object = x
    BY DEF Finding
  <1>3. Audit(paths, "ready") = ReferenceFindings(paths) \cup FileFindings
    BY DEF Audit
  <1>4. \A g \in FileFindings : g.object # o
    BY <1>1, <1>2 DEF FileFindings
  <1>5. \A g \in ReferenceFindings(paths) :
            g.object = o => g = Finding(code, o) /\ BodyNow(paths[o]) # "image"
    BY <1>2 DEF ReferenceFindings
  <1>6. CASE BodyNow(paths[o]) # "image"
    <2>1. Finding(code, o) \in ReferenceFindings(paths)
      BY <1>6 DEF ReferenceFindings
    <2>2. \A g \in Audit(paths, "ready") : g.object = o => g = Finding(code, o)
      BY <1>3, <1>4, <1>5
    <2>3. QED
      BY <1>3, <1>6, <2>1, <2>2, OneCode
  <1>7. CASE BodyNow(paths[o]) = "image"
    BY <1>3, <1>4, <1>5, <1>7
  <1>8. QED
    BY <1>6, <1>7

LEMMA AuditIsExact == IndexInv => AuditExact
  <1> DEFINE Expected(state, now) ==
        CASE state = "missing" \/ (state \in {"ready", "scan_failed"} /\ now = "none")
                -> {"media_reference_missing"}
          [] state = "symlink" \/ (state \in {"ready", "scan_failed"} /\ now = "link")
                -> {"media_reference_symlink"}
          [] state = "ready" /\ now = "image" -> {}
          [] OTHER -> {"media_reference_damaged"}
  <1> SUFFICES ASSUME IndexInv, NEW owners \in SUBSET IObj, NEW paths \in [owners -> IPath],
                      NEW state \in RootStates, NEW o \in owners
               PROVE  {f.code : f \in {g \in Audit(paths, state) : g.object = o}} =
                        Expected(state, BodyNow(paths[o]))
    BY DEF AuditExact
  <1> PICK p : p = paths[o]
    OBVIOUS
  <1>1. p \in IPath
    OBVIOUS
  <1>2. BodyNow(p) \in Bodies \cup {"none"} /\ (BodyNow(p) = "none" <=> disk[p] = 0)
    <2>1. CASE disk[p] = 0
      BY <2>1 DEF BodyNow, Bodies
    <2>2. CASE disk[p] # 0
      <3>1. disk[p] \in Versions
        BY <1>1, <2>2 DEF IndexInv, DiskOK, Versions
      <3>2. BodyNow(p) = body[p][disk[p]]
        BY <2>2 DEF BodyNow
      <3>3. BodyNow(p) \in Bodies
        BY <1>1, <2>2, <3>1, <3>2 DEF IndexInv, DiskOK
      <3>4. QED
        BY <2>2, <3>3 DEF Bodies
    <2>3. QED
      BY <2>1, <2>2
  <1>3. Unscanned(p) = CASE BodyNow(p) = "none" -> "media_reference_missing"
                         [] BodyNow(p) = "link" -> "media_reference_symlink"
                         [] OTHER -> "media_reference_damaged"
    BY <1>2 DEF Unscanned
  <1>4. CASE state = "ready"
    <2> PICK code : code = IF BodyNow(p) = "damaged" THEN "media_reference_damaged" ELSE Unscanned(p)
      OBVIOUS
    <2>1. {f.code : f \in {g \in Audit(paths, "ready") : g.object = o}} =
              IF BodyNow(p) # "image" THEN {code} ELSE {}
      BY ScannedRoot
    <2>2. (IF BodyNow(p) # "image" THEN {code} ELSE {}) = Expected("ready", BodyNow(p))
      BY <1>2, <1>3 DEF Bodies
    <2>3. QED
      BY <1>4, <2>1, <2>2
  <1>5. CASE state # "ready"
    <2>1. {f.code : f \in {g \in Audit(paths, state) : g.object = o}} =
              {IF state = "scan_failed" THEN Unscanned(p) ELSE RootReference(state)}
      BY <1>5, UnscannedRoot
    <2>2. {IF state = "scan_failed" THEN Unscanned(p) ELSE RootReference(state)} = Expected(state, BodyNow(p))
      BY <1>2, <1>3, <1>5 DEF RootStates, RootReference, Bodies
    <2>3. QED
      BY <2>1, <2>2
  <1>6. QED
    BY <1>4, <1>5

LEMMA IndexInvHolds == IndexSpec => []IndexInv
  BY InitIndexInv, NextIndexInv, PTL DEF IndexSpec

\* The index's rows, state and files have the shape the code gives them.
THEOREM IndexTyped == IndexSpec => []IndexTypeOK
  <1>1. IndexInv => IndexTypeOK
    BY DEF IndexInv, DiskOK, IndexedOK, AllTell, Tells, IndexTypeOK
  <1>2. QED
    BY <1>1, IndexInvHolds, PTL

\* What pages read is what the last refresh committed of the root that is there,
\* and the audit reports exactly the references that cannot be shown
\* (_load_index_snapshot, audit_local_media).
THEOREM IndexIsHonest == IndexSpec => []IndexHonest
  <1>1. IndexInv => IndexRootCurrent
    BY DEF IndexInv, StateOK, IndexRootCurrent
  <1>2. IndexInv => IndexHonest
    BY <1>1, PagesSee, AuditIsExact DEF IndexHonest
  <1>3. QED
    BY <1>2, IndexInvHolds, PTL

----------------------------------------------------------------------------
(* Uploads                                                                 *)

Content == Digest \cup {"none", "residue", "damaged"}
Upload == [pc : {"next", "publish", "unlink", "rollback", "told", "unknown"}, todo : Seq(Digest),
           made : SUBSET [name : Digest, file : Inode \cup {0}], known : SUBSET Digest,
           paths : SUBSET Digest, changed : BOOLEAN, temp : Inode \cup {0},
           mine : SUBSET Inode, late : SUBSET Digest, unseen : SUBSET Inode]
Residue == [pc : {"residue"}, submitted : [file : Inode \cup {0}, stamp : Nat], file : Inode, stamp : Nat]

UploadTypes ==
    /\ lib \in [Digest -> Inode \cup {0}]
    /\ holds \in [Inode -> Content]
    /\ temps \subseteq Inode
    /\ stamp \in [Inode -> Nat]
    /\ DOMAIN urefs = URef
    /\ shown \in [file : Inode \cup {0}, stamp : Nat]
    /\ uindex \in [valid : BOOLEAN, names : [Digest -> Inode \cup {0}]]
    /\ up \in {UpIdle} \cup Upload \cup Residue

\* What an upload takes for known lies under its name, unless others put it away.
KnownIsThere ==
    up.pc \in {"next", "publish", "unlink", "told"} =>
        up.paths \subseteq up.known /\ \A d \in up.known \ up.late : LibGood(d)

\* The temporary holds what is wanted, and once published is what the name leads to.
TemporaryOK ==
    /\ up.pc \in {"publish", "unlink"} =>
          up.todo # <<>> /\ up.temp \in Inode /\ holds[up.temp] = Wanted
    /\ UpAt("unlink") => Wanted \in up.late \/ lib[Wanted] = up.temp

\* The index is left behind only while an upload that will answer for it runs.
IndexFollows ==
    uindex.valid /\ ~udrift =>
        \/ uindex.names = lib
        \/ up.pc \in {"next", "publish", "told"} /\ up.changed
        \/ up.pc \in {"unlink", "rollback", "unknown"}

\* Residue that goes is what was submitted, and has no reference.
ResidueOK ==
    UpAt("residue") => /\ ResidueRefs(up.file) = {}
                       /\ up.submitted = [file |-> up.file, stamp |-> up.stamp]

UploadInv ==
    UploadTypes /\ UploadTypeOK /\ KnownIsThere /\ TemporaryOK /\ IndexFollows /\ ResidueOK

LEMMA InodesAreNumbers == Inode \subseteq Nat \ {0} /\ 1 \in Inode
  BY UploadAssumption

LEMMA NextInodeIsFree ==
    ASSUME Unmade # {}
    PROVE  NextInode \in Inode /\ holds[NextInode] = "none"
  <1>1. Unmade \subseteq Nat
    BY InodesAreNumbers DEF Unmade
  <1>2. PICK k \in Unmade : \A j \in Unmade : <<j, k>> \notin OpToRel(<, Nat)
    BY <1>1, WFMin, NatLessThanWellFounded, Zenon
  <1>3. \A j \in Unmade : ~(j < k)
    BY <1>1, <1>2, Zenon DEF OpToRel
  <1>4. \A j \in Unmade : k <= j
    BY <1>1, <1>3
  <1>5. NextInode \in Unmade
    BY <1>4 DEF NextInode
  <1>6. QED
    BY <1>5 DEF Unmade

LEMMA DoneIsNext ==
    ASSUME up \in Upload, up.todo # <<>>
    PROVE  /\ Wanted \in Digest /\ Done \in Upload /\ Done.pc = "next"
           /\ Done.known = up.known \cup {Wanted} /\ Done.paths = up.paths \cup {Wanted}
           /\ Done.changed = up.changed /\ Done.late = up.late
  <1>1. Wanted \in Digest /\ Tail(up.todo) \in Seq(Digest)
    BY DEF Upload, Wanted
  <1>2. PICK todo, known, paths : /\ todo = Tail(up.todo) /\ known = up.known \cup {Wanted}
                                  /\ paths = up.paths \cup {Wanted}
    OBVIOUS
  <1>3. todo \in Seq(Digest) /\ known \in SUBSET Digest /\ paths \in SUBSET Digest
    BY <1>1, <1>2 DEF Upload
  <1>4. Done = [up EXCEPT !.pc = "next", !.todo = todo, !.temp = 0, !.known = known, !.paths = paths]
    BY <1>2 DEF Done, Upload
  <1>5. Done \in Upload /\ Done.pc = "next" /\ Done.known = known /\ Done.paths = paths
    BY <1>3, <1>4 DEF Upload
  <1>6. Done.changed = up.changed /\ Done.late = up.late
    BY <1>4 DEF Upload
  <1>7. QED
    BY <1>1, <1>2, <1>5, <1>6

LEMMA DoneKeeps ==
    ASSUME up \in Upload
    PROVE  Done.made = up.made /\ Done.mine = up.mine /\ Done.unseen = up.unseen
  <1>1. PICK todo, known, paths : /\ todo = Tail(up.todo) /\ known = up.known \cup {Wanted}
                                  /\ paths = up.paths \cup {Wanted}
    OBVIOUS
  <1>2. Done = [up EXCEPT !.pc = "next", !.todo = todo, !.temp = 0, !.known = known, !.paths = paths]
    BY <1>1 DEF Done, Upload
  <1>3. QED
    BY <1>2 DEF Upload

LEMMA RunningUpload ==
    ASSUME UploadTypes, up.pc \notin {"idle", "residue"}
    PROVE  up \in Upload
  BY DEF UploadTypes, UpIdle, Residue

LEMMA InitUploadInv == UploadInit => UploadInv
  <1> SUFFICES ASSUME UploadInit PROVE UploadInv
    OBVIOUS
  <1> USE DEF UploadInit
  <1>1. UpAt("idle") /\ up = UpIdle
    BY DEF UpAt, UpIdle
  <1>2. UploadTypes
    BY <1>1, InodesAreNumbers DEF UploadTypes, Content, NotShown
  <1>3. UploadTypeOK
    BY InodesAreNumbers DEF UploadTypeOK
  <1>4. KnownIsThere /\ TemporaryOK /\ ResidueOK
    BY <1>1 DEF KnownIsThere, TemporaryOK, ResidueOK, UpAt
  <1>5. IndexFollows
    BY DEF IndexFollows
  <1>6. QED
    BY <1>2, <1>3, <1>4, <1>5 DEF UploadInv

LEMMA RequestsAreSequences == \A s \in UploadRequests : s \in Seq(Digest) /\ s # <<>>
  <1> SUFFICES ASSUME NEW s \in UploadRequests PROVE s \in Seq(Digest) /\ s # <<>>
    OBVIOUS
  <1>1. s \in UNION {[1..m -> Digest] : m \in 0..2} /\ s # <<>>
    BY Zenon DEF UploadRequests, SeqOf
  <1>2. PICK m \in 0..2 : s \in [1..m -> Digest]
    BY <1>1
  <1>3. s \in Seq(Digest)
    BY <1>2
  <1>4. QED
    BY <1>1, <1>3

LEMMA StartUploadInv ==
    ASSUME UploadInv, NEW request \in UploadRequests, StartUpload(request)
    PROVE  UploadInv'
  <1> USE DEF StartUpload, UpAt
  <1>1. up'.pc = "next" /\ up'.known = {d \in Digest : LibGood(d)} /\ up'.paths = {} /\ up'.late = {}
    OBVIOUS
  <1>2. up' \in Upload
    BY RequestsAreSequences DEF Upload
  <1>3. UploadTypes' /\ UploadTypeOK'
    BY <1>1, <1>2 DEF UploadInv, UploadTypes, UploadTypeOK
  <1>4. KnownIsThere' /\ TemporaryOK' /\ ResidueOK'
    BY <1>1 DEF UploadInv, KnownIsThere, TemporaryOK, ResidueOK, LibGood
  <1>5. IndexFollows'
    BY DEF UploadInv, IndexFollows
  <1>6. QED
    BY <1>3, <1>4, <1>5 DEF UploadInv

LEMMA SkipDuplicateInv ==
    ASSUME UploadInv, SkipDuplicate
    PROVE  UploadInv'
  <1> USE DEF SkipDuplicate, UpAt
  <1>1. up \in Upload
    BY RunningUpload DEF UploadInv
  <1>2. /\ up' \in Upload /\ up'.pc = "next" /\ up'.known = up.known \cup {Wanted}
        /\ up'.paths = up.paths \cup {Wanted} /\ up'.changed = up.changed /\ up'.late = up.late
    BY <1>1, DoneIsNext
  <1>3. UploadTypes' /\ UploadTypeOK'
    BY <1>2 DEF UploadInv, UploadTypes, UploadTypeOK
  <1>4. KnownIsThere' /\ TemporaryOK' /\ ResidueOK'
    BY <1>2 DEF UploadInv, KnownIsThere, TemporaryOK, ResidueOK, LibGood
  <1>5. IndexFollows'
    BY <1>2 DEF UploadInv, IndexFollows
  <1>6. QED
    BY <1>3, <1>4, <1>5 DEF UploadInv

LEMMA WriteTemporaryInv ==
    ASSUME UploadInv, WriteTemporary
    PROVE  UploadInv'
  <1> USE DEF WriteTemporary, UpAt
  <1>1. up \in Upload /\ Wanted \in Digest
    BY RunningUpload, DoneIsNext DEF UploadInv
  <1>2. NextInode \in Inode /\ holds[NextInode] = "none"
    BY NextInodeIsFree
  <1>3. PICK i : i = NextInode
    OBVIOUS
  <1>4. PICK w : w = Wanted
    OBVIOUS
  <1>5. holds' = [holds EXCEPT ![i] = w] /\ holds' \in [Inode -> Content] /\ holds'[i] = w
    BY <1>1, <1>2, <1>3, <1>4 DEF UploadInv, UploadTypes, Content
  <1>6. "none" \notin Digest /\ w # "none"
    BY <1>1, <1>4, UploadAssumption
  <1>7. \A d \in Digest : LibGood(d) => LibGood(d)'
    BY <1>2, <1>3, <1>5, <1>6 DEF LibGood
  <1>8. \A j \in temps : holds'[j] # "none"
    BY <1>5, <1>6 DEF UploadInv, UploadTypes, UploadTypeOK
  <1>9. CASE temps' = temps \cup {i} /\ up' = [up EXCEPT !.pc = "publish", !.temp = i] /\ stuck' = stuck
    <2>1. /\ up' \in Upload /\ up'.pc = "publish" /\ up'.temp = i /\ up'.todo = up.todo
          /\ up'.known = up.known /\ up'.paths = up.paths /\ up'.changed = up.changed /\ up'.late = up.late
      BY <1>1, <1>2, <1>3, <1>9 DEF Upload
    <2>2. Wanted' = w
      BY <1>4, <2>1 DEF Wanted
    <2>3. UploadTypes'
      BY <1>2, <1>3, <1>5, <1>9, <2>1 DEF UploadInv, UploadTypes
    <2>4. UploadTypeOK'
      BY <1>5, <1>6, <1>8, <1>9, <2>1 DEF UploadInv, UploadTypeOK
    <2>5. KnownIsThere'
      BY <1>1, <1>7, <2>1 DEF UploadInv, KnownIsThere, Upload
    <2>6. TemporaryOK'
      BY <1>2, <1>3, <1>5, <2>1, <2>2 DEF TemporaryOK
    <2>7. IndexFollows' /\ ResidueOK'
      BY <2>1 DEF UploadInv, IndexFollows, ResidueOK
    <2>8. QED
      BY <2>3, <2>4, <2>5, <2>6, <2>7 DEF UploadInv
  <1>10. CASE \E cleaned \in BOOLEAN :
                 /\ temps' = IF cleaned THEN temps ELSE temps \cup {i}
                 /\ stuck' = (stuck \/ ~cleaned)
                 /\ up' = [up EXCEPT !.pc = "rollback"]
    <2>1. up' \in Upload /\ up'.pc = "rollback"
      BY <1>1, <1>10 DEF Upload
    <2>2. (temps' = temps \/ (temps' = temps \cup {i} /\ stuck')) /\ (~stuck' => temps' = temps /\ ~stuck)
      BY <1>10
    <2>3. UploadTypes'
      BY <1>2, <1>3, <1>5, <2>1, <2>2 DEF UploadInv, UploadTypes
    <2>4. UploadTypeOK'
      BY <1>5, <1>6, <1>8, <2>1, <2>2 DEF UploadInv, UploadTypeOK
    <2>5. KnownIsThere' /\ TemporaryOK' /\ IndexFollows' /\ ResidueOK'
      BY <2>1 DEF KnownIsThere, TemporaryOK, IndexFollows, ResidueOK
    <2>6. QED
      BY <2>3, <2>4, <2>5 DEF UploadInv
  <1>11. QED
    BY <1>3, <1>9, <1>10

\* An upload that gives up leaves the index to what comes.
LEMMA GivesUp ==
    ASSUME UploadInv, up \in Upload, up' = [up EXCEPT !.pc = "rollback"],
           lib' \in [Digest -> Inode \cup {0}], temps' \subseteq temps,
           ~stuck' => ~stuck /\ temps' \subseteq {1},
           stamp' = stamp, holds' = holds, UNCHANGED <<urefs, shown, uindex>>
    PROVE  UploadInv'
  <1>1. up' \in Upload /\ up'.pc = "rollback"
    BY DEF Upload
  <1>2. UploadTypes'
    BY <1>1 DEF UploadInv, UploadTypes
  <1>3. UploadTypeOK'
    BY <1>1 DEF UploadInv, UploadTypeOK
  <1>4. KnownIsThere' /\ TemporaryOK' /\ IndexFollows' /\ ResidueOK'
    BY <1>1 DEF KnownIsThere, TemporaryOK, IndexFollows, ResidueOK, UpAt
  <1>5. QED
    BY <1>2, <1>3, <1>4 DEF UploadInv

\* The temporary goes, or its name is stuck.
LEMMA TempGoes ==
    ASSUME UploadInv, up.pc \in {"publish", "unlink"}, NEW cleaned \in BOOLEAN, DropTemp(cleaned)
    PROVE  temps' \subseteq temps /\ (~stuck' => ~stuck /\ temps' \subseteq {1})
  <1>1. ~stuck => temps \subseteq {1, up.temp}
    BY DEF UploadInv, UploadTypeOK
  <1>2. QED
    BY <1>1, Zenon DEF DropTemp

LEMMA LinkFailsInv ==
    ASSUME UploadInv, LinkFails
    PROVE  UploadInv'
  <1>1. up \in Upload
    BY RunningUpload DEF UploadInv, LinkFails, UpAt
  <1>2. temps' \subseteq temps /\ (~stuck' => ~stuck /\ temps' \subseteq {1})
    BY TempGoes DEF LinkFails, UpAt
  <1>3. lib' \in [Digest -> Inode \cup {0}]
    BY DEF UploadInv, UploadTypes, LinkFails
  <1>4. QED
    BY <1>1, <1>2, <1>3, GivesUp DEF LinkFails

LEMMA UnlinkFailsInv ==
    ASSUME UploadInv, UnlinkFails
    PROVE  UploadInv'
  <1>1. up \in Upload
    BY RunningUpload DEF UploadInv, UnlinkFails, UpAt
  <1>2. temps' \subseteq temps /\ (~stuck' => ~stuck /\ temps' \subseteq {1})
    BY TempGoes DEF UnlinkFails, UpAt
  <1>3. lib' \in [Digest -> Inode \cup {0}]
    BY DEF UploadInv, UploadTypes, UnlinkFails
  <1>4. QED
    BY <1>1, <1>2, <1>3, GivesUp DEF UnlinkFails

LEMMA PublishInv ==
    ASSUME UploadInv, Publish
    PROVE  UploadInv'
  <1>1. up \in Upload /\ UpAt("publish") /\ up.pc = "publish"
    BY RunningUpload DEF UploadInv, Publish, UpAt
  <1>2. up.todo # <<>> /\ up.temp \in Inode /\ holds[up.temp] = Wanted
    BY <1>1 DEF UploadInv, TemporaryOK
  <1>3. Wanted \in Digest
    BY <1>1, <1>2, DoneIsNext
  <1>4. CASE lib[Wanted] = 0
    <2>1. PICK w : w = Wanted
      OBVIOUS
    <2>2. PICK t : t = up.temp
      OBVIOUS
    <2>3. /\ lib' = [lib EXCEPT ![w] = t] /\ stamp' = [stamp EXCEPT ![t] = @ + 1]
          /\ up' = [up EXCEPT !.pc = "unlink", !.mine = @ \cup {t}]
          /\ UNCHANGED <<temps, stuck, holds, urefs, shown, uindex, udrift>>
      BY <1>4, <2>1, <2>2 DEF Publish
    <2>4. /\ up' \in Upload /\ up'.pc = "unlink" /\ up'.temp = t /\ up'.todo = up.todo
          /\ up'.known = up.known /\ up'.paths = up.paths /\ up'.late = up.late
      BY <1>1, <1>2, <2>2, <2>3 DEF Upload
    <2>5. Wanted' = w
      BY <2>1, <2>4 DEF Wanted
    <2>6. UploadTypes'
      BY <1>2, <1>3, <2>1, <2>2, <2>3, <2>4 DEF UploadInv, UploadTypes
    <2>8. UploadTypeOK'
      BY <1>1, <2>2, <2>3, <2>4, <2>6 DEF UploadInv, UploadTypes, UploadTypeOK
    <2>9. KnownIsThere'
      <3>1. \A d \in Digest : LibGood(d) => LibGood(d)'
        BY <1>3, <1>4, <2>1, <2>3 DEF LibGood, UploadInv, UploadTypes
      <3>2. QED
        BY <1>1, <2>4, <3>1 DEF UploadInv, KnownIsThere, Upload
    <2>10. TemporaryOK'
      BY <1>2, <1>3, <2>1, <2>2, <2>3, <2>4, <2>5 DEF TemporaryOK, UploadInv, UploadTypes
    <2>11. IndexFollows' /\ ResidueOK'
      BY <2>4 DEF IndexFollows, ResidueOK, UpAt
    <2>12. QED
      BY <2>6, <2>8, <2>9, <2>10, <2>11 DEF UploadInv
  <1>5. CASE lib[Wanted] # 0
    <2>1. PICK cleaned \in BOOLEAN : DropTemp(cleaned)
      BY <1>5 DEF Publish
    <2>2. temps' \subseteq temps /\ (~stuck' => ~stuck /\ temps' \subseteq {1})
      BY <1>1, <2>1, TempGoes
    <2>3. UNCHANGED <<lib, stamp, holds, urefs, shown, uindex, udrift>>
      BY <1>5 DEF Publish
    <2>4. CASE SameContent(Wanted)
      <3>1. up' = Done
        BY <1>5, <2>4 DEF Publish
      <3>2. /\ up' \in Upload /\ up'.pc = "next" /\ up'.known = up.known \cup {Wanted}
            /\ up'.paths = up.paths \cup {Wanted} /\ up'.changed = up.changed /\ up'.late = up.late
        BY <1>1, <1>2, <3>1, DoneIsNext
      <3>3. UploadTypes' /\ UploadTypeOK'
        BY <2>2, <2>3, <3>2 DEF UploadInv, UploadTypes, UploadTypeOK
      <3>4. KnownIsThere' /\ TemporaryOK' /\ ResidueOK'
        BY <1>1, <2>3, <2>4, <3>2
           DEF UploadInv, KnownIsThere, TemporaryOK, ResidueOK, LibGood, SameContent, UpAt
      <3>5. IndexFollows'
        BY <1>1, <2>3, <3>2 DEF UploadInv, IndexFollows
      <3>6. QED
        BY <3>3, <3>4, <3>5 DEF UploadInv
    <2>5. CASE ~SameContent(Wanted)
      <3>1. up' = [up EXCEPT !.pc = "rollback"]
        BY <1>5, <2>5 DEF Publish
      <3>2. lib' \in [Digest -> Inode \cup {0}]
        BY <2>3 DEF UploadInv, UploadTypes
      <3>3. QED
        BY <1>1, <2>2, <2>3, <3>1, <3>2, GivesUp
    <2>6. QED
      BY <2>4, <2>5
  <1>6. QED
    BY <1>4, <1>5

LEMMA UnlinkTemporaryInv ==
    ASSUME UploadInv, UnlinkTemporary
    PROVE  UploadInv'
  <1>1. up \in Upload /\ up.pc = "unlink" /\ UpAt("unlink")
    BY RunningUpload DEF UploadInv, UnlinkTemporary, UpAt
  <1>2. up.todo # <<>> /\ holds[up.temp] = Wanted /\ up.temp \in Inode
    BY <1>1 DEF UploadInv, TemporaryOK
  <1>3. PICK x : x = Done
    OBVIOUS
  <1>4. /\ Wanted \in Digest /\ x \in Upload /\ x.pc = "next" /\ x.known = up.known \cup {Wanted}
        /\ x.paths = up.paths \cup {Wanted} /\ x.late = up.late
    BY <1>1, <1>2, <1>3, DoneIsNext
  <1>5. PICK made : made = x.made \cup {[name |-> Wanted, file |-> lib[Wanted]]}
    OBVIOUS
  <1>6. made \in SUBSET [name : Digest, file : Inode \cup {0}]
    BY <1>4, <1>5 DEF Upload, UploadInv, UploadTypes
  <1>7. up' = [x EXCEPT !.made = made, !.changed = TRUE]
    BY <1>3, <1>4, <1>5 DEF UnlinkTemporary, Upload
  <1>8. /\ up' \in Upload /\ up'.pc = "next" /\ up'.known = up.known \cup {Wanted}
        /\ up'.paths = up.paths \cup {Wanted} /\ up'.late = up.late /\ up'.changed = TRUE
    BY <1>4, <1>6, <1>7 DEF Upload
  <1>9. UNCHANGED <<lib, holds, stamp, urefs, shown, uindex, udrift, stuck>> /\ temps' = temps \ {up.temp}
    BY DEF UnlinkTemporary
  <1>10. UploadTypes'
    BY <1>8, <1>9 DEF UploadInv, UploadTypes
  <1>11. UploadTypeOK'
    BY <1>1, <1>8, <1>9 DEF UploadInv, UploadTypeOK
  <1>12. Wanted \notin up.late => LibGood(Wanted)
    BY <1>1, <1>2, InodesAreNumbers DEF UploadInv, TemporaryOK, LibGood
  <1>13. KnownIsThere'
    BY <1>1, <1>8, <1>9, <1>12 DEF UploadInv, KnownIsThere, LibGood
  <1>14. TemporaryOK' /\ ResidueOK' /\ IndexFollows'
    BY <1>8 DEF TemporaryOK, ResidueOK, IndexFollows, UpAt
  <1>15. QED
    BY <1>10, <1>11, <1>13, <1>14 DEF UploadInv

LEMMA RollbackUploadInv ==
    ASSUME UploadInv, RollbackUpload
    PROVE  UploadInv'
  <1>1. up \in Upload /\ up.pc = "rollback"
    BY RunningUpload DEF UploadInv, RollbackUpload, UpAt
  <1>2. up' \in Upload /\ up'.pc = "unknown"
    BY <1>1 DEF RollbackUpload, Upload
  <1>3. UNCHANGED <<holds, temps, stamp, urefs, shown, uindex, stuck>>
    BY DEF RollbackUpload
  <1>4. lib' \in [Digest -> Inode \cup {0}]
    BY DEF RollbackUpload, UploadInv, UploadTypes
  <1>5. UploadTypes'
    BY <1>2, <1>3, <1>4 DEF UploadInv, UploadTypes
  <1>6. UploadTypeOK'
    BY <1>1, <1>2, <1>3, <1>4 DEF UploadInv, UploadTypeOK
  <1>7. KnownIsThere' /\ TemporaryOK' /\ ResidueOK' /\ IndexFollows'
    BY <1>2 DEF KnownIsThere, TemporaryOK, ResidueOK, IndexFollows, UpAt
  <1>8. QED
    BY <1>5, <1>6, <1>7 DEF UploadInv

LEMMA FinishUploadInv ==
    ASSUME UploadInv, FinishUpload
    PROVE  UploadInv'
  <1>1. up \in Upload /\ up.pc = "next"
    BY RunningUpload DEF UploadInv, FinishUpload, UpAt
  <1>2. /\ up' \in Upload /\ up'.pc = "told" /\ up'.known = up.known /\ up'.paths = up.paths
        /\ up'.late = up.late /\ up'.changed = up.changed
    BY <1>1 DEF FinishUpload, Upload
  <1>3. UNCHANGED <<lib, holds, temps, stamp, urefs, shown, uindex, udrift, stuck>>
    BY DEF FinishUpload
  <1>4. UploadTypes' /\ UploadTypeOK'
    BY <1>1, <1>2, <1>3 DEF UploadInv, UploadTypes, UploadTypeOK
  <1>5. KnownIsThere' /\ TemporaryOK' /\ ResidueOK' /\ IndexFollows'
    BY <1>1, <1>2, <1>3
       DEF UploadInv, KnownIsThere, TemporaryOK, ResidueOK, IndexFollows, UpAt, LibGood
  <1>6. QED
    BY <1>4, <1>5 DEF UploadInv

\* An operation that ends leaves no more than an index to answer for.
LEMMA EndsOK ==
    ASSUME UploadInv, up' = UpIdle, temps' \subseteq temps,
           ~stuck' => ~stuck /\ up.pc \notin {"publish", "unlink"},
           UNCHANGED <<lib, holds, stamp, urefs, shown>>,
           uindex' \in [valid : BOOLEAN, names : [Digest -> Inode \cup {0}]],
           uindex'.valid /\ ~udrift' => uindex'.names = lib
    PROVE  UploadInv'
  <1>1. up'.pc = "idle"
    BY DEF UpIdle
  <1>2. UploadTypes'
    BY DEF UploadInv, UploadTypes
  <1>3. UploadTypeOK'
    BY <1>1 DEF UploadInv, UploadTypeOK
  <1>4. KnownIsThere' /\ TemporaryOK' /\ ResidueOK' /\ IndexFollows'
    BY <1>1 DEF KnownIsThere, TemporaryOK, ResidueOK, IndexFollows, UpAt
  <1>5. QED
    BY <1>2, <1>3, <1>4 DEF UploadInv

LEMMA CoordinateUploadInv ==
    ASSUME UploadInv, CoordinateUpload
    PROVE  UploadInv'
  <1>1. up \in Upload /\ up.pc \in {"told", "unknown"}
    BY RunningUpload DEF UploadInv, CoordinateUpload
  <1>2. UNCHANGED <<lib, holds, temps, stamp, urefs, shown, stuck>> /\ up' = UpIdle
    BY DEF CoordinateUpload
  <1>3. uindex \in [valid : BOOLEAN, names : [Digest -> Inode \cup {0}]] /\ lib \in [Digest -> Inode \cup {0}]
    BY DEF UploadInv, UploadTypes
  <1>4. /\ uindex' \in [valid : BOOLEAN, names : [Digest -> Inode \cup {0}]]
        /\ uindex'.valid /\ ~udrift' => uindex'.names = lib
    <2>1. CASE UpAt("told") /\ ~Changed
      <3>1. UNCHANGED <<uindex, udrift>>
        BY <2>1 DEF CoordinateUpload
      <3>2. QED
        BY <1>3, <2>1, <3>1 DEF UploadInv, IndexFollows, UpAt, Changed
    <2>2. CASE ~(UpAt("told") /\ ~Changed)
      <3>1. PICK scans \in BOOLEAN, marks \in BOOLEAN :
               /\ uindex' = IF UpAt("told") /\ scans THEN [valid |-> TRUE, names |-> lib]
                            ELSE [uindex EXCEPT !.valid = @ /\ ~marks]
               /\ udrift' = (~(UpAt("told") /\ scans) /\ (udrift \/ ~marks))
        BY <2>2 DEF CoordinateUpload
      <3>2. CASE UpAt("told") /\ scans
        BY <1>3, <3>1, <3>2
      <3>3. CASE ~(UpAt("told") /\ scans)
        <4>1. PICK v : v = (uindex.valid /\ ~marks)
          OBVIOUS
        <4>2. v \in BOOLEAN /\ (udrift' <=> udrift \/ ~marks)
          BY <3>1, <3>3, <4>1, Zenon
        <4>3. uindex' = [uindex EXCEPT !.valid = v]
          BY <1>3, <3>1, <3>3, <4>1
        <4>4. uindex' \in [valid : BOOLEAN, names : [Digest -> Inode \cup {0}]] /\ uindex'.valid = v
          BY <1>3, <4>2, <4>3
        <4>5. ~(v /\ ~udrift')
          BY <4>1, <4>2, Zenon
        <4>6. QED
          BY <4>4, <4>5, Zenon
      <3>4. QED
        BY <3>2, <3>3
    <2>3. QED
      BY <2>1, <2>2
  <1>5. QED
    BY <1>1, <1>2, <1>4, EndsOK

LEMMA ConfirmResidueInv ==
    ASSUME UploadInv, ConfirmResidue
    PROVE  UploadInv'
  <1>1. shown.file \in Inode /\ stamp[shown.file] \in Nat
    BY DEF ConfirmResidue, UploadInv, UploadTypes
  <1>2. /\ up' \in Residue /\ up'.pc = "residue" /\ up'.file = shown.file
        /\ up'.submitted = [file |-> up'.file, stamp |-> up'.stamp]
    BY <1>1 DEF ConfirmResidue, SnapshotMatches, Residue, UploadInv, UploadTypes
  <1>3. UploadTypes' /\ UploadTypeOK'
    BY <1>2 DEF ConfirmResidue, UploadInv, UploadTypes, UploadTypeOK, UpAt
  <1>4. KnownIsThere' /\ TemporaryOK' /\ ResidueOK' /\ IndexFollows'
    BY <1>2 DEF ConfirmResidue, UploadInv, KnownIsThere, TemporaryOK, ResidueOK, IndexFollows, UpAt, ResidueRefs
  <1>5. QED
    BY <1>3, <1>4 DEF UploadInv

LEMMA DeleteResidueInv ==
    ASSUME UploadInv, DeleteResidue
    PROVE  UploadInv'
  <1>1. UNCHANGED <<lib, holds, stamp, urefs, shown, uindex, udrift, stuck>> /\ temps' \subseteq temps
    BY DEF DeleteResidue
  <1>2. up' = UpIdle /\ up.pc = "residue"
    BY DEF DeleteResidue, UpAt
  <1>3. uindex \in [valid : BOOLEAN, names : [Digest -> Inode \cup {0}]]
    BY DEF UploadInv, UploadTypes
  <1>4. uindex.valid /\ ~udrift => uindex.names = lib
    BY <1>2 DEF UploadInv, IndexFollows
  <1>5. QED
    BY <1>1, <1>2, <1>3, <1>4, EndsOK

LEMMA CrashUploadInv ==
    ASSUME UploadInv, CrashUpload
    PROVE  UploadInv'
  <1>1. UNCHANGED <<lib, holds, temps, stamp, urefs, shown, uindex>> /\ up' = UpIdle /\ stuck' /\ udrift'
    BY DEF CrashUpload
  <1>2. uindex \in [valid : BOOLEAN, names : [Digest -> Inode \cup {0}]]
    BY DEF UploadInv, UploadTypes
  <1>3. QED
    BY <1>1, <1>2, EndsOK

LEMMA BesideInv ==
    ASSUME UploadInv,
           \/ \E i \in Inode : PreviewResidue(i) \/ TouchResidue(i)
           \/ \E u \in URef : ClearUpload(u)
    PROVE  UploadInv'
  <1>1. UNCHANGED <<lib, holds, temps, up, uindex, udrift, stuck>>
    BY DEF PreviewResidue, TouchResidue, ClearUpload
  <1>2. UploadTypes'
    <2>1. CASE \E i \in Inode : PreviewResidue(i)
      <3>1. PICK i \in Inode : PreviewResidue(i)
        BY <2>1
      <3>2. stamp[i] \in Nat
        BY DEF UploadInv, UploadTypes
      <3>3. QED
        BY <1>1, <3>1, <3>2 DEF PreviewResidue, UploadInv, UploadTypes
    <2>2. CASE \E i \in Inode : TouchResidue(i)
      BY <1>1, <2>2 DEF TouchResidue, UploadInv, UploadTypes
    <2>3. CASE \E u \in URef : ClearUpload(u)
      BY <1>1, <2>3 DEF ClearUpload, UploadInv, UploadTypes
    <2>4. QED
      BY <2>1, <2>2, <2>3
  <1>3. UploadTypeOK' /\ KnownIsThere' /\ TemporaryOK' /\ IndexFollows'
    BY <1>1 DEF UploadInv, UploadTypeOK, KnownIsThere, TemporaryOK, IndexFollows, LibGood, Wanted, UpAt
  <1>4. ResidueOK'
    BY <1>1 DEF UploadInv, ResidueOK, ResidueRefs, UpAt, PreviewResidue, TouchResidue, ClearUpload
  <1>5. QED
    BY <1>2, <1>3, <1>4 DEF UploadInv

LEMMA TamperInv ==
    ASSUME UploadInv, NEW d \in Digest, Tamper(d)
    PROVE  UploadInv'
  <1>1. PICK i : i = NextInode
    OBVIOUS
  <1>2. i \in Inode /\ holds[i] = "none" /\ i # 0
    BY <1>1, NextInodeIsFree, InodesAreNumbers DEF Tamper
  <1>3. PICK c \in {d, "damaged"} : holds' = [holds EXCEPT ![i] = c]
    BY <1>1 DEF Tamper
  <1>4. c # "none" /\ "none" \notin Digest /\ c \in Content
    BY UploadAssumption DEF Content
  <1>5. lib' = [lib EXCEPT ![d] = i] /\ udrift' /\ UNCHANGED <<temps, stamp, urefs, shown, uindex, stuck>>
    BY <1>1 DEF Tamper
  <1>6. \A e \in Digest : e # d /\ LibGood(e) => LibGood(e)'
    BY <1>2, <1>3, <1>4, <1>5 DEF LibGood, UploadInv, UploadTypes
  <1>7. \A j \in Inode : holds[j] # "none" => holds'[j] = holds[j]
    BY <1>2, <1>3 DEF UploadInv, UploadTypes
  <1>8. CASE up \in Upload
    <2>1. PICK late, unseen :
             /\ late = up.late \cup {d}
             /\ unseen = IF UpAt("unlink") /\ d = Wanted THEN up.unseen \cup {i} ELSE up.unseen
      OBVIOUS
    <2>2. "late" \in DOMAIN up
      BY <1>8 DEF Upload
    <2>3. up' = [up EXCEPT !.late = late, !.unseen = unseen]
      BY <1>1, <1>8, <2>1, <2>2 DEF Tamper, Upload
    <2>4. late \in SUBSET Digest /\ unseen \in SUBSET Inode
      BY <1>2, <1>8, <2>1 DEF Upload
    <2>5. /\ up' \in Upload /\ up'.pc = up.pc /\ up'.todo = up.todo /\ up'.known = up.known
          /\ up'.paths = up.paths /\ up'.changed = up.changed /\ up'.temp = up.temp /\ up'.late = late
      BY <1>8, <2>3, <2>4 DEF Upload
    <2>6. UploadTypes'
      BY <1>2, <1>3, <1>4, <1>5, <2>5 DEF UploadInv, UploadTypes
    <2>7. UploadTypeOK'
      BY <1>2, <1>5, <1>7, <2>5, <2>6 DEF UploadInv, UploadTypes, UploadTypeOK
    <2>8. KnownIsThere'
      BY <1>6, <1>8, <2>1, <2>5 DEF UploadInv, KnownIsThere, Upload
    <2>9. TemporaryOK'
      <3>1. Wanted' = Wanted
        BY <2>5 DEF Wanted
      <3>2. up.pc \in {"publish", "unlink"} => up.todo # <<>> /\ up.temp \in Inode /\ holds[up.temp] = Wanted
        BY DEF UploadInv, TemporaryOK
      <3>3. up.pc \in {"publish", "unlink"} => Wanted \in Digest
        BY <1>8, <3>2, DoneIsNext
      <3>4. up.pc \in {"publish", "unlink"} => holds'[up.temp] = Wanted
        BY <1>4, <1>7, <3>2, <3>3
      <3>5. up.pc = "unlink" => Wanted \in up.late \/ lib[Wanted] = up.temp
        BY DEF UploadInv, TemporaryOK, UpAt
      <3>6. up.pc = "unlink" => Wanted \in late \/ lib'[Wanted] = up.temp
        BY <1>5, <2>1, <3>3, <3>5 DEF UploadInv, UploadTypes
      <3>7. QED
        BY <2>5, <3>1, <3>2, <3>4, <3>6 DEF TemporaryOK, UpAt
    <2>10. IndexFollows' /\ ResidueOK'
      BY <1>5, <1>8, <2>5 DEF IndexFollows, ResidueOK, UpAt, Upload
    <2>11. QED
      BY <2>6, <2>7, <2>8, <2>9, <2>10 DEF UploadInv
  <1>9. CASE up \notin Upload
    <2>1. up = UpIdle \/ up \in Residue
      BY <1>9 DEF UploadInv, UploadTypes
    <2>2. "late" \notin DOMAIN up
      BY <2>1 DEF UpIdle, Residue
    <2>3. up' = up
      BY <2>2 DEF Tamper
    <2>4. up.pc \in {"idle", "residue"}
      BY <2>1 DEF UpIdle, Residue
    <2>5. UploadTypes'
      BY <1>2, <1>3, <1>4, <1>5, <2>3 DEF UploadInv, UploadTypes
    <2>6. UploadTypeOK'
      BY <1>2, <1>5, <1>7, <2>3, <2>5 DEF UploadInv, UploadTypes, UploadTypeOK
    <2>7. KnownIsThere' /\ TemporaryOK' /\ IndexFollows' /\ ResidueOK'
      BY <1>5, <2>3, <2>4
         DEF UploadInv, KnownIsThere, TemporaryOK, IndexFollows, ResidueOK, ResidueRefs, UpAt
    <2>8. QED
      BY <2>5, <2>6, <2>7 DEF UploadInv
  <1>10. QED
    BY <1>8, <1>9

LEMMA NextUploadInv == UploadInv /\ [UploadNext]_uploadVars => UploadInv'
  <1> SUFFICES ASSUME UploadInv, [UploadNext]_uploadVars PROVE UploadInv'
    OBVIOUS
  <1>1. CASE \E request \in UploadRequests : StartUpload(request)
    BY <1>1, StartUploadInv
  <1>2. CASE SkipDuplicate \/ WriteTemporary \/ Publish \/ LinkFails
    BY <1>2, SkipDuplicateInv, WriteTemporaryInv, PublishInv, LinkFailsInv
  <1>3. CASE UnlinkTemporary \/ UnlinkFails \/ RollbackUpload \/ FinishUpload \/ CoordinateUpload
    BY <1>3, UnlinkTemporaryInv, UnlinkFailsInv, RollbackUploadInv, FinishUploadInv, CoordinateUploadInv
  <1>4. CASE ConfirmResidue \/ DeleteResidue \/ CrashUpload
    BY <1>4, ConfirmResidueInv, DeleteResidueInv, CrashUploadInv
  <1>5. CASE \/ \E i \in Inode : PreviewResidue(i) \/ TouchResidue(i)
             \/ \E u \in URef : ClearUpload(u)
    BY <1>5, BesideInv
  <1>6. CASE \E d \in Digest : Tamper(d)
    BY <1>6, TamperInv
  <1>7. CASE UNCHANGED uploadVars
    BY <1>7 DEF uploadVars, UploadInv, UploadTypes, UploadTypeOK, KnownIsThere, TemporaryOK,
                IndexFollows, ResidueOK, ResidueRefs, LibGood, Wanted, UpAt
  <1>8. QED
    BY <1>1, <1>2, <1>3, <1>4, <1>5, <1>6, <1>7 DEF UploadNext

LEMMA UploadInvHolds == UploadSpec => []UploadInv
  BY InitUploadInv, NextUploadInv, PTL DEF UploadSpec

\* Uploads and the residue cleanup leave no hidden file behind except after a crash
\* or a failed unlink, and only files ever made are named (_publish_media_file).
THEOREM UploadsLeaveNothing == UploadSpec => []UploadTypeOK
  <1>1. UploadInv => UploadTypeOK
    BY DEF UploadInv
  <1>2. QED
    BY <1>1, UploadInvHolds, PTL

\* Whatever other programs do meanwhile, an upload that is told a success gives out
\* only paths that hold what was uploaded, and a usable index lists what is there
\* (store_media_uploads, coordinate_media_mutation_async).
THEOREM UploadsAreFaithful == UploadSpec => []UploadsFaithful
  <1>1. UploadInv => UploadsFaithful
    BY DEF UploadInv, UploadsFaithful, UploadedIntact, UploadIndexFaithful, KnownIsThere, IndexFollows, UpAt
  <1>2. QED
    BY <1>1, UploadInvHolds, PTL

\* What an upload has recorded, and what lies under the name it has just linked, is
\* its own or was not looked at again.
OwnOK ==
    /\ up.pc \in {"next", "publish", "unlink", "rollback"} =>
          \A r \in up.made : r.file \in up.mine \cup up.unseen
    /\ UpAt("unlink") => lib[Wanted] \in up.mine \cup up.unseen

LEMMA OwnTampered ==
    ASSUME UploadInv, OwnOK, NEW d \in Digest, Tamper(d)
    PROVE  OwnOK'
  <1> PICK i : i = NextInode
    OBVIOUS
  <1> PICK late, unseen : /\ late = up.late \cup {d}
                          /\ unseen = IF UpAt("unlink") /\ d = Wanted THEN up.unseen \cup {i} ELSE up.unseen
    OBVIOUS
  <1>1. lib' = [lib EXCEPT ![d] = i]
    BY DEF Tamper
  <1>2. CASE up \in Upload
    <2>1. "late" \in DOMAIN up
      BY <1>2 DEF Upload
    <2>2. up' = [up EXCEPT !.late = late, !.unseen = unseen]
      BY <1>2, <2>1 DEF Tamper, Upload
    <2>3. /\ up'.pc = up.pc /\ up'.made = up.made /\ up'.mine = up.mine /\ up'.todo = up.todo
          /\ up'.unseen = unseen
      BY <1>2, <2>2 DEF Upload
    <2>4. up.unseen \subseteq unseen
      OBVIOUS
    <2>5. Wanted' = Wanted
      BY <2>3 DEF Wanted
    <2>6. ASSUME up.pc = "unlink" PROVE lib'[Wanted] \in up.mine \cup unseen
      <3>1. Wanted \in Digest
        BY <1>2, <2>6, DoneIsNext DEF UploadInv, TemporaryOK
      <3>2. CASE Wanted = d
        BY <1>1, <2>6, <3>1, <3>2 DEF UpAt, UploadInv, UploadTypes
      <3>3. CASE Wanted # d
        BY <1>1, <2>4, <2>6, <3>1, <3>3 DEF OwnOK, UpAt, UploadInv, UploadTypes
      <3>4. QED
        BY <3>2, <3>3
    <2>7. QED
      BY <2>3, <2>4, <2>5, <2>6 DEF OwnOK, UpAt
  <1>3. CASE up \notin Upload
    <2>1. up = UpIdle \/ up \in Residue
      BY <1>3 DEF UploadInv, UploadTypes
    <2>2. "late" \notin DOMAIN up /\ up.pc \in {"idle", "residue"}
      BY <2>1 DEF UpIdle, Residue
    <2>3. QED
      BY <2>2 DEF Tamper, OwnOK, UpAt
  <1>4. QED
    BY <1>2, <1>3

LEMMA OwnRecorded ==
    ASSUME UploadInv, OwnOK, UnlinkTemporary
    PROVE  OwnOK'
  <1>1. up \in Upload /\ up.pc = "unlink" /\ UpAt("unlink")
    BY RunningUpload DEF UploadInv, UnlinkTemporary, UpAt
  <1>2. PICK x, made : /\ x = Done
                       /\ made = up.made \cup {[name |-> Wanted, file |-> lib[Wanted]]}
    OBVIOUS
  <1>3. x \in Upload /\ x.made = up.made /\ x.mine = up.mine /\ x.unseen = up.unseen /\ x.pc = "next"
    BY <1>1, <1>2, DoneIsNext, DoneKeeps DEF UploadInv, TemporaryOK
  <1>4. up' = [x EXCEPT !.made = made, !.changed = TRUE]
    BY <1>2, <1>3 DEF UnlinkTemporary
  <1>5. up'.pc = "next" /\ up'.made = made /\ up'.mine = up.mine /\ up'.unseen = up.unseen
    BY <1>3, <1>4 DEF Upload
  <1>6. \A r \in made : r.file \in up.mine \cup up.unseen
    BY <1>1, <1>2 DEF OwnOK
  <1>7. QED
    BY <1>5, <1>6 DEF OwnOK, UpAt

LEMMA OwnPublished ==
    ASSUME UploadInv, OwnOK, Publish
    PROVE  OwnOK'
  <1>1. up \in Upload /\ up.pc = "publish"
    BY RunningUpload DEF UploadInv, Publish, UpAt
  <1>2. up.todo # <<>> /\ Wanted \in Digest
    BY <1>1, DoneIsNext DEF UploadInv, TemporaryOK
  <1>3. CASE lib[Wanted] = 0
    <2>1. PICK mine, t, w : mine = up.mine \cup {t} /\ t = up.temp /\ w = Wanted
      OBVIOUS
    <2>2. up' = [up EXCEPT !.pc = "unlink", !.mine = mine] /\ lib' = [lib EXCEPT ![w] = t]
      BY <1>1, <1>3, <2>1 DEF Publish, Upload
    <2>3. /\ up'.pc = "unlink" /\ up'.made = up.made /\ up'.mine = mine /\ up'.unseen = up.unseen
          /\ up'.todo = up.todo
      BY <1>1, <2>2 DEF Upload
    <2>4. Wanted' = w /\ lib'[w] = t
      BY <1>2, <2>1, <2>2, <2>3 DEF Wanted, UploadInv, UploadTypes
    <2>5. QED
      BY <1>1, <2>1, <2>3, <2>4 DEF OwnOK, UpAt
  <1>4. CASE lib[Wanted] # 0
    <2>1. up' = Done \/ up' = [up EXCEPT !.pc = "rollback"]
      BY <1>4 DEF Publish
    <2>2. up'.pc \in {"next", "rollback"} /\ up'.made = up.made /\ up'.mine = up.mine /\ up'.unseen = up.unseen
      BY <1>1, <1>2, <2>1, DoneIsNext, DoneKeeps DEF Upload
    <2>3. QED
      BY <1>1, <2>2 DEF OwnOK, UpAt
  <1>5. QED
    BY <1>3, <1>4

\* Every other step leaves what the upload recorded, or ends it.
LEMMA OwnElsewhere ==
    ASSUME UploadInv, OwnOK, [UploadNext]_uploadVars,
           ~Publish, ~UnlinkTemporary, ~\E d \in Digest : Tamper(d)
    PROVE  OwnOK'
  <1>1. CASE \E request \in UploadRequests : StartUpload(request)
    <2>1. up'.pc = "next" /\ up'.made = {}
      BY <1>1 DEF StartUpload
    <2>2. QED
      BY <2>1 DEF OwnOK, UpAt
  <1>2. CASE SkipDuplicate
    <2>1. up \in Upload /\ up.pc = "next" /\ up' = Done /\ up.todo # <<>>
      BY <1>2, RunningUpload DEF SkipDuplicate, UploadInv, UpAt
    <2>2. up'.pc = "next" /\ up'.made = up.made /\ up'.mine = up.mine /\ up'.unseen = up.unseen
      BY <2>1, DoneIsNext, DoneKeeps
    <2>3. QED
      BY <2>1, <2>2 DEF OwnOK, UpAt
  <1>3. CASE WriteTemporary \/ LinkFails \/ UnlinkFails \/ FinishUpload
    <2>1. up \in Upload /\ up.pc \in {"next", "publish", "unlink"}
      BY <1>3, RunningUpload DEF WriteTemporary, LinkFails, UnlinkFails, FinishUpload, UploadInv, UpAt
    <2>2. PICK i : i = NextInode
      OBVIOUS
    <2>3. \/ up' = [up EXCEPT !.pc = "publish", !.temp = i]
          \/ \E pc \in {"rollback", "told"} : up' = [up EXCEPT !.pc = pc]
      BY <1>3, <2>2 DEF WriteTemporary, LinkFails, UnlinkFails, FinishUpload
    <2>4. /\ up'.made = up.made /\ up'.mine = up.mine /\ up'.unseen = up.unseen
          /\ up'.pc \in {"publish", "rollback", "told"}
      BY <2>1, <2>3 DEF Upload
    <2>5. QED
      BY <2>1, <2>4 DEF OwnOK, UpAt
  <1>4. CASE RollbackUpload
    <2>1. up \in Upload
      BY <1>4, RunningUpload DEF RollbackUpload, UploadInv, UpAt
    <2>2. up'.pc = "unknown"
      BY <1>4, <2>1 DEF RollbackUpload, Upload
    <2>3. QED
      BY <2>2 DEF OwnOK, UpAt
  <1>5. CASE CoordinateUpload \/ ConfirmResidue \/ DeleteResidue \/ CrashUpload
    <2>1. up'.pc \in {"idle", "residue"}
      BY <1>5 DEF CoordinateUpload, ConfirmResidue, DeleteResidue, CrashUpload, UpIdle
    <2>2. QED
      BY <2>1 DEF OwnOK, UpAt
  <1>6. CASE \/ \E i \in Inode : PreviewResidue(i) \/ TouchResidue(i)
             \/ \E u \in URef : ClearUpload(u)
             \/ UNCHANGED uploadVars
    <2>1. UNCHANGED <<up, lib>>
      BY <1>6 DEF PreviewResidue, TouchResidue, ClearUpload, uploadVars
    <2>2. QED
      BY <2>1 DEF OwnOK, UpAt, Wanted
  <1>7. QED
    BY <1>1, <1>2, <1>3, <1>4, <1>5, <1>6 DEF UploadNext

LEMMA OwnHolds == UploadSpec => []OwnOK
  <1>1. UploadInit => OwnOK
    BY DEF UploadInit, UpIdle, OwnOK, UpAt
  <1>2. UploadInv /\ OwnOK /\ [UploadNext]_uploadVars => OwnOK'
    BY OwnTampered, OwnRecorded, OwnPublished, OwnElsewhere
  <1>3. QED
    BY <1>1, <1>2, UploadInvHolds, PTL DEF UploadSpec

LEMMA OnlyOwnEmptied ==
    ASSUME UploadInv, OwnOK, [UploadNext]_uploadVars
    PROVE  UploadsTakeTheirOwn
  <1> SUFFICES ASSUME NEW d \in Digest, lib[d] # 0, lib'[d] = 0
               PROVE  up.pc \in {"unlink", "rollback"} /\ lib[d] \in up.mine \cup up.unseen
    BY DEF UploadsTakeTheirOwn
  <1>1. lib' # lib
    OBVIOUS
  <1>2. CASE RollbackUpload
    <2>1. up.pc = "rollback"
      BY <1>2 DEF RollbackUpload, UpAt
    <2>2. PICK r \in up.made : r.name = d /\ lib[r.name] = r.file
      BY <1>2 DEF RollbackUpload, StillOurs
    <2>3. QED
      BY <2>1, <2>2 DEF OwnOK
  <1>3. CASE UnlinkFails
    <2>1. up.pc = "unlink" /\ UpAt("unlink")
      BY <1>3 DEF UnlinkFails, UpAt
    <2>2. lib' = [lib EXCEPT ![Wanted] = 0]
      BY <1>1, <1>3 DEF UnlinkFails
    <2>3. d = Wanted
      BY <2>2 DEF UploadInv, UploadTypes
    <2>4. QED
      BY <2>1, <2>3 DEF OwnOK
  <1>4. CASE \E e \in Digest : Tamper(e)
    <2>1. PICK e \in Digest : Tamper(e)
      BY <1>4
    <2>2. NextInode \in Inode /\ NextInode # 0
      BY <2>1, NextInodeIsFree, InodesAreNumbers DEF Tamper
    <2>3. lib' = [lib EXCEPT ![e] = NextInode]
      BY <2>1 DEF Tamper
    <2>4. lib'[d] # 0
      BY <2>2, <2>3 DEF UploadInv, UploadTypes
    <2>5. QED
      BY <2>4
  <1>5. CASE Publish
    <2>1. up \in Upload /\ up.pc = "publish"
      BY <1>5, RunningUpload DEF UploadInv, Publish, UpAt
    <2>2. up.temp # 0
      BY <2>1, InodesAreNumbers DEF UploadInv, TemporaryOK
    <2>3. lib' = lib \/ lib' = [lib EXCEPT ![Wanted] = up.temp]
      BY <1>5 DEF Publish
    <2>4. QED
      BY <2>2, <2>3 DEF UploadInv, UploadTypes
  <1>6. CASE ~RollbackUpload /\ ~UnlinkFails /\ ~Publish /\ ~\E e \in Digest : Tamper(e)
    BY <1>1, <1>6
       DEF UploadNext, uploadVars, StartUpload, SkipDuplicate, WriteTemporary, LinkFails,
           UnlinkTemporary, FinishUpload, CoordinateUpload, ConfirmResidue, DeleteResidue,
           CrashUpload, PreviewResidue, TouchResidue, ClearUpload
  <1>7. QED
    BY <1>2, <1>3, <1>4, <1>5, <1>6

LEMMA OnlyUnlinkedResidueGoes ==
    ASSUME UploadInv, [UploadNext]_uploadVars
    PROVE  OnlyShownResidueRemoved
  <1> SUFFICES ASSUME UpAt("residue"), NEW i \in temps \ temps'
               PROVE  [file |-> i, stamp |-> stamp[i]] = up.submitted /\ ResidueRefs(i) = {}
    BY DEF OnlyShownResidueRemoved
  <1>1. up.pc = "residue"
    BY DEF UpAt
  <1>2. DeleteResidue
    BY <1>1
       DEF UploadNext, uploadVars, StartUpload, SkipDuplicate, WriteTemporary, Publish, LinkFails,
           UnlinkTemporary, UnlinkFails, RollbackUpload, FinishUpload, CoordinateUpload, ConfirmResidue,
           CrashUpload, PreviewResidue, TouchResidue, ClearUpload, Tamper, UpAt
  <1>3. up.file = i /\ stamp[i] = up.stamp
    BY <1>2 DEF DeleteResidue, SameResidue
  <1>4. QED
    BY <1>3 DEF UploadInv, ResidueOK

\* No name of the library is emptied but by an upload that takes back a file it
\* linked itself, or one put under the name before it looked again; and the residue
\* cleanup removes only the file that was submitted, as it was shown and
\* unreferenced (_publish_media_file, _rollback_published_media,
\* execute_media_upload_residue_cleanup).
THEOREM UploadsSpareOthers == UploadSpec => OnlyOwnFilesRemoved
  <1>1. UploadInv /\ OwnOK /\ [UploadNext]_uploadVars =>
          [UploadsTakeTheirOwn /\ OnlyShownResidueRemoved]_uploadVars
    BY OnlyOwnEmptied, OnlyUnlinkedResidueGoes
  <1>2. QED
    BY <1>1, UploadInvHolds, OwnHolds, PTL DEF UploadSpec, OnlyOwnFilesRemoved

----------------------------------------------------------------------------
(* Directories                                                             *)

DirOutcomes == {"none", "committed", "committed_after_error", "partial", "rejected", "rolled_back", "unknown"}
DirSnapshots == [operation : Operation, source : DirName, dir : Dirs \cup {NoDir}, manifest : Nat,
                 refs : SUBSET DirRef]
InProgress == [pc : Operation \cup {"inspectDelete", "moved", "inspect", "back", "told"}, snap : DirSnapshots,
            before : [DirName -> Dirs \cup {NoDir}], outcome : DirOutcomes]

DirTypes ==
    /\ dirs \in [DirName -> Dirs \cup {NoDir}]
    /\ files \in [Dirs -> Nat]
    /\ refs \in [DirRef -> DirName \cup {"none"}]
    /\ pend \in [DirRef -> DirName \cup {"none"}]
    /\ token \in {NoToken} \cup DirSnapshots
    /\ dop \in {NoOp} \cup InProgress
    /\ dindex \in [valid : BOOLEAN, names : [DirName -> Dirs \cup {NoDir}]]

Source == dop.snap.source
Target == Other(dop.snap.source)
Shifted == {"committed", "committed_after_error", "partial"}
Stayed == {"rejected", "rolled_back"}

\* Each step belongs to its operation, and an answer is one.
StepsBelong ==
    /\ dop.pc = "create" => dop.snap.operation = "create"
    /\ dop.pc \in {"delete", "inspectDelete"} => dop.snap.operation = "delete"
    /\ dop.pc \in {"rename", "moved", "inspect", "back"} => dop.snap.operation = "rename"
    /\ dop.pc = "told" => dop.outcome # "none"

\* Under the write lock the references are those of the plan; the directory is at
\* the one name before the move and at the other after it.
WhereItIs ==
    /\ dop.pc \in {"rename", "moved"} => RefsIn(Source) = dop.snap.refs
    /\ dop.pc = "delete" => RefsIn(Source) = {}
    /\ dop.pc \in {"rename", "moved", "inspect", "back"} =>
          dop.snap.dir # NoDir /\ dop.before[Source] = dop.snap.dir /\ dop.before[Target] = NoDir
    /\ dop.pc = "rename" => dirs[Source] = dop.snap.dir
    /\ dop.pc \in {"moved", "inspect", "back"} => dirs[Target] = dop.snap.dir

\* Nothing that was there has left its name yet, or it is back.
WasThere ==
    dop.pc = "rename" \/ (dop.pc = "told" /\ dop.outcome \in Stayed) =>
        \A n \in DirName : dop.before[n] # NoDir => dirs[n] = dop.before[n]

MovedOK ==
    dop.pc = "told" /\ dop.snap.operation = "rename" /\ dop.outcome \in Shifted =>
        /\ dop.snap.dir # NoDir /\ dirs[Target] = dop.snap.dir
        /\ \A o \in dop.snap.refs \ raced : refs[o] = Source => Resolves(Source)

\* A validated path leads to a file until a move makes it one of raced.
PendOK == \A o \in DirRef \ raced : pend[o] # "none" => Resolves(pend[o])

\* Where a reference may lead while its directory is on its way.
LeadsOn(n) ==
    /\ dop.pc = "moved" => n = Source /\ Resolves(Target)
    /\ dop.pc = "inspect" => Resolves(n) \/ (n = Source /\ Resolves(Target))
    /\ dop.pc = "back" => n = Source /\ (Resolves(Source) \/ Resolves(Target))
    /\ dop.pc = "told" => Resolves(n) \/ dop.outcome = "unknown"
    /\ dop.pc \notin {"moved", "inspect", "back", "told"} => Resolves(n)
RefsOK == ~doubted => \A o \in DirRef \ raced : refs[o] # "none" => LeadsOn(refs[o])

\* A usable index lists the names before the operation, and those are the names
\* still where it changed nothing.
Untouched == dop.pc \in {"create", "rename", "delete"} \/ (dop.pc = "told" /\ dop.outcome \in Stayed)
NamesOK ==
    dindex.valid /\ ~drift =>
        IF dop.pc = "idle" THEN dindex.names = dirs
        ELSE dindex.names = dop.before /\ (Untouched => dirs = dop.before)

DirInv ==
    /\ DirTypes /\ DirTypeOK /\ StepsBelong /\ WhereItIs /\ WasThere /\ MovedOK
    /\ PendOK /\ RefsOK /\ NamesOK

LEMMA TwoNames ==
    /\ \A n \in DirName : Other(n) \in DirName /\ Other(n) # n /\ (\A m \in DirName : m = n \/ m = Other(n))
    /\ "none" \notin DirName
  BY DEF Other, DirName

LEMMA DirsAreNumbers == NoDir \notin Dirs /\ 1 \in Dirs /\ Dirs \subseteq Nat
  BY DirAssumption DEF NoDir, Dirs

LEMMA RunningOperation ==
    ASSUME DirTypes, dop.pc # "idle"
    PROVE  dop \in InProgress
  BY DEF DirTypes, NoOp

LEMMA StepsOn ==
    ASSUME dop \in InProgress, NEW pc \in Operation \cup {"inspectDelete", "moved", "inspect", "back"},
           dop' = [dop EXCEPT !.pc = pc]
    PROVE  /\ dop' \in InProgress /\ dop'.pc = pc /\ dop'.snap = dop.snap /\ dop'.before = dop.before
           /\ Source' = Source /\ Target' = Target
  BY DEF InProgress, Source, Target

LEMMA TellsIt ==
    ASSUME dop \in InProgress, NEW said \in DirOutcomes, Told(said)
    PROVE  /\ dop' \in InProgress /\ dop'.pc = "told" /\ dop'.outcome = said
           /\ dop'.snap = dop.snap /\ dop'.before = dop.before
           /\ Source' = Source /\ Target' = Target
  BY DEF InProgress, Source, Target, Told

\* Two names of the directory of an operation.
LEMMA SourceAndTarget ==
    ASSUME dop \in InProgress
    PROVE  /\ Source \in DirName /\ Target \in DirName /\ Source # Target
           /\ \A n \in DirName : n = Source \/ n = Target
  BY TwoNames DEF InProgress, DirSnapshots, Source, Target

LEMMA InitDirInv == DirInit => DirInv
  <1> SUFFICES ASSUME DirInit PROVE DirInv
    OBVIOUS
  <1> USE DEF DirInit
  <1>1. dop.pc = "idle" /\ dop = NoOp
    BY DEF NoOp
  <1>2. dirs \in [DirName -> Dirs \cup {NoDir}]
    BY DirsAreNumbers DEF DirName, Dirs, NoDir
  <1>3. DirTypes
    BY <1>1, <1>2, TwoNames DEF DirTypes, DirName
  <1>4. DirTypeOK
    BY <1>1, <1>2, TwoNames, DirsAreNumbers DEF DirTypeOK, DirName, NoDir
  <1>5. StepsBelong /\ WhereItIs /\ WasThere /\ MovedOK
    BY <1>1 DEF StepsBelong, WhereItIs, WasThere, MovedOK
  <1>6. PendOK
    BY DEF PendOK
  <1>7. \A o \in DirRef : refs[o] # "none" => Resolves(refs[o])
    <2> SUFFICES ASSUME NEW o \in DirRef, refs[o] # "none" PROVE Resolves(refs[o])
      OBVIOUS
    <2>1. refs[o] = "A" /\ dirs["A"] = 1
      OBVIOUS
    <2>2. files[1] = 1
      BY DirsAreNumbers
    <2>3. QED
      BY <2>1, <2>2 DEF Resolves, Manifest, NoDir
  <1>8. RefsOK /\ NamesOK
    BY <1>1, <1>7 DEF RefsOK, LeadsOn, NamesOK
  <1>9. QED
    BY <1>3, <1>4, <1>5, <1>6, <1>8 DEF DirInv

LEMMA SameResolves ==
    ASSUME NEW n, files' = files, dirs'[n] = dirs[n]
    PROVE  Resolves(n)' <=> Resolves(n)
  BY DEF Resolves, Manifest

\* A step that leaves names, files, references and the operation alone.
LEMMA QuietDirStep ==
    ASSUME DirInv, token' \in {NoToken} \cup DirSnapshots,
           UNCHANGED <<dirs, files, refs, pend, dop, dbLock, dindex, raced, doubted, drift>>
    PROVE  DirInv'
  <1>1. \A n : Resolves(n)' <=> Resolves(n)
    BY SameResolves
  <1>2. Source' = Source /\ Target' = Target
    BY DEF Source, Target
  <1>3. DirTypes' /\ DirTypeOK' /\ StepsBelong' /\ WasThere'
    BY DEF DirInv, DirTypes, DirTypeOK, StepsBelong, WasThere
  <1>4. WhereItIs' /\ MovedOK'
    BY <1>1, <1>2 DEF DirInv, WhereItIs, MovedOK, RefsIn
  <1>5. PendOK' /\ RefsOK' /\ NamesOK'
    BY <1>1, <1>2 DEF DirInv, PendOK, RefsOK, LeadsOn, NamesOK, Untouched
  <1>6. QED
    BY <1>3, <1>4, <1>5 DEF DirInv

LEMMA SnapshotTyped ==
    ASSUME DirTypes, NEW operation \in Operation, NEW n \in DirName
    PROVE  Snapshot(operation, n) \in DirSnapshots
  <1>1. Manifest(dirs[n]) \in Nat
    BY DEF DirTypes, Manifest, NoDir
  <1>2. RefsIn(n) \in SUBSET DirRef /\ dirs[n] \in Dirs \cup {NoDir}
    BY DEF DirTypes, RefsIn
  <1>3. QED
    BY <1>1, <1>2 DEF Snapshot, DirSnapshots

LEMMA PreviewDirectoryInv ==
    ASSUME DirInv, NEW operation \in Operation, NEW n \in DirName, PreviewDirectory(operation, n)
    PROVE  DirInv'
  BY SnapshotTyped, QuietDirStep DEF PreviewDirectory, DirInv

LEMMA FreshMeans ==
    ASSUME DirTypes, token \in DirSnapshots, Fresh
    PROVE  /\ dirs[token.source] = token.dir /\ RefsIn(token.source) = token.refs
           /\ token.operation = "rename" => token.dir # NoDir /\ dirs[Other(token.source)] = NoDir
           /\ token.operation = "delete" => RefsIn(token.source) = {}
  <1>1. token.operation \in Operation
    BY DEF DirSnapshots
  <1>2. Snapshot(token.operation, token.source).dir = token.dir
        /\ Snapshot(token.operation, token.source).refs = token.refs
    BY DEF Fresh
  <1>3. dirs[token.source] = token.dir /\ RefsIn(token.source) = token.refs
    BY <1>2 DEF Snapshot
  <1>4. token.operation = "rename" => dirs[token.source] # NoDir /\ dirs[Other(token.source)] = NoDir
    BY DEF Fresh, SnapshotValid
  <1>5. token.operation = "delete" => RefsIn(token.source) = {}
    BY DEF Fresh, SnapshotValid
  <1>6. QED
    BY <1>3, <1>4, <1>5

LEMMA ConfirmDirectoryInv ==
    ASSUME DirInv, ConfirmDirectory
    PROVE  DirInv'
  <1>1. token \in DirSnapshots /\ token' = NoToken /\ dop.pc = "idle"
    BY DEF DirInv, DirTypes, ConfirmDirectory, OpAt
  <1>2. UNCHANGED <<dirs, files, refs, pend, dindex, raced, doubted, drift>>
    BY DEF ConfirmDirectory
  <1>3. \A n : Resolves(n)' <=> Resolves(n)
    BY <1>2, SameResolves
  <1>4. /\ dop'.snap = token /\ dop'.before = dirs /\ Source' = token.source /\ Target' = Other(token.source)
        /\ DOMAIN dop' = {"snap", "before", "outcome", "pc"}
    BY DEF ConfirmDirectory, Source, Target
  <1>5. dirs \in [DirName -> Dirs \cup {NoDir}] /\ token.operation \in Operation
    BY <1>1 DEF DirInv, DirTypes, DirSnapshots
  <1>6. PendOK'
    BY <1>2, <1>3 DEF DirInv, PendOK
  <1>7. \A o \in DirRef \ raced : ~doubted /\ refs[o] # "none" => Resolves(refs[o])
    BY <1>1 DEF DirInv, RefsOK, LeadsOn
  <1>8. dindex.valid /\ ~drift => dindex.names = dirs
    BY <1>1 DEF DirInv, NamesOK
  <1>9. CASE Fresh
    <2>1. dop'.pc = token.operation /\ dop'.outcome = "none" /\ (dbLock' <=> token.operation # "create")
      BY <1>9 DEF ConfirmDirectory
    <2>2. dop' = [snap |-> token, before |-> dirs, outcome |-> "none", pc |-> token.operation]
      BY <1>9 DEF ConfirmDirectory
    <2>3. dop' \in InProgress
      BY <1>1, <1>5, <2>2 DEF InProgress, DirOutcomes
    <2>4. DirTypes'
      BY <1>1, <1>2, <2>3 DEF DirInv, DirTypes
    <2>5. DirTypeOK' /\ StepsBelong'
      BY <1>2, <1>4, <1>5, <2>1 DEF DirInv, DirTypeOK, StepsBelong, Operation
    <2>6. WhereItIs'
      <3>1. /\ dirs[token.source] = token.dir /\ RefsIn(token.source) = token.refs
            /\ token.operation = "rename" => token.dir # NoDir /\ dirs[Other(token.source)] = NoDir
            /\ token.operation = "delete" => RefsIn(token.source) = {}
        BY <1>1, <1>9, FreshMeans DEF DirInv
      <3>3. RefsIn(Source)' = RefsIn(token.source)
        <4>1. \A o \in DirRef : refs'[o] = Source' <=> refs[o] = token.source
          BY <1>2, <1>4
        <4>2. QED
          BY <4>1 DEF RefsIn
      <3>4. dop'.pc \in {"create", "rename", "delete"}
        BY <1>5, <2>1 DEF Operation
      <3>5. dop'.pc # "create" =>
              dop'.before[Source'] = dirs[token.source] /\ dop'.before[Target'] = dirs[Other(token.source)]
        BY <1>4
      <3>6. /\ dop'.pc = "rename" => RefsIn(Source)' = dop'.snap.refs
            /\ dop'.pc = "delete" => RefsIn(Source)' = {}
        BY <1>4, <2>1, <3>1, <3>3
      <3>7. dop'.pc = "rename" => dop'.snap.dir # NoDir /\ dop'.before[Source'] = dop'.snap.dir
                                  /\ dop'.before[Target'] = NoDir /\ dirs'[Source'] = dop'.snap.dir
        BY <1>2, <1>4, <2>1, <3>1
      <3>8. QED
        BY <3>4, <3>6, <3>7 DEF WhereItIs
    <2>7. WasThere' /\ MovedOK'
      BY <1>2, <1>4, <1>5, <2>1 DEF WasThere, MovedOK, Operation
    <2>8. RefsOK'
      BY <1>2, <1>3, <1>5, <1>7, <2>1 DEF RefsOK, LeadsOn, Operation
    <2>9. NamesOK'
      BY <1>2, <1>4, <1>5, <1>8, <2>1 DEF NamesOK, Operation
    <2>10. QED
      BY <1>6, <2>4, <2>5, <2>6, <2>7, <2>8, <2>9 DEF DirInv
  <1>10. CASE ~Fresh
    <2>1. dop'.pc = "told" /\ dop'.outcome = "rejected" /\ ~dbLock'
      BY <1>10 DEF ConfirmDirectory
    <2>2. dop' = [snap |-> token, before |-> dirs, outcome |-> "rejected", pc |-> "told"]
      BY <1>10 DEF ConfirmDirectory
    <2>3. dop' \in InProgress
      BY <1>1, <1>5, <2>2 DEF InProgress, DirOutcomes
    <2>4. DirTypes'
      BY <1>1, <1>2, <2>3 DEF DirInv, DirTypes
    <2>5. DirTypeOK' /\ StepsBelong' /\ WhereItIs'
      BY <1>2, <2>1 DEF DirInv, DirTypeOK, StepsBelong, WhereItIs
    <2>6. WasThere' /\ MovedOK'
      BY <1>2, <1>4, <2>1 DEF WasThere, MovedOK, Shifted
    <2>7. RefsOK'
      BY <1>2, <1>3, <1>7, <2>1 DEF RefsOK, LeadsOn
    <2>8. NamesOK'
      BY <1>2, <1>4, <1>8, <2>1 DEF NamesOK
    <2>9. QED
      BY <1>6, <2>4, <2>5, <2>6, <2>7, <2>8 DEF DirInv
  <1>11. QED
    BY <1>9, <1>10


LEMMA UnusedDir ==
    ASSUME NEW S, S = {d \in Dirs : (\A m \in DirName : dirs[m] # d) /\ files[d] = 0}, S # {}
    PROVE  LET d == CHOOSE e \in S : TRUE
           IN  d \in Dirs /\ (\A m \in DirName : dirs[m] # d) /\ files[d] = 0
  <1>1. PICK d : d = CHOOSE e \in S : TRUE
    OBVIOUS
  <1>2. d \in S
    BY <1>1
  <1>3. QED
    BY <1>1, <1>2

\* A name that was free gets a new directory, empty.
LEMMA FillsFreeName ==
    ASSUME DirInv, NEW n \in DirName, dirs[n] = NoDir, NEW d \in Dirs, \A m \in DirName : dirs[m] # d,
           dirs' = [dirs EXCEPT ![n] = d], files' = files
    PROVE  /\ dirs' \in [DirName -> Dirs \cup {NoDir}] /\ dirs'["A"] # dirs'["B"]
           /\ \A m \in DirName : dirs[m] # NoDir => dirs'[m] = dirs[m]
           /\ \A m \in DirName : Resolves(m) => Resolves(m)'
  <1>1. dirs \in [DirName -> Dirs \cup {NoDir}]
    BY DEF DirInv, DirTypes
  <1>2. dirs' \in [DirName -> Dirs \cup {NoDir}] /\ \A m \in DirName : dirs'[m] = IF m = n THEN d ELSE dirs[m]
    BY <1>1
  <1>3. dirs'["A"] # dirs'["B"]
    BY <1>2, DirsAreNumbers DEF DirName
  <1>4. \A m \in DirName : dirs[m] # NoDir => dirs'[m] = dirs[m]
    BY <1>2
  <1>5. \A m \in DirName : Resolves(m) => Resolves(m)'
    BY <1>4 DEF Resolves, Manifest
  <1>6. QED
    BY <1>2, <1>3, <1>4, <1>5

LEMMA MakeDirectoryInv ==
    ASSUME DirInv, MakeDirectory
    PROVE  DirInv'
  <1>1. dop \in InProgress /\ dop.pc = "create"
    BY RunningOperation DEF DirInv, MakeDirectory, OpAt
  <1>2. UNCHANGED <<files, refs, pend, token, dbLock, dindex, raced, doubted, drift>>
    BY DEF MakeDirectory
  <1>3. Source \in DirName
    BY <1>1, SourceAndTarget
  <1>4. /\ dirs' \in [DirName -> Dirs \cup {NoDir}] /\ (dirs'["A"] = dirs'["B"] => dirs'["A"] = NoDir)
        /\ \A m \in DirName : Resolves(m) => Resolves(m)'
    <2>1. CASE dirs[Source] # NoDir
      <3>1. dirs' = dirs
        BY <2>1 DEF MakeDirectory, Source
      <3>2. QED
        BY <1>2, <3>1, SameResolves DEF DirInv, DirTypes, DirTypeOK
    <2>2. CASE dirs[Source] = NoDir
      <3>1. PICK unused : unused = {d \in Dirs : (\A m \in DirName : dirs[m] # d) /\ files[d] = 0}
        OBVIOUS
      <3>2. unused # {} /\ dirs' = [dirs EXCEPT ![Source] = CHOOSE d \in unused : TRUE]
        BY <2>2, <3>1 DEF MakeDirectory, Source
      <3>3. PICK d \in Dirs : (\A m \in DirName : dirs[m] # d) /\ dirs' = [dirs EXCEPT ![Source] = d]
        BY <3>1, <3>2, UnusedDir
      <3>4. QED
        BY <1>2, <1>3, <2>2, <3>3, FillsFreeName
    <2>3. QED
      BY <2>1, <2>2
  <1>5. \E said \in {"committed", "partial", "unknown"} : Told(said)
    BY DEF MakeDirectory
  <1>6. /\ dop' \in InProgress /\ dop'.pc = "told" /\ dop'.outcome \in {"committed", "partial", "unknown"}
        /\ dop'.snap = dop.snap /\ dop'.before = dop.before
    BY <1>1, <1>5, TellsIt DEF DirOutcomes
  <1>7. DirTypes'
    BY <1>2, <1>4, <1>6 DEF DirInv, DirTypes
  <1>8. DirTypeOK'
    BY <1>1, <1>2, <1>4, <1>6 DEF DirInv, DirTypes, DirTypeOK
  <1>9. StepsBelong' /\ WhereItIs' /\ WasThere' /\ MovedOK'
    BY <1>1, <1>6 DEF DirInv, StepsBelong, WhereItIs, WasThere, MovedOK, Stayed
  <1>10. PendOK' /\ RefsOK'
    BY <1>1, <1>2, <1>4, <1>6 DEF DirInv, DirTypes, PendOK, RefsOK, LeadsOn
  <1>11. NamesOK'
    BY <1>1, <1>2, <1>6 DEF DirInv, NamesOK, Untouched, Stayed
  <1>12. QED
    BY <1>7, <1>8, <1>9, <1>10, <1>11 DEF DirInv

LEMMA RemoveDirectoryInv ==
    ASSUME DirInv, RemoveDirectory
    PROVE  DirInv'
  <1>1. dop \in InProgress /\ dop.pc = "delete"
    BY RunningOperation DEF DirInv, RemoveDirectory, OpAt
  <1>2. UNCHANGED <<files, refs, pend, token, dindex, doubted, drift>> /\ ~dbLock'
    BY DEF RemoveDirectory
  <1>3. Source \in DirName /\ dirs \in [DirName -> Dirs \cup {NoDir}]
    BY <1>1, SourceAndTarget DEF DirInv, DirTypes
  <1>4. dop.snap.operation = "delete" /\ RefsIn(Source) = {}
    BY <1>1 DEF DirInv, StepsBelong, WhereItIs
  <1>5. /\ dirs' \in [DirName -> Dirs \cup {NoDir}] /\ (dirs'["A"] = dirs'["B"] => dirs'["A"] = NoDir)
        /\ \A m \in DirName \ {Source} : Resolves(m) => Resolves(m)'
        /\ \A o \in DirRef \ raced' : o \notin raced /\ (pend[o] # "none" => Resolves(pend[o])')
    <2>1. CASE Manifest(dirs[Source]) # 0
      <3>1. dirs' = dirs /\ raced' = raced
        BY <2>1 DEF RemoveDirectory, Source
      <3>2. QED
        BY <1>2, <3>1, SameResolves DEF DirInv, DirTypes, DirTypeOK, PendOK
    <2>2. CASE Manifest(dirs[Source]) = 0
      <3>1. dirs' = [dirs EXCEPT ![Source] = NoDir] /\ raced' = raced \cup {o \in DirRef : pend[o] = Source}
        BY <2>2 DEF RemoveDirectory, Source
      <3>2. /\ dirs' \in [DirName -> Dirs \cup {NoDir}]
            /\ \A m \in DirName : dirs'[m] = IF m = Source THEN NoDir ELSE dirs[m]
        BY <1>3, <3>1
      <3>3. \A m \in DirName \ {Source} : Resolves(m) => Resolves(m)'
        BY <1>2, <3>2 DEF Resolves, Manifest
      <3>4. dirs'["A"] = dirs'["B"] => dirs'["A"] = NoDir
        BY <3>2 DEF DirName, DirInv, DirTypeOK
      <3>5. \A o \in DirRef \ raced' : o \notin raced /\ (pend[o] # "none" => Resolves(pend[o])')
        BY <1>2, <3>1, <3>3 DEF DirInv, DirTypes, PendOK
      <3>6. QED
        BY <3>2, <3>3, <3>4, <3>5
    <2>3. QED
      BY <2>1, <2>2
  <1>6. \/ \E said \in {"committed", "unknown"} : Told(said)
        \/ dop' = [dop EXCEPT !.pc = "inspectDelete"]
    BY DEF RemoveDirectory
  <1>7. /\ dop' \in InProgress /\ dop'.snap = dop.snap /\ dop'.before = dop.before
        /\ dop'.pc = "inspectDelete" \/ (dop'.pc = "told" /\ dop'.outcome \in {"committed", "unknown"})
    BY <1>1, <1>6, TellsIt, StepsOn DEF DirOutcomes
  <1>8. DirTypes'
    BY <1>2, <1>5, <1>7 DEF DirInv, DirTypes
  <1>9. DirTypeOK'
    BY <1>2, <1>5, <1>7 DEF DirInv, DirTypes, DirTypeOK
  <1>10. StepsBelong' /\ WhereItIs' /\ WasThere' /\ MovedOK'
    BY <1>4, <1>7 DEF StepsBelong, WhereItIs, WasThere, MovedOK, Stayed
  <1>11. PendOK'
    BY <1>2, <1>5 DEF PendOK
  <1>12. RefsOK'
    <2> SUFFICES ASSUME ~doubted, NEW o \in DirRef \ raced', refs[o] # "none" PROVE LeadsOn(refs[o])'
      BY <1>2 DEF RefsOK
    <2>1. Resolves(refs[o]) /\ refs[o] # Source /\ refs[o] \in DirName
      BY <1>1, <1>4, <1>5 DEF DirInv, DirTypes, RefsOK, LeadsOn, RefsIn
    <2>2. Resolves(refs[o])'
      BY <1>2, <1>5, <2>1
    <2>3. QED
      BY <1>7, <2>2 DEF LeadsOn
  <1>13. NamesOK'
    BY <1>1, <1>2, <1>7 DEF DirInv, NamesOK, Untouched, Stayed
  <1>14. QED
    BY <1>8, <1>9, <1>10, <1>11, <1>12, <1>13 DEF DirInv

LEMMA InspectDeleteInv ==
    ASSUME DirInv, InspectDelete
    PROVE  DirInv'
  <1>1. dop \in InProgress /\ dop.pc = "inspectDelete"
    BY RunningOperation DEF DirInv, InspectDelete, OpAt
  <1>2. UNCHANGED <<dirs, files, refs, pend, token, dbLock, dindex, raced, doubted, drift>>
    BY DEF InspectDelete
  <1>3. \A n : Resolves(n)' <=> Resolves(n)
    BY <1>2, SameResolves
  <1>4. dop.snap.operation = "delete"
    BY <1>1 DEF DirInv, StepsBelong
  <1>5. \E said \in {"partial", "unknown"} : Told(said)
    BY DEF InspectDelete
  <1>6. /\ dop' \in InProgress /\ dop'.snap = dop.snap /\ dop'.before = dop.before
        /\ dop'.pc = "told" /\ dop'.outcome \in {"partial", "unknown"}
    BY <1>1, <1>5, TellsIt DEF DirOutcomes
  <1>7. DirTypes' /\ DirTypeOK'
    BY <1>1, <1>2, <1>6 DEF DirInv, DirTypes, DirTypeOK
  <1>8. StepsBelong' /\ WhereItIs' /\ WasThere' /\ MovedOK'
    BY <1>4, <1>6 DEF StepsBelong, WhereItIs, WasThere, MovedOK, Stayed
  <1>9. PendOK' /\ RefsOK' /\ NamesOK'
    BY <1>1, <1>2, <1>3, <1>6 DEF DirInv, PendOK, RefsOK, LeadsOn, NamesOK, Untouched, Stayed
  <1>10. QED
    BY <1>7, <1>8, <1>9 DEF DirInv

\* The directory has changed its name and nothing else has.
LEMMA MoveToMoves ==
    ASSUME DirInv, NEW n \in DirName, MoveTo(n, Other(n)), files' = files
    PROVE  /\ dirs' \in [DirName -> Dirs \cup {NoDir}]
           /\ dirs'[n] = NoDir /\ dirs'[Other(n)] = dirs[n]
           /\ dirs'["A"] = dirs'["B"] => dirs'["A"] = NoDir
           /\ Resolves(Other(n))' <=> Resolves(n)
  <1>1. Other(n) \in DirName /\ Other(n) # n /\ \A m \in DirName : m = n \/ m = Other(n)
    BY TwoNames
  <1>2. dirs \in [DirName -> Dirs \cup {NoDir}]
    BY DEF DirInv, DirTypes
  <1>3. /\ dirs' \in [DirName -> Dirs \cup {NoDir}]
        /\ dirs'[n] = NoDir /\ dirs'[Other(n)] = dirs[n]
    BY <1>1, <1>2 DEF MoveTo
  <1>4. dirs'["A"] = dirs'["B"] => dirs'["A"] = NoDir
    BY <1>1, <1>3 DEF DirName
  <1>5. QED
    BY <1>3, <1>4 DEF Resolves, Manifest

LEMMA RenameDirectoryInv ==
    ASSUME DirInv, RenameDirectory
    PROVE  DirInv'
  <1>1. dop \in InProgress /\ dop.pc = "rename"
    BY RunningOperation DEF DirInv, RenameDirectory, OpAt
  <1>2. UNCHANGED <<files, refs, pend, token, dindex, doubted, drift>>
    BY DEF RenameDirectory
  <1>3. Source \in DirName /\ Target \in DirName /\ Source # Target /\ Target = Other(Source)
        /\ \A n \in DirName : n = Source \/ n = Target
    BY <1>1, SourceAndTarget DEF Source, Target
  <1>4. /\ dop.snap.operation = "rename" /\ RefsIn(Source) = dop.snap.refs /\ dirs[Source] = dop.snap.dir
        /\ dop.snap.dir # NoDir /\ dop.before[Source] = dop.snap.dir /\ dop.before[Target] = NoDir
    BY <1>1 DEF DirInv, StepsBelong, WhereItIs
  <1>5. CASE dirs[Target] # NoDir
    <2>1. Told("rejected") /\ ~dbLock' /\ UNCHANGED <<dirs, raced>>
      BY <1>5 DEF RenameDirectory, Target
    <2>2. /\ dop' \in InProgress /\ dop'.pc = "told" /\ dop'.outcome = "rejected"
          /\ dop'.snap = dop.snap /\ dop'.before = dop.before
      BY <1>1, <2>1, TellsIt DEF DirOutcomes
    <2>3. \A n : Resolves(n)' <=> Resolves(n)
      BY <1>2, <2>1, SameResolves
    <2>4. DirTypes' /\ DirTypeOK'
      BY <1>2, <2>1, <2>2 DEF DirInv, DirTypes, DirTypeOK
    <2>5. StepsBelong' /\ WhereItIs' /\ MovedOK'
      BY <2>2 DEF StepsBelong, WhereItIs, MovedOK, Shifted
    <2>6. WasThere'
      BY <1>1, <2>1, <2>2 DEF DirInv, WasThere
    <2>7. PendOK' /\ RefsOK' /\ NamesOK'
      BY <1>1, <1>2, <2>1, <2>2, <2>3 DEF DirInv, PendOK, RefsOK, LeadsOn, NamesOK, Untouched
    <2>8. QED
      BY <2>4, <2>5, <2>6, <2>7 DEF DirInv
  <1>6. CASE dirs[Target] = NoDir
    <2>1. /\ MoveTo(Source, Target) /\ dbLock' = dbLock /\ dop' = [dop EXCEPT !.pc = "moved"]
          /\ raced' = raced \cup {o \in DirRef : pend[o] \in DirName}
      BY <1>6 DEF RenameDirectory, Source, Target
    <2>2. /\ dop' \in InProgress /\ dop'.pc = "moved" /\ dop'.snap = dop.snap /\ dop'.before = dop.before
          /\ Source' = Source /\ Target' = Target
      BY <1>1, <2>1, StepsOn
    <2>3. /\ dirs' \in [DirName -> Dirs \cup {NoDir}] /\ dirs'[Target] = dirs[Source]
          /\ dirs'["A"] = dirs'["B"] => dirs'["A"] = NoDir
          /\ Resolves(Target)' <=> Resolves(Source)
      BY <1>2, <1>3, <2>1, <2>2, MoveToMoves
    <2>4. DirTypes'
      BY <1>2, <2>2, <2>3 DEF DirInv, DirTypes
    <2>5. DirTypeOK'
      BY <1>1, <1>2, <2>1, <2>2, <2>3 DEF DirInv, DirTypes, DirTypeOK
    <2>6. StepsBelong' /\ WasThere' /\ MovedOK'
      BY <1>4, <2>2 DEF StepsBelong, WasThere, MovedOK
    <2>7. RefsIn(Source)' = RefsIn(Source)
      BY <1>2, <2>2 DEF RefsIn
    <2>8. WhereItIs'
      BY <1>4, <2>2, <2>3, <2>7 DEF WhereItIs
    <2>9. PendOK'
      BY <1>2, <2>1 DEF DirInv, DirTypes, PendOK
    <2>10. RefsOK'
      <3> SUFFICES ASSUME ~doubted, NEW o \in DirRef \ raced', refs[o] # "none" PROVE LeadsOn(refs[o])'
        BY <1>2 DEF RefsOK
      <3>1. Resolves(refs[o]) /\ refs[o] \in DirName
        BY <1>1, <2>1 DEF DirInv, DirTypes, RefsOK, LeadsOn
      <3>2. refs[o] = Source
        BY <1>3, <1>6, <3>1 DEF Resolves
      <3>3. QED
        BY <1>2, <2>2, <2>3, <3>1, <3>2 DEF LeadsOn
    <2>11. NamesOK'
      BY <1>1, <1>2, <2>2 DEF DirInv, NamesOK, Untouched
    <2>12. QED
      BY <2>4, <2>5, <2>6, <2>8, <2>9, <2>10, <2>11 DEF DirInv
  <1>7. QED
    BY <1>5, <1>6

LEMMA CommitReferencesInv ==
    ASSUME DirInv, CommitReferences
    PROVE  DirInv'
  <1>1. dop \in InProgress /\ dop.pc = "moved"
    BY RunningOperation DEF DirInv, CommitReferences, OpAt
  <1>2. UNCHANGED <<dirs, files, pend, token, dindex, raced, doubted, drift>> /\ ~dbLock'
    BY DEF CommitReferences
  <1>3. \A n : Resolves(n)' <=> Resolves(n)
    BY <1>2, SameResolves
  <1>4. Source \in DirName /\ Target \in DirName /\ Source # Target
    BY <1>1, SourceAndTarget
  <1>5. /\ dop.snap.operation = "rename" /\ RefsIn(Source) = dop.snap.refs /\ dirs[Target] = dop.snap.dir
        /\ dop.snap.dir # NoDir /\ dop.before[Source] = dop.snap.dir /\ dop.before[Target] = NoDir
    BY <1>1 DEF DirInv, StepsBelong, WhereItIs
  <1>6. \A o \in DirRef \ raced : ~doubted /\ refs[o] # "none" => refs[o] = Source /\ Resolves(Target)
    BY <1>1 DEF DirInv, RefsOK, LeadsOn
  <1>7. \/ dop' = [dop EXCEPT !.pc = "inspect"]
        \/ refs' = MovedRefs(dop.snap) /\ \E said \in {"committed", "partial"} : Told(said)
    BY DEF CommitReferences
  <1>8. /\ dop' \in InProgress /\ dop'.snap = dop.snap /\ dop'.before = dop.before
        /\ Source' = Source /\ Target' = Target
        /\ \/ dop'.pc = "inspect"
           \/ /\ dop'.pc = "told" /\ dop'.outcome \in {"committed", "partial"}
              /\ refs' = MovedRefs(dop.snap)
    BY <1>1, <1>7, TellsIt, StepsOn DEF DirOutcomes
  <1>9. refs' = refs \/ refs' = MovedRefs(dop.snap)
    BY DEF CommitReferences
  <1>10. MovedRefs(dop.snap) = [o \in DirRef |-> IF refs[o] = Source THEN Target ELSE refs[o]]
    BY <1>5 DEF MovedRefs, RefsIn, Source, Target
  <1>11. refs' \in [DirRef -> DirName \cup {"none"}]
    BY <1>4, <1>9, <1>10 DEF DirInv, DirTypes
  <1>12. DirTypes' /\ DirTypeOK'
    BY <1>2, <1>8, <1>11 DEF DirInv, DirTypes, DirTypeOK
  <1>13. StepsBelong' /\ WhereItIs' /\ WasThere'
    BY <1>2, <1>5, <1>8 DEF StepsBelong, WhereItIs, WasThere, Stayed
  <1>14. MovedOK'
    <2>1. refs' = MovedRefs(dop.snap) => \A o \in DirRef : refs'[o] # Source
      BY <1>4, <1>10
    <2>2. dop.snap.refs \subseteq DirRef
      BY <1>1 DEF InProgress, DirSnapshots
    <2>3. QED
      BY <1>2, <1>5, <1>8, <2>1, <2>2 DEF MovedOK
  <1>15. PendOK'
    BY <1>2, <1>3 DEF DirInv, PendOK
  <1>16. RefsOK'
    <2> SUFFICES ASSUME ~doubted, NEW o \in DirRef \ raced, refs'[o] # "none" PROVE LeadsOn(refs[o])'
      BY <1>2 DEF RefsOK
    <2>1. CASE refs' = refs
      BY <1>3, <1>6, <1>8, <1>4, <1>10, <2>1 DEF LeadsOn, DirInv, DirTypes
    <2>2. CASE refs' = MovedRefs(dop.snap)
      <3>1. refs[o] = Source /\ Resolves(Target)
        <4>1. refs'[o] = IF refs[o] = Source THEN Target ELSE refs[o]
          BY <1>10, <2>2
        <4>2. refs[o] # "none"
          BY <1>4, <4>1, TwoNames
        <4>3. QED
          BY <1>6, <4>2
      <3>2. refs'[o] = Target
        BY <1>10, <2>2, <3>1
      <3>3. Resolves(refs'[o])
        BY <3>1, <3>2
      <3>4. Resolves(refs[o])'
        BY <1>2, <3>3 DEF Resolves, Manifest
      <3>5. QED
        BY <1>8, <3>4 DEF LeadsOn
    <2>3. QED
      BY <1>9, <2>1, <2>2
  <1>17. NamesOK'
    BY <1>1, <1>2, <1>8 DEF DirInv, NamesOK, Untouched, Stayed
  <1>18. QED
    BY <1>12, <1>13, <1>14, <1>15, <1>16, <1>17 DEF DirInv


LEMMA InspectRenameInv ==
    ASSUME DirInv, InspectRename
    PROVE  DirInv'
  <1>1. dop \in InProgress /\ dop.pc = "inspect"
    BY RunningOperation DEF DirInv, InspectRename, OpAt
  <1>2. UNCHANGED <<dirs, files, refs, pend, token, dbLock, dindex, raced, doubted, drift>>
    BY DEF InspectRename
  <1>3. \A n : Resolves(n)' <=> Resolves(n)
    BY <1>2, SameResolves
  <1>4. Source \in DirName /\ Target \in DirName /\ Source # Target /\ \A n \in DirName : n = Source \/ n = Target
    BY <1>1, SourceAndTarget
  <1>5. /\ dop.snap.operation = "rename" /\ dirs[Target] = dop.snap.dir
        /\ dop.snap.dir # NoDir /\ dop.before[Source] = dop.snap.dir /\ dop.before[Target] = NoDir
    BY <1>1 DEF DirInv, StepsBelong, WhereItIs
  <1>6. \A o \in DirRef \ raced : ~doubted /\ refs[o] # "none" =>
            Resolves(refs[o]) \/ (refs[o] = Source /\ Resolves(Target))
    BY <1>1 DEF DirInv, RefsOK, LeadsOn
  <1>7. PICK said : said = IndependentOutcome(Source, Target)
    OBVIOUS
  <1>8. said \in {"unknown", "committed_after_error", "not_committed"}
    BY <1>7 DEF IndependentOutcome
  <1>9. dop.snap.refs \subseteq DirRef /\ \A o \in DirRef : refs[o] \in DirName \cup {"none"}
    BY <1>1 DEF InProgress, DirSnapshots, DirInv, DirTypes
  <1>10. said = "committed_after_error" => \A o \in DirRef : refs[o] # Source
    <2> SUFFICES ASSUME said = "committed_after_error", NEW o \in DirRef, refs[o] = Source PROVE FALSE
      OBVIOUS
    <2>1. dop.snap.refs \subseteq RefsIn(Target)
      BY <1>7 DEF IndependentOutcome
    <2>2. (RefsIn(Source) \cup RefsIn(Target)) \ dop.snap.refs = {}
      BY <1>7 DEF IndependentOutcome
    <2>3. o \in RefsIn(Source)
      BY DEF RefsIn
    <2>4. o \in RefsIn(Target)
      BY <2>1, <2>2, <2>3
    <2>5. QED
      BY <1>4, <2>4 DEF RefsIn
  <1>11. said = "not_committed" => \A o \in DirRef : refs[o] # Target
    <2> SUFFICES ASSUME said = "not_committed", NEW o \in DirRef, refs[o] = Target PROVE FALSE
      OBVIOUS
    <2>1. dop.snap.refs \subseteq RefsIn(Source)
      BY <1>7 DEF IndependentOutcome
    <2>2. (RefsIn(Source) \cup RefsIn(Target)) \ dop.snap.refs = {}
      BY <1>7 DEF IndependentOutcome
    <2>3. o \in RefsIn(Target)
      BY DEF RefsIn
    <2>4. o \in RefsIn(Source)
      BY <2>1, <2>2, <2>3
    <2>5. QED
      BY <1>4, <2>4 DEF RefsIn
  <1>12. \/ said = "not_committed" /\ dop' = [dop EXCEPT !.pc = "back"]
         \/ said = "committed_after_error" /\ Told("committed_after_error")
         \/ Told("unknown")
    BY <1>7, <1>8 DEF InspectRename, Source, Target
  <1>13. /\ dop' \in InProgress /\ dop'.snap = dop.snap /\ dop'.before = dop.before
         /\ Source' = Source /\ Target' = Target
         /\ \/ said = "not_committed" /\ dop'.pc = "back"
            \/ /\ said = "committed_after_error"
               /\ dop'.pc = "told" /\ dop'.outcome = "committed_after_error"
            \/ dop'.pc = "told" /\ dop'.outcome = "unknown"
    BY <1>1, <1>12, TellsIt, StepsOn DEF DirOutcomes
  <1>14. DirTypes' /\ DirTypeOK'
    BY <1>1, <1>2, <1>13 DEF DirInv, DirTypes, DirTypeOK
  <1>15. StepsBelong' /\ WhereItIs' /\ WasThere'
    BY <1>2, <1>5, <1>13 DEF StepsBelong, WhereItIs, WasThere, Stayed
  <1>16. MovedOK'
    BY <1>2, <1>5, <1>9, <1>10, <1>13 DEF MovedOK, Shifted
  <1>17. PendOK'
    BY <1>2, <1>3 DEF DirInv, PendOK
  <1>18. RefsOK'
    <2> SUFFICES ASSUME ~doubted, NEW o \in DirRef \ raced, refs[o] # "none" PROVE LeadsOn(refs[o])'
      BY <1>2 DEF RefsOK
    <2>1. Resolves(refs[o]) \/ (refs[o] = Source /\ Resolves(Target))
      BY <1>6
    <2>2. said = "committed_after_error" => Resolves(refs[o])
      BY <1>10, <2>1
    <2>3. said = "not_committed" => refs[o] = Source /\ (Resolves(Source) \/ Resolves(Target))
      BY <1>4, <1>9, <1>11, <2>1
    <2>4. Resolves(refs[o])' <=> Resolves(refs[o])
      BY <1>2 DEF Resolves, Manifest
    <2>5. (Resolves(Source)' <=> Resolves(Source)) /\ (Resolves(Target)' <=> Resolves(Target))
      BY <1>2, <1>13 DEF Resolves, Manifest
    <2>6. QED
      BY <1>2, <1>13, <2>2, <2>3, <2>4, <2>5 DEF LeadsOn
  <1>19. NamesOK'
    BY <1>1, <1>2, <1>13 DEF DirInv, NamesOK, Untouched, Stayed
  <1>20. QED
    BY <1>14, <1>15, <1>16, <1>17, <1>18, <1>19 DEF DirInv

LEMMA RenameBackInv ==
    ASSUME DirInv, RenameBack
    PROVE  DirInv'
  <1>1. dop \in InProgress /\ dop.pc = "back"
    BY RunningOperation DEF DirInv, RenameBack, OpAt
  <1>2. UNCHANGED <<files, refs, pend, token, dbLock, dindex, doubted, drift>>
    BY DEF RenameBack
  <1>3. /\ Source \in DirName /\ Target \in DirName /\ Source # Target /\ Other(Target) = Source
        /\ \A n \in DirName : n = Source \/ n = Target
    BY <1>1, SourceAndTarget, TwoNames
  <1>4. /\ dop.snap.operation = "rename" /\ dirs[Target] = dop.snap.dir
        /\ dop.snap.dir # NoDir /\ dop.before[Source] = dop.snap.dir /\ dop.before[Target] = NoDir
    BY <1>1 DEF DirInv, StepsBelong, WhereItIs
  <1>5. \A o \in DirRef \ raced : ~doubted /\ refs[o] # "none" =>
            refs[o] = Source /\ (Resolves(Source) \/ Resolves(Target))
    BY <1>1 DEF DirInv, RefsOK, LeadsOn
  <1>6. CASE dirs[Source] = NoDir
    <2>1. /\ MoveTo(Target, Source) /\ \E said \in {"rolled_back", "unknown"} : Told(said)
          /\ raced' = raced \cup {o \in DirRef : pend[o] \in DirName}
      BY <1>4, <1>6 DEF RenameBack, BackOutcomes, Source, Target
    <2>2. /\ dop' \in InProgress /\ dop'.snap = dop.snap /\ dop'.before = dop.before
          /\ dop'.pc = "told" /\ dop'.outcome \in {"rolled_back", "unknown"}
      BY <1>1, <2>1, TellsIt DEF DirOutcomes
    <2>3. /\ dirs' \in [DirName -> Dirs \cup {NoDir}] /\ dirs'[Source] = dirs[Target] /\ dirs'[Target] = NoDir
          /\ dirs'["A"] = dirs'["B"] => dirs'["A"] = NoDir
      <3>1. PICK t : t = Target
        OBVIOUS
      <3>2. MoveTo(t, Other(t)) /\ t \in DirName
        BY <1>3, <2>1, <3>1
      <3>3. QED
        BY <1>2, <1>3, <3>1, <3>2, MoveToMoves
    <2>4. DirTypes'
      BY <1>2, <2>2, <2>3 DEF DirInv, DirTypes
    <2>5. DirTypeOK'
      BY <1>1, <1>2, <2>2, <2>3 DEF DirInv, DirTypes, DirTypeOK
    <2>6. StepsBelong' /\ WhereItIs' /\ MovedOK'
      BY <2>2 DEF StepsBelong, WhereItIs, MovedOK, Shifted
    <2>7. dirs' = dop.before
      <3>1. dop.before \in [DirName -> Dirs \cup {NoDir}]
        BY <1>1 DEF InProgress
      <3>2. \A n \in DirName : dirs'[n] = dop.before[n]
        BY <1>3, <1>4, <2>3
      <3>3. QED
        BY <2>3, <3>1, <3>2
    <2>8. WasThere'
      BY <2>2, <2>7 DEF WasThere
    <2>9. PendOK'
      BY <1>2, <2>1 DEF DirInv, DirTypes, PendOK
    <2>10. RefsOK'
      <3> SUFFICES ASSUME ~doubted, NEW o \in DirRef \ raced', refs[o] # "none" PROVE LeadsOn(refs[o])'
        BY <1>2 DEF RefsOK
      <3>1. refs[o] = Source /\ Resolves(Target)
        BY <1>5, <1>6, <2>1 DEF Resolves
      <3>2. Resolves(refs[o])'
        BY <1>2, <2>3, <3>1 DEF Resolves, Manifest
      <3>3. QED
        BY <2>2, <3>2 DEF LeadsOn
    <2>11. NamesOK'
      BY <1>1, <1>2, <2>2, <2>7 DEF DirInv, NamesOK
    <2>12. QED
      BY <2>4, <2>5, <2>6, <2>8, <2>9, <2>10, <2>11 DEF DirInv
  <1>7. CASE dirs[Source] # NoDir
    <2>1. Told("unknown") /\ UNCHANGED <<dirs, raced>>
      BY <1>7 DEF RenameBack, BackOutcomes, Source
    <2>2. /\ dop' \in InProgress /\ dop'.snap = dop.snap /\ dop'.before = dop.before
          /\ dop'.pc = "told" /\ dop'.outcome = "unknown"
      BY <1>1, <2>1, TellsIt DEF DirOutcomes
    <2>3. \A n : Resolves(n)' <=> Resolves(n)
      BY <1>2, <2>1, SameResolves
    <2>4. DirTypes' /\ DirTypeOK'
      BY <1>1, <1>2, <2>1, <2>2 DEF DirInv, DirTypes, DirTypeOK
    <2>5. StepsBelong' /\ WhereItIs' /\ WasThere' /\ MovedOK'
      BY <2>2 DEF StepsBelong, WhereItIs, WasThere, MovedOK, Stayed, Shifted
    <2>6. PendOK' /\ RefsOK' /\ NamesOK'
      BY <1>1, <1>2, <2>1, <2>2, <2>3 DEF DirInv, PendOK, RefsOK, LeadsOn, NamesOK, Untouched, Stayed
    <2>7. QED
      BY <2>4, <2>5, <2>6 DEF DirInv
  <1>8. QED
    BY <1>6, <1>7

LEMMA CoordinateDirectoryInv ==
    ASSUME DirInv, CoordinateDirectory
    PROVE  DirInv'
  <1>1. dop \in InProgress /\ dop.pc = "told"
    BY RunningOperation DEF DirInv, CoordinateDirectory, OpAt
  <1>2. /\ UNCHANGED <<dirs, files, refs, pend, token, dbLock, raced>> /\ dop' = NoOp /\ dop'.pc = "idle"
        /\ ~doubted' => ~doubted /\ dop.outcome # "unknown"
    BY DEF CoordinateDirectory, NoOp
  <1>3. \A n : Resolves(n)' <=> Resolves(n)
    BY <1>2, SameResolves
  <1>4. dindex \in [valid : BOOLEAN, names : [DirName -> Dirs \cup {NoDir}]] /\ dirs \in [DirName -> Dirs \cup {NoDir}]
    BY DEF DirInv, DirTypes
  <1>5. PICK seen \in {FilesystemOutcome(dop.outcome), "unknown"}, scans \in BOOLEAN, marks \in BOOLEAN :
           LET refreshed == seen = "changed" /\ scans
           IN  /\ dindex' = CASE seen = "no_change" -> dindex
                              [] refreshed -> [valid |-> TRUE, names |-> dirs]
                              [] OTHER -> IF marks THEN [dindex EXCEPT !.valid = FALSE] ELSE dindex
               /\ drift' = CASE refreshed -> FALSE
                             [] seen = "no_change" -> drift
                             [] OTHER -> drift \/ ~marks
    BY DEF CoordinateDirectory
  <1>6. /\ dindex' \in [valid : BOOLEAN, names : [DirName -> Dirs \cup {NoDir}]]
        /\ dindex'.valid /\ ~drift' => dindex'.names = dirs
    <2>1. CASE seen = "no_change"
      <3>1. dindex' = dindex /\ drift' = drift
        BY <1>5, <2>1
      <3>2. dop.outcome \in Stayed
        <4>1. dop.outcome \in DirOutcomes \ {"none"}
          BY <1>1 DEF InProgress, DirInv, StepsBelong
        <4>2. FilesystemOutcome(dop.outcome) = "no_change"
          BY <2>1
        <4>3. QED
          BY <4>1, <4>2 DEF DirOutcomes, FilesystemOutcome, Stayed
      <3>3. dindex.valid /\ ~drift => dindex.names = dirs
        BY <1>1, <3>2 DEF DirInv, NamesOK, Untouched
      <3>4. QED
        BY <1>4, <3>1, <3>3
    <2>2. CASE seen = "changed" /\ scans
      <3>1. dindex' = [valid |-> TRUE, names |-> dirs]
        BY <1>5, <2>2
      <3>2. QED
        BY <1>4, <3>1
    <2>3. CASE seen # "no_change" /\ ~(seen = "changed" /\ scans)
      <3>1. dindex' = (IF marks THEN [dindex EXCEPT !.valid = FALSE] ELSE dindex) /\ drift' = (drift \/ ~marks)
        BY <1>5, <2>3
      <3>2. CASE marks
        BY <1>4, <3>1, <3>2
      <3>3. CASE ~marks
        BY <1>4, <3>1, <3>3
      <3>4. QED
        BY <3>2, <3>3
    <2>4. QED
      BY <2>1, <2>2, <2>3
  <1>7. DirTypes' /\ DirTypeOK'
    BY <1>1, <1>2, <1>6 DEF DirInv, DirTypes, DirTypeOK
  <1>8. StepsBelong' /\ WhereItIs' /\ WasThere' /\ MovedOK'
    BY <1>2 DEF StepsBelong, WhereItIs, WasThere, MovedOK
  <1>9. PendOK'
    BY <1>2, <1>3 DEF DirInv, PendOK
  <1>10. RefsOK'
    BY <1>1, <1>2, <1>3 DEF DirInv, RefsOK, LeadsOn
  <1>11. NamesOK'
    BY <1>2, <1>6 DEF NamesOK
  <1>12. QED
    BY <1>7, <1>8, <1>9, <1>10, <1>11 DEF DirInv

LEMMA CrashDirectoryInv ==
    ASSUME DirInv, CrashDirectory
    PROVE  DirInv'
  <1>1. /\ UNCHANGED <<dirs, files, refs, token, dindex, raced>> /\ dop' = NoOp /\ dop'.pc = "idle"
        /\ ~dbLock' /\ doubted' /\ drift' /\ pend' = [o \in DirRef |-> "none"]
    BY DEF CrashDirectory, NoOp
  <1>2. DirTypes' /\ DirTypeOK'
    BY <1>1 DEF DirInv, DirTypes, DirTypeOK
  <1>3. StepsBelong' /\ WhereItIs' /\ WasThere' /\ MovedOK'
    BY <1>1 DEF StepsBelong, WhereItIs, WasThere, MovedOK
  <1>4. PendOK' /\ RefsOK' /\ NamesOK'
    BY <1>1 DEF PendOK, RefsOK, NamesOK
  <1>5. QED
    BY <1>2, <1>3, <1>4 DEF DirInv

\* What pages do: no name and no file changes, and a reference that appears leads
\* to a file or is one of raced.
LEMMA PageStep ==
    ASSUME DirInv, UNCHANGED <<dirs, files, token, dop, dbLock, dindex, doubted, drift>>,
           refs' \in [DirRef -> DirName \cup {"none"}], pend' \in [DirRef -> DirName \cup {"none"}],
           dbLock => refs' = refs,
           \A o \in DirRef \ raced' : refs'[o] # "none" =>
               o \notin raced /\ (refs'[o] = refs[o] \/ (Resolves(refs'[o]) /\ dop.pc # "back")),
           \A o \in DirRef \ raced' : pend'[o] # "none" => Resolves(pend'[o])
    PROVE  DirInv'
  <1>1. \A n : Resolves(n)' <=> Resolves(n)
    BY SameResolves
  <1>2. Source' = Source /\ Target' = Target
    BY DEF Source, Target
  <1>3. DirTypes' /\ DirTypeOK' /\ StepsBelong' /\ WasThere' /\ NamesOK'
    BY DEF DirInv, DirTypes, DirTypeOK, StepsBelong, WasThere, NamesOK, Untouched
  <1>4. WhereItIs'
    <2>1. dop.pc \in {"rename", "moved", "delete"} => refs' = refs
      BY DEF DirInv, DirTypeOK
    <2>2. refs' = refs => RefsIn(Source)' = RefsIn(Source)
      BY <1>2 DEF RefsIn
    <2>3. QED
      BY <1>2, <2>1, <2>2 DEF DirInv, WhereItIs
  <1>5. MovedOK'
    <2> SUFFICES ASSUME dop.pc = "told", dop.snap.operation = "rename", dop.outcome \in Shifted,
                        NEW o \in dop.snap.refs \ raced', refs'[o] = Source
                 PROVE  Resolves(Source)
      BY <1>1, <1>2 DEF DirInv, MovedOK
    <2>1. dop \in InProgress
      BY RunningOperation DEF DirInv
    <2>2. o \in DirRef /\ Source # "none"
      BY <2>1, SourceAndTarget, TwoNames DEF InProgress, DirSnapshots
    <2>3. o \notin raced /\ (refs'[o] = refs[o] \/ Resolves(refs'[o]))
      BY <2>2
    <2>4. QED
      BY <2>3 DEF DirInv, MovedOK
  <1>6. PendOK'
    <2> SUFFICES ASSUME NEW o \in DirRef \ raced', pend'[o] # "none" PROVE Resolves(pend[o])'
      BY DEF PendOK
    <2>1. Resolves(pend'[o])
      OBVIOUS
    <2>2. QED
      BY <2>1 DEF Resolves, Manifest
  <1>7. RefsOK'
    <2> SUFFICES ASSUME ~doubted, NEW o \in DirRef \ raced', refs'[o] # "none" PROVE LeadsOn(refs[o])'
      BY DEF RefsOK
    <2>1. PICK n : n = refs'[o]
      OBVIOUS
    <2>2. LeadsOn(n) \/ (n # refs[o] /\ Resolves(n) /\ dop.pc # "back" /\ dop.pc # "moved")
      <3>1. CASE n = refs[o]
        BY <2>1, <3>1 DEF DirInv, RefsOK
      <3>2. CASE n # refs[o]
        BY <2>1, <3>2 DEF DirInv, DirTypeOK
      <3>3. QED
        BY <3>1, <3>2
    <2>3. LeadsOn(n)
      BY <2>2 DEF LeadsOn
    <2>4. LeadsOn(n)'
      BY <1>1, <1>2, <2>3 DEF LeadsOn
    <2>5. QED
      BY <1>1, <1>2, <2>1, <2>3, <2>4 DEF LeadsOn
  <1>8. QED
    BY <1>3, <1>4, <1>5, <1>6, <1>7 DEF DirInv

LEMMA PageValidateInv ==
    ASSUME DirInv, NEW o \in DirRef, NEW n \in DirName, PageValidate(o, n)
    PROVE  DirInv'
  <1>1. UNCHANGED <<dirs, files, refs, token, dop, dbLock, dindex, raced, doubted, drift>>
        /\ pend' = [pend EXCEPT ![o] = n] /\ Resolves(n)
    BY DEF PageValidate
  <1>2. refs \in [DirRef -> DirName \cup {"none"}] /\ pend \in [DirRef -> DirName \cup {"none"}]
    BY DEF DirInv, DirTypes
  <1>3. \A p \in DirRef \ raced : pend'[p] # "none" => Resolves(pend'[p])
    BY <1>1, <1>2 DEF DirInv, PendOK
  <1>4. pend' \in [DirRef -> DirName \cup {"none"}]
    BY <1>1, <1>2
  <1>5. QED
    BY <1>1, <1>2, <1>3, <1>4, PageStep

LEMMA PageCommitInv ==
    ASSUME DirInv, NEW o \in DirRef, PageCommit(o)
    PROVE  DirInv'
  <1>1. /\ UNCHANGED <<dirs, files, token, dop, dbLock, dindex, doubted, drift>> /\ ~dbLock
        /\ refs' = [refs EXCEPT ![o] = pend[o]] /\ pend' = [pend EXCEPT ![o] = "none"] /\ pend[o] # "none"
        /\ raced' = IF o \in raced \/ OpAt("back") THEN raced \cup {o} ELSE raced
    BY DEF PageCommit
  <1>2. refs \in [DirRef -> DirName \cup {"none"}] /\ pend \in [DirRef -> DirName \cup {"none"}]
    BY DEF DirInv, DirTypes
  <1>3. refs' \in [DirRef -> DirName \cup {"none"}] /\ pend' \in [DirRef -> DirName \cup {"none"}]
    BY <1>1, <1>2
  <1>4. \A p \in DirRef \ raced' : refs'[p] # "none" =>
            p \notin raced /\ (refs'[p] = refs[p] \/ (Resolves(refs'[p]) /\ dop.pc # "back"))
    <2> SUFFICES ASSUME NEW p \in DirRef \ raced'
                 PROVE  p \notin raced /\ (refs'[p] = refs[p] \/ (Resolves(refs'[p]) /\ dop.pc # "back"))
      OBVIOUS
    <2>1. p \notin raced
      BY <1>1
    <2>2. CASE p = o
      BY <1>1, <1>2, <2>1, <2>2 DEF DirInv, PendOK, OpAt
    <2>3. CASE p # o
      BY <1>1, <1>2, <2>1, <2>3
    <2>4. QED
      BY <2>2, <2>3
  <1>5. \A p \in DirRef \ raced' : pend'[p] # "none" => Resolves(pend'[p])
    BY <1>1, <1>2 DEF DirInv, PendOK
  <1>6. QED
    BY <1>1, <1>3, <1>4, <1>5, PageStep

LEMMA PageClearInv ==
    ASSUME DirInv, NEW o \in DirRef, PageClear(o)
    PROVE  DirInv'
  <1>1. /\ UNCHANGED <<dirs, files, pend, token, dop, dbLock, dindex, doubted, drift>> /\ ~dbLock
        /\ refs' = [refs EXCEPT ![o] = "none"]
        /\ raced' = IF pend[o] = "none" THEN raced \ {o} ELSE raced
    BY DEF PageClear
  <1>2. refs \in [DirRef -> DirName \cup {"none"}] /\ pend \in [DirRef -> DirName \cup {"none"}]
    BY DEF DirInv, DirTypes
  <1>3. refs' \in [DirRef -> DirName \cup {"none"}]
    BY <1>1, <1>2
  <1>4. \A p \in DirRef \ raced' : refs'[p] # "none" => p \notin raced /\ refs'[p] = refs[p]
    BY <1>1, <1>2
  <1>5. \A p \in DirRef \ raced' : pend'[p] # "none" => Resolves(pend'[p])
    BY <1>1, <1>2 DEF DirInv, PendOK
  <1>6. QED
    BY <1>1, <1>2, <1>3, <1>4, <1>5, PageStep

\* What other programs do: what leads to a file goes on doing so, or nothing is
\* referred to, and a name that leads somewhere does not change.
LEMMA OutsideStep ==
    ASSUME DirInv, UNCHANGED <<refs, pend, token, dop, dbLock, dindex, raced, doubted>>,
           dirs' \in [DirName -> Dirs \cup {NoDir}], files' \in [Dirs -> Nat],
           dirs'["A"] = dirs'["B"] => dirs'["A"] = NoDir,
           \A n \in DirName : dirs[n] # NoDir => dirs'[n] = dirs[n],
           \/ \A n \in DirName : Resolves(n) => Resolves(n)'
           \/ \A o \in DirRef : refs[o] = "none" /\ pend[o] = "none",
           ~drift' => ~drift /\ dirs' = dirs
    PROVE  DirInv'
  <1>1. Source' = Source /\ Target' = Target
    BY DEF Source, Target
  <1>2. DirTypes' /\ DirTypeOK' /\ StepsBelong'
    BY DEF DirInv, DirTypes, DirTypeOK, StepsBelong
  <1>3. RefsIn(Source)' = RefsIn(Source)
    BY <1>1 DEF RefsIn
  <1>4. dop.pc # "idle" => dop \in InProgress /\ Source \in DirName /\ Target \in DirName
    BY RunningOperation, SourceAndTarget DEF DirInv
  <1>5. WhereItIs'
    BY <1>1, <1>3, <1>4 DEF DirInv, WhereItIs
  <1>6. WasThere'
    <2> SUFFICES ASSUME dop.pc = "rename" \/ (dop.pc = "told" /\ dop.outcome \in Stayed),
                        NEW n \in DirName, dop.before[n] # NoDir
                 PROVE  dirs'[n] = dop.before[n]
      BY DEF WasThere
    <2>1. dirs[n] = dop.before[n]
      BY DEF DirInv, WasThere
    <2>2. QED
      BY <2>1
  <1>7. MovedOK'
    <2> SUFFICES ASSUME dop.pc = "told", dop.snap.operation = "rename", dop.outcome \in Shifted
                 PROVE  /\ dop.snap.dir # NoDir /\ dirs'[Target] = dop.snap.dir
                        /\ \A o \in dop.snap.refs \ raced : refs[o] = Source => Resolves(Source)'
      BY <1>1 DEF MovedOK
    <2>1. dop.snap.dir # NoDir /\ dirs[Target] = dop.snap.dir
      BY DEF DirInv, MovedOK
    <2>2. ASSUME NEW o \in dop.snap.refs \ raced, refs[o] = Source PROVE Resolves(Source)'
      <3>1. Resolves(Source) /\ o \in DirRef /\ Source # "none"
        BY <1>4, <2>2, TwoNames DEF DirInv, MovedOK, InProgress, DirSnapshots
      <3>2. QED
        BY <1>1, <1>4, <2>2, <3>1
    <2>3. QED
      BY <1>4, <2>1, <2>2
  <1>8. PendOK'
    BY DEF DirInv, DirTypes, PendOK
  <1>9. RefsOK'
    <2> SUFFICES ASSUME ~doubted, NEW o \in DirRef \ raced, refs[o] # "none" PROVE LeadsOn(refs[o])'
      BY DEF RefsOK
    <2>1. LeadsOn(refs[o]) /\ refs[o] \in DirName
      BY DEF DirInv, DirTypes, RefsOK
    <2>2. QED
      BY <1>1, <1>4, <2>1 DEF LeadsOn
  <1>10. NamesOK'
    BY DEF DirInv, NamesOK, Untouched
  <1>11. QED
    BY <1>2, <1>5, <1>6, <1>7, <1>8, <1>9, <1>10 DEF DirInv


LEMMA TouchFilesInv ==
    ASSUME DirInv, NEW n \in DirName, TouchFiles(n)
    PROVE  DirInv'
  <1>1. UNCHANGED <<dirs, refs, pend, token, dop, dbLock, dindex, raced, doubted, drift>> /\ dirs[n] # NoDir
    BY DEF TouchFiles
  <1>2. files \in [Dirs -> Nat] /\ dirs \in [DirName -> Dirs \cup {NoDir}] /\ dirs[n] \in Dirs
    BY <1>1 DEF DirInv, DirTypes
  <1>3. dirs["A"] = dirs["B"] => dirs["A"] = NoDir
    BY DEF DirInv, DirTypeOK
  <1>4. CASE files' = [files EXCEPT ![dirs[n]] = @ + 1]
    <2>1. files' \in [Dirs -> Nat] /\ \A d \in Dirs : files[d] # 0 => files'[d] # 0
      BY <1>2, <1>4
    <2>2. \A m \in DirName : Resolves(m) => Resolves(m)'
      BY <1>1, <1>2, <2>1 DEF Resolves, Manifest
    <2>3. QED
      BY <1>1, <1>2, <1>3, <2>1, <2>2, OutsideStep
  <1>5. CASE files' = [files EXCEPT ![dirs[n]] = 0] /\ \A o \in DirRef : refs[o] = "none" /\ pend[o] = "none"
    <2>1. files' \in [Dirs -> Nat]
      BY <1>2, <1>5
    <2>2. QED
      BY <1>1, <1>2, <1>3, <1>5, <2>1, OutsideStep
  <1>6. QED
    BY <1>4, <1>5 DEF TouchFiles

LEMMA OccupyInv ==
    ASSUME DirInv, NEW n \in DirName, Occupy(n)
    PROVE  DirInv'
  <1>1. UNCHANGED <<files, refs, pend, token, dop, dbLock, dindex, raced, doubted>> /\ dirs[n] = NoDir /\ drift'
    BY DEF Occupy
  <1>2. PICK unused : unused = {d \in Dirs : (\A m \in DirName : dirs[m] # d) /\ files[d] = 0}
    OBVIOUS
  <1>3. unused # {} /\ dirs' = [dirs EXCEPT ![n] = CHOOSE d \in unused : TRUE]
    BY <1>2 DEF Occupy
  <1>4. PICK d \in Dirs : (\A m \in DirName : dirs[m] # d) /\ dirs' = [dirs EXCEPT ![n] = d]
    BY <1>2, <1>3, UnusedDir
  <1>5. /\ dirs' \in [DirName -> Dirs \cup {NoDir}] /\ dirs'["A"] # dirs'["B"]
        /\ \A m \in DirName : dirs[m] # NoDir => dirs'[m] = dirs[m]
        /\ \A m \in DirName : Resolves(m) => Resolves(m)'
    BY <1>1, <1>4, FillsFreeName
  <1>6. files' \in [Dirs -> Nat]
    BY <1>1 DEF DirInv, DirTypes
  <1>7. QED
    BY <1>1, <1>5, <1>6, OutsideStep

LEMMA NextDirInv == DirInv /\ [DirNext]_dirVars => DirInv'
  <1> SUFFICES ASSUME DirInv, [DirNext]_dirVars PROVE DirInv'
    OBVIOUS
  <1>1. CASE \E operation \in Operation, n \in DirName : PreviewDirectory(operation, n)
    BY <1>1, PreviewDirectoryInv
  <1>2. CASE ConfirmDirectory \/ MakeDirectory \/ RemoveDirectory \/ InspectDelete
    BY <1>2, ConfirmDirectoryInv, MakeDirectoryInv, RemoveDirectoryInv, InspectDeleteInv
  <1>3. CASE RenameDirectory \/ CommitReferences \/ InspectRename \/ RenameBack
    BY <1>3, RenameDirectoryInv, CommitReferencesInv, InspectRenameInv, RenameBackInv
  <1>4. CASE CoordinateDirectory \/ CrashDirectory
    BY <1>4, CoordinateDirectoryInv, CrashDirectoryInv
  <1>5. CASE \E o \in DirRef : PageCommit(o) \/ PageClear(o) \/ (\E n \in DirName : PageValidate(o, n))
    BY <1>5, PageCommitInv, PageClearInv, PageValidateInv
  <1>6. CASE \E n \in DirName : TouchFiles(n) \/ Occupy(n)
    BY <1>6, TouchFilesInv, OccupyInv
  <1>7. CASE UNCHANGED dirVars
    BY <1>7, QuietDirStep DEF dirVars, DirInv, DirTypes
  <1>8. QED
    BY <1>1, <1>2, <1>3, <1>4, <1>5, <1>6, <1>7 DEF DirNext

LEMMA DirInvHolds == DirSpec => []DirInv
  BY InitDirInv, NextDirInv, PTL DEF DirSpec

\* Two names never lead to one directory, and the write lock is held from the final
\* look to the commit, whatever fails (execute_directory_mutation).
THEOREM DirectoriesTyped == DirSpec => []DirTypeOK
  <1>1. DirInv => DirTypeOK
    BY DEF DirInv
  <1>2. QED
    BY <1>1, DirInvHolds, PTL

LEMMA DirInvIsFaithful == DirInv => DirectoriesFaithful
  <1> SUFFICES ASSUME DirInv PROVE DirectoriesFaithful
    OBVIOUS
  <1>1. StableRefsResolve
    BY DEF DirInv, RefsOK, LeadsOn, StableRefsResolve, OpAt
  <1>2. DirIndexFaithful
    BY DEF DirInv, NamesOK, DirIndexFaithful, OpAt
  <1>3. DirOutcomeTruthful
    <2> SUFFICES ASSUME dop.pc = "told", dop.snap.operation = "rename" PROVE DirOutcomeTruthful
      BY DEF DirOutcomeTruthful, OpAt
    <2>1. dop.snap.refs \subseteq DirRef
      BY RunningOperation DEF DirInv, InProgress, DirSnapshots
    <2>2. CASE dop.outcome \in Shifted
      <3>1. dirs[Target] = dop.snap.dir
        BY <2>2 DEF DirInv, MovedOK
      <3>2. dop.snap.refs \cap RefsIn(Source) # {} /\ raced = {} => Resolves(Source)
        BY <2>2 DEF DirInv, MovedOK, RefsIn
      <3>3. QED
        BY <2>2, <3>1, <3>2 DEF DirOutcomeTruthful, Shifted, Source, Target
    <2>3. CASE dop.outcome \in Stayed
      <3>1. \A n \in DirName : dop.before[n] # NoDir => dirs[n] = dop.before[n]
        BY <2>3 DEF DirInv, WasThere
      <3>2. QED
        BY <2>3, <3>1 DEF DirOutcomeTruthful, Stayed
    <2>4. CASE dop.outcome \notin Shifted \cup Stayed
      BY <2>4 DEF DirOutcomeTruthful, Shifted, Stayed
    <2>5. QED
      BY <2>2, <2>3, <2>4
  <1>4. QED
    BY <1>1, <1>2, <1>3 DEF DirectoriesFaithful

\* Whatever fails or stops between the move, the references, the index and the
\* answer, after a directory operation they agree, up to what was told as unknown
\* and what pages assigned across the move (execute_directory_mutation).
THEOREM DirectoriesAreFaithful == DirSpec => []DirectoriesFaithful
  BY DirInvHolds, DirInvIsFaithful, PTL

----------------------------------------------------------------------------
(* The library                                                             *)

\* The parts share nothing, so the library behaves as each of them.
LEMMA LibraryIsItsParts ==
    LibrarySpec => LocalSpec /\ DirSpec /\ UploadSpec /\ LockSpec /\ IndexSpec
  <1>1. LibraryInit => LocalInit /\ DirInit /\ UploadInit /\ LockInit /\ IndexInit
    BY DEF LibraryInit
  <1>2. [LibraryNext]_LibraryVars => [LocalNext]_localVars
    BY DEF LibraryNext, LibraryVars
  <1>3. [LibraryNext]_LibraryVars => [DirNext]_dirVars
    BY DEF LibraryNext, LibraryVars
  <1>4. [LibraryNext]_LibraryVars => [UploadNext]_uploadVars
    BY DEF LibraryNext, LibraryVars
  <1>5. [LibraryNext]_LibraryVars => [LockNext]_lockVars
    BY DEF LibraryNext, LibraryVars
  <1>6. [LibraryNext]_LibraryVars => [IndexNext]_indexVars
    BY DEF LibraryNext, LibraryVars
  <1>7. QED
    BY <1>1, <1>2, <1>3, <1>4, <1>5, <1>6, PTL
       DEF LibrarySpec, LocalSpec, DirSpec, UploadSpec, LockSpec, IndexSpec

\* Tasks, files, names, locks and index rows keep the shape the code gives them in
\* the library that all the parts make.
THEOREM LibraryTyped == LibrarySpec => []LibraryTypeOK
  <1>1. LocalInv => LocalTypeOK
    BY DEF LocalInv, RowsOK, RowTypes
  <1>2. LocalTypeOK /\ DirTypeOK /\ UploadTypeOK /\ LockTypeOK /\ IndexTypeOK => LibraryTypeOK
    BY DEF LibraryTypeOK
  <1>3. QED
    BY <1>1, <1>2, LocalInvHolds, DirectoriesTyped, UploadsLeaveNothing, LockTypesHold, IndexTyped,
       LibraryIsItsParts, PTL

\* And each part keeps in it what it promises: the properties of the library's run,
\* of which a behaviour runs one part.
THEOREM LibraryKeepsItsPromises ==
    LibrarySpec => /\ []LinksAreProved /\ []DirectoriesFaithful /\ []UploadsFaithful /\ []IndexHonest
                   /\ OnlyOwnFilesRemoved /\ ExclusiveOrUnknown
  BY ImportsAreProved, DirectoriesAreFaithful, UploadsAreFaithful, IndexIsHonest, UploadsSpareOthers,
     OperationsExclude, LibraryIsItsParts, PTL
==============================================================================
