------------------------------- MODULE MediaLock -------------------------------
(***************************************************************************)
(* The media operation lock (services/media_operation_lock.py): an exclusive   *)
(* flock on the lock directory, then on the lock file in it, taken without      *)
(* blocking until a deadline; identities are compared with the names after        *)
(* opening, after locking and when the operation is over.  Processes (workers,    *)
(* restarts) use it together with operators who may replace the file or the        *)
(* directory.  Objects are inode numbers, never used twice.                       *)
(***************************************************************************)
EXTENDS Naturals, FiniteSets

CONSTANTS
    Proc,           \* requests and processes that change media
    MaxObjects      \* bound: lock files and directories ever made

ASSUME LockAssumption == MaxObjects \in Nat \ {0}

VARIABLES
    lockDir,    \* the directory the path leads to
    lockFile,   \* the file the name in each directory leads to, 0 if none
    objects,    \* how many objects were made
    safe,       \* objects whose owner, mode and link count are as required
    flocked,    \* flocks: object -> holder
    holder,     \* what each process is doing, with the objects it opened
    outcome     \* what the last operation of each process reports

lockVars == <<lockDir, lockFile, objects, safe, flocked, holder, outcome>>

Objects == 1..MaxObjects
Outside == [pc |-> "out"]
PAt(p, pc) == holder[p].pc = pc
Free(o) == \A p \in Proc : <<o, p>> \notin flocked
Drop(p) == {f \in flocked : f[2] # p}
GoOut(p) == holder' = [holder EXCEPT ![p] = Outside]

\* verify: descriptors and names still lead to the same safe objects.
Verifies(h) == /\ lockDir = h.dir /\ lockFile[h.dir] = h.file
               /\ {h.dir, h.file} \subseteq safe

\* _open_lock_objects; the file is made if it is not there.
OpenLock(p) ==
    /\ PAt(p, "out")
    /\ lockDir \in safe
    /\ IF lockFile[lockDir] = 0
       THEN /\ objects < MaxObjects
            /\ objects' = objects + 1
            /\ lockFile' = [lockFile EXCEPT ![lockDir] = objects + 1]
            /\ safe' = safe \cup {objects + 1}
       ELSE lockFile[lockDir] \in safe /\ UNCHANGED <<objects, lockFile, safe>>
    /\ holder' = [holder EXCEPT ![p] = [pc |-> "opened", dir |-> lockDir, file |-> lockFile'[lockDir]]]
    /\ outcome' = [outcome EXCEPT ![p] = "none"]
    /\ UNCHANGED <<lockDir, flocked>>

FlockDir(p) ==
    /\ PAt(p, "opened") /\ Free(holder[p].dir)
    /\ flocked' = flocked \cup {<<holder[p].dir, p>>}
    /\ holder' = [holder EXCEPT ![p].pc = "dir"]
    /\ UNCHANGED <<lockDir, lockFile, objects, safe, outcome>>

FlockFile(p) ==
    /\ PAt(p, "dir") /\ Free(holder[p].file)
    /\ flocked' = flocked \cup {<<holder[p].file, p>>}
    /\ holder' = [holder EXCEPT ![p].pc = "file"]
    /\ UNCHANGED <<lockDir, lockFile, objects, safe, outcome>>

\* Deadline passed in _try_flock, or the objects are not the named ones any more.
LeaveLock(p) ==
    /\ \/ PAt(p, "opened") /\ ~Free(holder[p].dir)
       \/ PAt(p, "dir") /\ ~Free(holder[p].file)
       \/ PAt(p, "file") /\ ~Verifies(holder[p])
    /\ flocked' = Drop(p)
    /\ GoOut(p)
    /\ outcome' = [outcome EXCEPT ![p] = "refused"]
    /\ UNCHANGED <<lockDir, lockFile, objects, safe>>

EnterLock(p) ==
    /\ PAt(p, "file") /\ Verifies(holder[p])
    /\ holder' = [holder EXCEPT ![p].pc = "inside"]
    /\ UNCHANGED <<lockDir, lockFile, objects, safe, flocked, outcome>>

\* _verify_outcome in coordinate_media_mutation: a lost lock makes it unknown.
OutcomeOfMutant(p) == "known"
OutcomeOf(p) == IF Verifies(holder[p]) THEN "known" ELSE "unknown"

LeaveOperation(p) ==
    /\ PAt(p, "inside")
    /\ outcome' = [outcome EXCEPT ![p] = OutcomeOf(p)]
    /\ flocked' = Drop(p)
    /\ GoOut(p)
    /\ UNCHANGED <<lockDir, lockFile, objects, safe>>

\* A process dies: the kernel drops its flocks.
Die(p) ==
    /\ ~PAt(p, "out")
    /\ flocked' = Drop(p)
    /\ GoOut(p)
    /\ outcome' = [outcome EXCEPT ![p] = "none"]
    /\ UNCHANGED <<lockDir, lockFile, objects, safe>>

\* The operator: a new lock directory, a removed lock file, a changed mode.
ReplaceDirectory ==
    /\ objects < MaxObjects
    /\ objects' = objects + 1
    /\ lockDir' = objects + 1
    /\ safe' = safe \cup {objects + 1}
    /\ UNCHANGED <<lockFile, flocked, holder, outcome>>

RemoveFile ==
    /\ lockFile[lockDir] # 0
    /\ lockFile' = [lockFile EXCEPT ![lockDir] = 0]
    /\ UNCHANGED <<lockDir, objects, safe, flocked, holder, outcome>>

ChangeMode(o) ==
    /\ o \in safe
    /\ safe' = safe \ {o}
    /\ UNCHANGED <<lockDir, lockFile, objects, flocked, holder, outcome>>

LockInit ==
    /\ lockDir = 1 /\ objects = 1
    /\ lockFile = [o \in Objects |-> 0]
    /\ safe = {1}
    /\ flocked = {}
    /\ holder = [p \in Proc |-> Outside]
    /\ outcome = [p \in Proc |-> "none"]

LockStep(p) == FlockDir(p) \/ FlockFile(p) \/ LeaveLock(p) \/ EnterLock(p)

LockNext ==
    \/ \E p \in Proc : OpenLock(p) \/ LockStep(p) \/ LeaveOperation(p) \/ Die(p)
    \/ ReplaceDirectory \/ RemoveFile
    \/ \E o \in Objects : ChangeMode(o)

LockSpec == LockInit /\ [][LockNext]_lockVars

----------------------------------------------------------------------------
(* Properties                                                               *)

\* An object is locked by one process at a time, and only by one that opened it.
LockTypeOK ==
    /\ \A f, g \in flocked : f[1] = g[1] => f = g
    /\ \A f \in flocked : ~PAt(f[2], "out") /\ f[1] \in {holder[f[2]].dir, holder[f[2]].file}

\* While nobody replaces the directory, operations exclude each other, even when
\* the lock file is removed under them: the directory is locked first.
DirectoryExcludes ==
    \A p, q \in Proc : PAt(p, "inside") /\ PAt(q, "inside") /\ holder[p].dir = holder[q].dir => p = q

\* An operation that shared the media tree with another one is told as unknown
\* unless its own lock is the current one (_verify_outcome).
LostLockIsUnknown ==
    \A p \in Proc : PAt(p, "inside") /\ outcome'[p] = "known" => lockDir = holder[p].dir

\* Two operations are never inside at once unless the operator replaced the lock
\* under one of them, and then that one does not claim to know its outcome.
ExclusiveOrUnknown == [][DirectoryExcludes' /\ LostLockIsUnknown]_lockVars
=============================================================================
