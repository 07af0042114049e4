----------------------------- MODULE MediaIndexing -----------------------------
(***************************************************************************)
(* The signed media index (services/media_index.py), the scan that fills it     *)
(* (local_media.py), the audit of references (media_health.py) and the creation  *)
(* of a missing media root (media_root_diagnostics.py).  Refreshes and root       *)
(* creation run under the media operation lock; pages, other programs and          *)
(* damage to the index tables do not.                                              *)
(*                                                                          *)
(* A file is the version of its path: mode, size, device, inode, mtime and ctime.  *)
(***************************************************************************)
EXTENDS Naturals, FiniteSets

CONSTANTS
    IPath,          \* media paths
    IObj,           \* items and creators with a cover or avatar
    MaxVersions,    \* bound: versions of a path
    MaxRoots,       \* bound: media roots ever made
    MaxRefreshes    \* bound: refreshes and root creations

\* What a finding is about is an object, a path or nothing, never two of them.
ASSUME IndexAssumption ==
    /\ {MaxVersions, MaxRoots} \subseteq Nat \ {0} /\ MaxRefreshes \in Nat
    /\ IObj \cap (IPath \cup {"media-root"}) = {}

Bodies == {"image", "damaged", "link"}
Regular == {"image", "damaged"}
NoRow == [ver |-> 0]
IndexRow(v, b, signed) == [ver |-> v, body |-> b, signed |-> signed]
EmptyRows == [p \in IPath |-> NoRow]

VARIABLES
    mroot,      \* the media root directory, 0 if missing
    parent,     \* its parent: directory and mtime
    disk,       \* the version each path leads to, 0 if none
    body,       \* the content of every version of every path
    irows,      \* media_index_entries
    istate,     \* media_index_state: valid, root, and the rows its signature covers
    scan,       \* the running refresh
    rootOp,     \* the running root creation, and the last preview of it
    refreshes,  \* how many were started
    written,    \* history: the rows of the last committed refresh
    resigned,   \* history: a failed refresh signed rows no refresh wrote
    rootDrift   \* history: others changed the root since the last refresh

indexVars == <<mroot, parent, disk, body, irows, istate, scan, rootOp, refreshes,
               written, resigned, rootDrift>>

NotScanning == [pc |-> "idle"]
ScanAt(pc) == scan.pc = pc
RootIdle == [pc |-> "idle", shown |-> 0]

BodyNow(p) == IF disk[p] = 0 THEN "none" ELSE body[p][disk[p]]

----------------------------------------------------------------------------
(* refresh_media_index                                                      *)

\* Only rows with a valid signature may be reused.
TrustedMutant(row) == row.ver # 0
Trusted(row) == row.ver # 0 /\ row.signed

BeginRefresh(full) ==
    /\ ScanAt("idle") /\ rootOp.pc = "idle" /\ refreshes < MaxRefreshes
    /\ refreshes' = refreshes + 1
    /\ scan' = [pc |-> "list", full |-> full, root |-> 0,
                cache |-> [p \in IPath |-> IF Trusted(irows[p]) THEN irows[p] ELSE NoRow]]
    /\ UNCHANGED <<mroot, parent, disk, body, irows, istate, rootOp, written, resigned, rootDrift>>

\* _iter_media_files: names and identities first; symlinks are skipped.
ListFiles ==
    /\ ScanAt("list")
    /\ scan' = IF mroot = 0
               THEN [scan EXCEPT !.pc = "failed"]
               ELSE [pc |-> "read", full |-> scan.full, cache |-> scan.cache, root |-> mroot,
                     todo |-> {p \in IPath : BodyNow(p) \in Regular}, found |-> disk, out |-> EmptyRows]
    /\ UNCHANGED <<mroot, parent, disk, body, irows, istate, rootOp, refreshes, written,
                   resigned, rootDrift>>

\* _cached_media_entry_matches; then the candidate is verified or read, and one
\* that is not the listed file any more is skipped.
Reusable(p) == ~scan.full /\ scan.cache[p].ver # 0 /\ scan.cache[p].ver = scan.found[p]

ReadFile(p) ==
    LET read == IF Reusable(p) THEN {scan.cache[p].body} ELSE {body[p][scan.found[p]], "unread"}
    IN  /\ ScanAt("read") /\ p \in scan.todo
        /\ IF disk[p] = scan.found[p]
           THEN \E b \in read : scan' = [scan EXCEPT !.todo = @ \ {p},
                                            !.out[p] = IndexRow(scan.found[p], b, TRUE)]
           ELSE scan' = [scan EXCEPT !.todo = @ \ {p}]
        /\ UNCHANGED <<mroot, parent, disk, body, irows, istate, rootOp, refreshes, written,
                       resigned, rootDrift>>

\* Directories are listed again: root and parents must be the scanned ones.
CheckDirectories ==
    /\ ScanAt("read") /\ scan.todo = {}
    /\ scan' = [scan EXCEPT !.pc = IF mroot = scan.root THEN "write" ELSE "failed"]
    /\ UNCHANGED <<mroot, parent, disk, body, irows, istate, rootOp, refreshes, written,
                   resigned, rootDrift>>

\* One transaction replaces rows and state.
WriteIndex ==
    /\ ScanAt("write")
    /\ irows' = scan.out
    /\ istate' = [valid |-> TRUE, root |-> scan.root, signed |-> scan.out]
    /\ written' = scan.out
    /\ resigned' = FALSE
    /\ rootDrift' = (rootDrift /\ mroot # scan.root)
    /\ scan' = NotScanning
    /\ UNCHANGED <<mroot, parent, disk, body, rootOp, refreshes>>

ScanFails ==
    /\ scan.pc \in {"list", "read", "write"}
    /\ scan' = [scan EXCEPT !.pc = "failed"]
    /\ UNCHANGED <<mroot, parent, disk, body, irows, istate, rootOp, refreshes, written,
                   resigned, rootDrift>>

\* _record_scan_failure keeps rows and validity and signs what is there; after
\* a mutation the caller invalidates the index as well.
RecordFailure ==
    /\ ScanAt("failed")
    /\ scan' = NotScanning
    /\ \E recorded, invalidate \in BOOLEAN :
          /\ istate' = IF recorded \/ invalidate
                       THEN [istate EXCEPT !.valid = @ /\ ~invalidate, !.signed = irows] ELSE istate
          /\ resigned' = (resigned \/ (recorded /\ irows # istate.signed))
    /\ UNCHANGED <<mroot, parent, disk, body, irows, rootOp, refreshes, written, rootDrift>>

\* invalidate_media_index: an unknown outcome, or a restore.
InvalidateIndex ==
    /\ istate' = [istate EXCEPT !.valid = FALSE, !.signed = irows]
    /\ ScanAt("idle") /\ istate.valid
    /\ UNCHANGED <<mroot, parent, disk, body, irows, scan, rootOp, refreshes, written,
                   resigned, rootDrift>>

\* _load_index_snapshot: valid, state signature over the rows, every row signed.
IndexIntactMutant == istate.valid /\ \A p \in IPath : irows[p].ver # 0 => irows[p].signed
IndexIntact ==
    /\ istate.valid
    /\ istate.signed = irows
    /\ \A p \in IPath : irows[p].ver # 0 => irows[p].signed

\* load_preferred_media_snapshot: what a page is shown, from the index or the disk.
PageRows == IF IndexIntact THEN irows
            ELSE [p \in IPath |-> IF BodyNow(p) \in Regular THEN IndexRow(disk[p], BodyNow(p), FALSE) ELSE NoRow]

----------------------------------------------------------------------------
(* execute_media_root_initialization                                        *)

DiagnoseRoot ==
    /\ rootOp.pc = "idle"
    /\ mroot = 0
    /\ rootOp' = [rootOp EXCEPT !.shown = parent.mtime]
    /\ UNCHANGED <<mroot, parent, disk, body, irows, istate, scan, refreshes, written,
                   resigned, rootDrift>>

\* The root is missing and its parent the previewed one.
ConfirmRoot ==
    /\ rootOp.pc = "idle" /\ ScanAt("idle") /\ refreshes < MaxRefreshes
    /\ rootOp.shown # 0 /\ mroot = 0 /\ rootOp.shown = parent.mtime
    /\ rootOp' = [pc |-> "make", shown |-> 0, dir |-> parent.dir, made |-> 0]
    /\ refreshes' = refreshes + 1
    /\ UNCHANGED <<mroot, parent, disk, body, irows, istate, scan, written, resigned, rootDrift>>

RootsUsed == {mroot, istate.root} \cup (IF "made" \in DOMAIN rootOp THEN {rootOp.made} ELSE {})
NewRoot == CHOOSE r \in 1..MaxRoots : r \notin RootsUsed

\* mkdir in the opened parent; FileExistsError and other errors end it unchanged.
MakeRoot ==
    /\ rootOp.pc = "make"
    /\ \/ /\ mroot = 0 /\ 1..MaxRoots \ RootsUsed # {}
          /\ mroot' = NewRoot
          /\ parent' = [parent EXCEPT !.mtime = @ + 1]
          /\ rootOp' = [rootOp EXCEPT !.pc = "verify", !.made = NewRoot]
       \/ /\ rootOp' = RootIdle
          /\ UNCHANGED <<mroot, parent>>
    /\ UNCHANGED <<disk, body, irows, istate, scan, refreshes, written, resigned, rootDrift>>

\* A verified root is followed by a refresh, an unverified one by an invalidation;
\* both may fail.
RootVerified == mroot = rootOp.made /\ parent.dir = rootOp.dir

AfterRoot(done) ==
    istate' = IF done THEN [istate EXCEPT !.valid = FALSE, !.signed = irows] ELSE istate

VerifyRoot ==
    /\ rootOp.pc = "verify"
    /\ rootOp' = RootIdle
    /\ \/ /\ RootVerified
          /\ scan' = [pc |-> "list", full |-> FALSE, root |-> 0,
                      cache |-> [p \in IPath |-> IF Trusted(irows[p]) THEN irows[p] ELSE NoRow]]
          /\ UNCHANGED <<istate, rootDrift>>
       \/ \E done \in BOOLEAN : AfterRoot(done) /\ rootDrift' = ~done /\ UNCHANGED scan
    /\ UNCHANGED <<mroot, parent, disk, body, irows, refreshes, written, resigned>>

----------------------------------------------------------------------------
(* audit_local_media                                                        *)

Finding(code, o) == [code |-> code, object |-> o]

\* _classify_unscanned_reference looks at what a scan has no entry for.
Unscanned(p) ==
    CASE disk[p] = 0 -> "media_reference_missing"
      [] BodyNow(p) = "link" -> "media_reference_symlink"
      [] OTHER -> "media_reference_damaged"

ReferenceFindings(refs) ==
    {Finding(IF BodyNow(refs[o]) = "damaged" THEN "media_reference_damaged" ELSE Unscanned(refs[o]), o) :
        o \in {x \in DOMAIN refs : BodyNow(refs[x]) # "image"}}

FileFindings ==
    {Finding("media_damaged_file", p) : p \in {q \in IPath : BodyNow(q) = "damaged"}}

\* _root_state, and the scan of a root that is ready may still fail.
RootStates == IF mroot = 0 THEN {"missing", "symlink", "not_directory", "unreadable"}
              ELSE {"ready", "unreadable", "scan_failed"}

RootReference(state) ==
    CASE state = "missing" -> "media_reference_missing"
      [] state = "symlink" -> "media_reference_symlink"
      [] OTHER -> "media_reference_damaged"

\* A missing root nothing refers to is no finding.
RootFindings(refs, state) ==
    {Finding("media_root_unavailable", "media-root") :
        x \in {y \in {state} : y = "missing" => DOMAIN refs # {}}}
    \cup {Finding(RootReference(state), o) : o \in DOMAIN refs}

FailedScanFindings(refs) ==
    {Finding("media_root_unavailable", "media-root")}
    \cup {Finding(Unscanned(refs[o]), o) : o \in DOMAIN refs}

\* refs: the path of every object that has one.
Audit(refs, state) ==
    CASE state = "ready" -> ReferenceFindings(refs) \cup FileFindings
      [] state = "scan_failed" -> FailedScanFindings(refs)
      [] OTHER -> RootFindings(refs, state)

----------------------------------------------------------------------------
(* Beside it                                                                *)

ChangeDisk(p, b) ==
    /\ mroot # 0
    /\ \/ b = "none" /\ disk[p] # 0 /\ disk' = [disk EXCEPT ![p] = 0] /\ UNCHANGED body
       \/ /\ b \in Bodies
          /\ \E v \in 1..MaxVersions :
                /\ body[p][v] = "none" /\ \A w \in 1..(v - 1) : body[p][w] # "none"
                /\ disk' = [disk EXCEPT ![p] = v]
                /\ body' = [body EXCEPT ![p][v] = b]
    /\ UNCHANGED <<mroot, parent, irows, istate, scan, rootOp, refreshes, written,
                   resigned, rootDrift>>

\* The root goes away with its files, or is made by someone else.
LoseRoot ==
    /\ mroot # 0
    /\ mroot' = 0
    /\ parent' = [parent EXCEPT !.mtime = @ + 1]
    /\ parent.mtime < 3
    /\ disk' = [p \in IPath |-> 0]
    /\ rootDrift' = TRUE
    /\ UNCHANGED <<body, irows, istate, scan, rootOp, refreshes, written, resigned>>

MakeRootElsewhere ==
    /\ mroot = 0 /\ 1..MaxRoots \ RootsUsed # {}
    /\ mroot' = NewRoot
    /\ \E dir \in {parent.dir, 2} : parent' = [dir |-> dir, mtime |-> parent.mtime + 1]
    /\ parent.mtime < 3
    /\ rootDrift' = TRUE
    /\ UNCHANGED <<disk, body, irows, istate, scan, rootOp, refreshes, written, resigned>>

\* Damage to the index tables: a lost row, a row nobody signed, or an older row.
DamageIndex(p) ==
    /\ ScanAt("idle")
    /\ irows' \in {[irows EXCEPT ![p] = r] :
          r \in {NoRow, IndexRow(1, "damaged", FALSE)}
                \cup {IndexRow(v, body[p][v], TRUE) : v \in {w \in 1..MaxVersions : body[p][w] \in Regular}}}
    /\ irows' # irows
    /\ irows = istate.signed
    /\ UNCHANGED <<mroot, parent, disk, body, istate, scan, rootOp, refreshes, written,
                   resigned, rootDrift>>

CrashIndexing ==
    /\ ~ScanAt("idle") \/ rootOp.pc # "idle"
    /\ scan' = NotScanning
    /\ rootOp' = RootIdle
    /\ UNCHANGED <<mroot, parent, disk, body, irows, istate, refreshes, written, resigned, rootDrift>>

IndexInit ==
    /\ mroot = 1
    /\ parent = [dir |-> 1, mtime |-> 1]
    /\ disk = [p \in IPath |-> 1]
    /\ body \in {f \in [IPath -> [1..MaxVersions -> Bodies \cup {"none"}]] :
                   \A p \in IPath : f[p][1] \in {"image", "link"} /\ \A v \in 2..MaxVersions : f[p][v] = "none"}
    /\ irows = EmptyRows
    /\ istate = [valid |-> FALSE, root |-> 0, signed |-> EmptyRows]
    /\ scan = NotScanning
    /\ rootOp = RootIdle
    /\ refreshes = 0
    /\ written = EmptyRows
    /\ resigned = FALSE /\ rootDrift = FALSE

IndexNext ==
    \/ \E full \in BOOLEAN : BeginRefresh(full)
    \/ ListFiles \/ (\E p \in IPath : ReadFile(p)) \/ CheckDirectories \/ WriteIndex
    \/ ScanFails \/ RecordFailure \/ InvalidateIndex
    \/ DiagnoseRoot \/ ConfirmRoot \/ MakeRoot \/ VerifyRoot
    \/ \E p \in IPath : DamageIndex(p) \/ \E b \in Bodies \cup {"none"} : ChangeDisk(p, b)
    \/ LoseRoot \/ MakeRootElsewhere \/ CrashIndexing

IndexSpec == IndexInit /\ [][IndexNext]_indexVars

----------------------------------------------------------------------------
(* Properties                                                               *)

\* A committed refresh never gives a file the content of another version or of a
\* forged row: each row says what that version held, or that it could not be read.
IndexTypeOK ==
    /\ mroot \in 0..MaxRoots
    /\ \A p \in IPath : disk[p] \in 0..MaxVersions
    /\ \A p \in IPath : written[p].ver # 0 => written[p].body \in {body[p][written[p].ver], "unread"}

\* What pages read from the index is exactly what a refresh committed, however
\* rows were lost or replaced since, unless a failed refresh signed them anew
\* (_load_index_snapshot; CHANGELOG: corrupted indexes fall back to a full scan).
PageSeesRefresh ==
    ~resigned => PageRows = written \/ \A p \in IPath : PageRows[p].ver = 0 \/ ~PageRows[p].signed

\* A usable index describes the media root that is there: a root this program
\* made is indexed or the index invalidated, others' changes apart.
IndexRootCurrent ==
    ScanAt("idle") /\ rootOp.pc = "idle" /\ istate.valid /\ ~rootDrift => istate.root = mroot

\* The audit reports an object exactly when a page could not show its file, and
\* says why: missing, a symlink, or damaged.  While the root or a scan of it cannot
\* be read it reports every object, for the reason the root or the path gives.
AuditExact ==
    \A objects \in SUBSET IObj : \A refs \in [objects -> IPath] : \A state \in RootStates :
        \A o \in objects :
            LET looked == state \in {"ready", "scan_failed"}
                now == BodyNow(refs[o])
            IN  {f.code : f \in {g \in Audit(refs, state) : g.object = o}} =
                    CASE state = "missing" \/ (looked /\ now = "none") -> {"media_reference_missing"}
                      [] state = "symlink" \/ (looked /\ now = "link") -> {"media_reference_symlink"}
                      [] state = "ready" /\ now = "image" -> {}
                      [] OTHER -> {"media_reference_damaged"}

\* Pages and audit see what a refresh committed of the root that is there: rows
\* lost, forged or older, and roots made or lost elsewhere, are never passed off.
IndexHonest == PageSeesRefresh /\ IndexRootCurrent /\ AuditExact
=============================================================================
