---------------------------- MODULE MediaMutations ----------------------------
(***************************************************************************)
(* The operations that give, move and take away names of media files while *)
(* item covers and creator avatars refer to those names: rename and move,  *)
(* hard-link alias normalisation, duplicate cleanup with its safety        *)
(* anchor, anchor restore and anchor or damaged-file deletion              *)
(* (app/services/media_*.py, local_media.py), each run by                  *)
(* coordinate_media_mutation under the media lock, one at a time.          *)
(*                                                                         *)
(* Requests that assign a reference do not take the media lock; only       *)
(* SQLite's write lock keeps them out, in the two stretches where an       *)
(* operation holds it across a file step (`Locked`).  Any other stretch    *)
(* from the first write to the commit is one step.                         *)
(*                                                                         *)
(* A file is an inode: a SHA-256 and a number.  Hard links are equal       *)
(* inodes, duplicates differ in the number only.  A check of a file's      *)
(* identity and the file system call right after it are one step.          *)
(***************************************************************************)
EXTENDS Naturals, FiniteSets

CONSTANTS
    Paths,          \* names an owner gives to media files
    Spares,         \* unique recovered-* names
    Anchors,        \* unique .cleanup-anchor-* names, hidden from scans
    Objects,        \* items and creators, each with one reference
    Digests,        \* SHA-256 values
    Damaged,        \* the digest of files that are not legal media
    Numbers,        \* inode numbers
    Operations,     \* the operations of this instance
    FailingCommits, \* operations whose commits may fail and be rolled back
    LosingCommits,  \* operations whose commits may be durable and raise all the same
    FileFaults,     \* an unlink, a link or an index write may fail
    Assigning,      \* bound: operations ("none": between them) beside which references are assigned
    MaxStrikes,     \* bound: changes of the media directory by other programs
    NoFile, NoPath

ASSUME NamesAssumption ==
    /\ Paths \cap Spares = {} /\ Paths \cap Anchors = {} /\ Spares \cap Anchors = {}
    /\ NoPath \notin Paths \cup Spares \cup Anchors
ASSUME FilesAssumption ==
    /\ Damaged \in Digests /\ NoFile \notin [sha : Digests, number : Numbers]
    /\ NoFile \notin Digests
ASSUME KindsAssumption ==
    /\ Operations \subseteq {"rename", "alias", "duplicate", "restore", "delete"}
    /\ FailingCommits \subseteq Operations /\ LosingCommits \subseteq Operations
    /\ FileFaults \in BOOLEAN /\ Assigning \subseteq {"none"} \cup Operations /\ MaxStrikes \in Nat

VARIABLES
    files,   \* the inode of every name, or NoFile
    refs,    \* the cover or avatar path of every object, or NoPath
    index,   \* the derived media index: valid flag and the files it shows
    op,      \* the operation that holds the media lock: step and locals
    meant,   \* history: the digest each object was given, or NoFile
    unseen,  \* history: a change no index step has followed (crash, outsider, unreported residue)
    strikes  \* history: changes by other programs so far

vars == <<files, refs, index, op, meant, unseen, strikes>>

Visible == Paths \cup Spares
Names == Visible \cup Anchors
Inodes == [sha : Digests, number : Numbers]

Idle == [kind |-> "none", pc |-> "idle", src |-> NoPath, dst |-> NoPath, inode |-> NoFile,
         expect |-> {}, before |-> << >>, was |-> << >>, todo |-> {}, cur |-> NoPath,
         drift |-> {}, removed |-> FALSE, outcome |-> "none"]

RefsTo(p) == {o \in Objects : refs[o] = p}
Moved(S, p) == [o \in Objects |-> IF refs[o] \in S THEN p ELSE refs[o]]
Healthy(p) == p \in Names /\ files[p] # NoFile /\ files[p].sha # Damaged
FreeNumbers == {i \in Numbers : \A n \in Names : files[n] # NoFile => files[n].number # i}
Shown == [p \in Visible |-> files[p]]

\* BEGIN IMMEDIATE ... COMMIT around a file step.
Locked == op.pc \in {"linked", "aliases_locked"}

Outcomes(kind) == {"ok"} \cup (IF kind \in FailingCommits THEN {"failed"} ELSE {})
                         \cup (IF kind \in LosingCommits THEN {"lost"} ELSE {})
Applied(c) == c \in {"ok", "lost"}
Unlinks == IF FileFaults THEN BOOLEAN ELSE {TRUE}

\* Mutant: a partial change has a class of its own that nothing handles.
FinishPartial(result) ==
    op' = [op EXCEPT !.pc = "classified", !.outcome = IF result = "changed" THEN "partial" ELSE result]

\* The operation returns or raises; classify_* names what it did to the files.
Finish(result) == op' = [op EXCEPT !.pc = "classified", !.outcome = result]

Init ==
    /\ files \in [Names -> Inodes \cup {NoFile}]
    /\ \A n \in Spares : files[n] = NoFile
    /\ \A n, m \in Names :
            files[n] # NoFile /\ files[m] # NoFile /\ n # m /\ files[n].number = files[m].number
                => files[n] = files[m] /\ {n, m} \subseteq Paths
    /\ \A a \in Anchors : files[a] # NoFile => files[a].sha # Damaged
    /\ refs \in [Objects -> Names \cup {NoPath}]
    /\ \A o \in Objects : refs[o] # NoPath => Healthy(refs[o])
    /\ index = [valid |-> TRUE, shown |-> Shown]
    /\ op = Idle
    /\ meant = [o \in Objects |-> IF refs[o] = NoPath THEN NoFile ELSE files[refs[o]].sha]
    /\ unseen = FALSE /\ strikes = 0

-----------------------------------------------------------------------------
\* Rename and move: link the target, migrate the references, unlink the source.

\* BEGIN IMMEDIATE, the preview and its snapshot, and os.link of the target.
BeginRename(s, t) ==
    /\ op = Idle /\ "rename" \in Operations
    /\ Healthy(s) /\ files[t] = NoFile /\ RefsTo(t) = {}
    /\ files' = [files EXCEPT ![t] = files[s]]
    /\ op' = [Idle EXCEPT !.kind = "rename", !.pc = "linked", !.src = s, !.dst = t,
                          !.inode = files[s], !.expect = RefsTo(s)]
    /\ UNCHANGED <<refs, index, meant, unseen, strikes>>

\* An UPDATE fails, or verify() finds that the link changed.
AbortRename ==
    /\ op.pc = "linked"
    /\ \/ "rename" \in FailingCommits
       \/ files[op.src] # op.inode \/ files[op.dst] # op.inode
    /\ op' = [op EXCEPT !.pc = "drop_target"]
    /\ UNCHANGED <<files, refs, index, meant, unseen, strikes>>

CommitRename(c) ==
    /\ op.pc = "linked" /\ files[op.src] = op.inode /\ files[op.dst] = op.inode
    /\ refs' = IF Applied(c) THEN Moved({op.src}, op.dst) ELSE refs
    /\ op' = [op EXCEPT !.pc = IF c = "ok" THEN "migrated" ELSE "inspect"]
    /\ UNCHANGED <<files, index, meant, unseen, strikes>>

\* Mutant: a commit that raises was rolled back.
RaisedMeansRolledBack == op.expect # {}

NotCommitted == op.expect # {} /\ RefsTo(op.src) = op.expect /\ RefsTo(op.dst) = {}
Committed == op.expect # {} /\ RefsTo(op.src) = {} /\ RefsTo(op.dst) = op.expect

\* _inspect_commit_outcome in a session of its own, after a commit that raised.
InspectRename ==
    /\ op.pc = "inspect"
    /\ \/ NotCommitted /\ op' = [op EXCEPT !.pc = "drop_target"]
       \/ /\ Committed
          /\ Finish(IF files[op.src] = op.inode /\ files[op.dst] = op.inode
                    THEN "changed" ELSE "unknown")
       \/ (~(NotCommitted \/ Committed) \/ FileFaults) /\ Finish("unknown")
    /\ UNCHANGED <<files, refs, index, meant, unseen, strikes>>

DropTarget(done) ==
    /\ op.pc = "drop_target"
    /\ files' = IF done /\ files[op.dst] = op.inode
                THEN [files EXCEPT ![op.dst] = NoFile] ELSE files
    /\ \/ (done \/ files[op.dst] # op.inode) /\ Finish("unchanged")
       \/ FileFaults /\ Finish("unknown")   \* unlink, or the fsync after it, fails
    /\ UNCHANGED <<refs, index, meant, unseen, strikes>>

\* The rule that lets the source go: nothing refers to it, and the target has
\* exactly the references that were migrated.
SourceIsFree == RefsTo(op.src) = {} /\ RefsTo(op.dst) = op.expect

\* BEGIN IMMEDIATE, the reference recheck, unlink of the source, COMMIT.
RemoveSource(done) ==
    /\ op.pc = "migrated"
    /\ files' = IF SourceIsFree /\ files[op.src] = op.inode /\ files[op.dst] = op.inode /\ done
                THEN [files EXCEPT ![op.src] = NoFile] ELSE files
    /\ Finish("changed")
    /\ UNCHANGED <<refs, index, meant, unseen, strikes>>

-----------------------------------------------------------------------------
\* Alias normalisation: all names of one inode but the keeper go.

BeginAlias(k, c) ==
    LET S == {p \in Visible : files[p] = files[k]} IN
    /\ op = Idle /\ "alias" \in Operations
    /\ Healthy(k) /\ Cardinality(S) > 1
    /\ refs' = IF Applied(c) THEN Moved(S, k) ELSE refs
    /\ op' = [Idle EXCEPT !.kind = "alias", !.pc = IF c = "ok" THEN "normalized" ELSE "inspect_aliases",
                          !.dst = k, !.inode = files[k], !.before = refs, !.todo = S,
                          !.expect = {o \in Objects : refs[o] \in S}]
    /\ UNCHANGED <<files, index, meant, unseen, strikes>>

\* _expected_states: every reference of the group on the keeper.
AliasesCommitted == \A p \in op.todo : RefsTo(p) = IF p = op.dst THEN op.expect ELSE {}
AliasesNotCommitted == \A p \in op.todo : RefsTo(p) = {o \in Objects : op.before[o] = p}

InspectAliases ==
    /\ op.pc = "inspect_aliases"
    /\ \/ AliasesNotCommitted /\ Finish("unchanged")
       \/ AliasesCommitted /\ ~AliasesNotCommitted /\ op' = [op EXCEPT !.pc = "normalized"]
       \/ (~(AliasesCommitted \/ AliasesNotCommitted) \/ FileFaults) /\ Finish("unknown")
    /\ UNCHANGED <<files, refs, index, meant, unseen, strikes>>

\* BEGIN IMMEDIATE and the reference recheck; the lock stays for every unlink.
LockAliases ==
    /\ op.pc = "normalized"
    /\ IF AliasesCommitted
       THEN op' = [op EXCEPT !.pc = "aliases_locked", !.todo = @ \ {op.dst}]
       ELSE Finish("unchanged")
    /\ UNCHANGED <<files, refs, index, meant, unseen, strikes>>

DeleteAlias(p, done) ==
    /\ op.pc = "aliases_locked" /\ p \in op.todo
    /\ LET gone == done /\ files[op.dst] = op.inode /\ files[p] = op.inode IN
       /\ files' = IF gone THEN [files EXCEPT ![p] = NoFile] ELSE files
       /\ op' = [op EXCEPT !.todo = @ \ {p}, !.removed = @ \/ gone]
    /\ UNCHANGED <<refs, index, meant, unseen, strikes>>

EndAliases ==
    /\ op.pc = "aliases_locked" /\ op.todo = {}
    /\ Finish(IF op.removed THEN "changed" ELSE "unchanged")
    /\ UNCHANGED <<files, refs, index, meant, unseen, strikes>>

-----------------------------------------------------------------------------
\* Duplicate cleanup: copy the keeper to an anchor, park the references there,
\* delete the other members, move the references to the keeper, drop the anchor.

\* The preview, the validation of every member and the anchor's copy.
BeginDuplicate(k, a) ==
    LET S == {p \in Visible : files[p] # NoFile /\ files[p].sha = files[k].sha} IN
    /\ op = Idle /\ "duplicate" \in Operations
    /\ Healthy(k) /\ Cardinality(S) > 1 /\ files[a] = NoFile
    /\ \E i \in FreeNumbers : files' = [files EXCEPT ![a] = [sha |-> files[k].sha, number |-> i]]
    /\ op' = [Idle EXCEPT !.kind = "duplicate", !.pc = "anchored", !.src = a, !.dst = k,
                          !.was = files', !.todo = S]
    /\ UNCHANGED <<refs, index, meant, unseen, strikes>>

AnchorReferences(c) ==
    /\ op.pc = "anchored"
    /\ refs' = IF Applied(c) THEN Moved(op.todo, op.src) ELSE refs
    /\ op' = IF c = "ok" THEN [op EXCEPT !.pc = "removing", !.todo = @ \ {op.dst}]
                         ELSE [op EXCEPT !.pc = "drop_anchor"]
    /\ UNCHANGED <<files, index, meant, unseen, strikes>>

\* delete_local_media_safety_anchor looks for the group's content, not for its own inode.
HasGroupContent(a) == files[a] # NoFile /\ files[a].sha = op.was[a].sha

DropAnchor(done) ==
    /\ op.pc = "drop_anchor"
    /\ LET gone == done /\ HasGroupContent(op.src) IN
       /\ files' = IF gone THEN [files EXCEPT ![op.src] = NoFile] ELSE files
       /\ \/ gone /\ Finish("unchanged")
          \/ (FileFaults \/ ~gone) /\ Finish("unknown")
    /\ UNCHANGED <<refs, index, meant, unseen, strikes>>

\* Two counts without a transaction: a referenced member stays.
CheckMember(m) ==
    /\ op.pc = "removing" /\ m \in op.todo
    /\ op' = IF RefsTo(m) = {} THEN [op EXCEPT !.pc = "unlinking", !.cur = m]
                               ELSE [op EXCEPT !.todo = @ \ {m}]
    /\ UNCHANGED <<files, refs, index, meant, unseen, strikes>>

\* The record validated at the start still describes name p: same inode, and
\* the same st_ctime, which changes when the inode gains or loses a name.
StillValid(p) == files[p] = op.was[p] /\ files[p] \notin op.drift

UnlinkMember(done) ==
    /\ op.pc = "unlinking"
    /\ LET gone == done /\ StillValid(op.cur) IN
       /\ files' = IF gone THEN [files EXCEPT ![op.cur] = NoFile] ELSE files
       /\ op' = [op EXCEPT !.pc = "removing", !.todo = @ \ {op.cur},
                           !.drift = IF gone THEN @ \cup {files[op.cur]} ELSE @]
    /\ UNCHANGED <<refs, index, meant, unseen, strikes>>

\* _select_safe_destination: the keeper, the keeper's name linked to the
\* anchor, a recovered-* name linked to the anchor, or the anchor itself.
\* An anchor that is no longer the file that was copied is not published.
PublishAnchor(p) ==
    /\ files[op.src] = op.was[op.src]
    /\ files' = [files EXCEPT ![p] = files[op.src]]
    /\ op' = [op EXCEPT !.pc = "selected", !.dst = p, !.inode = files[op.src]]

\* Mutant: the keeper is taken as it was validated at the start.
SelectKeeper ==
    /\ op.pc = "removing" /\ op.todo = {}
    /\ op' = [op EXCEPT !.pc = "selected", !.inode = files[op.dst]]
    /\ UNCHANGED <<files, refs, index, meant, unseen, strikes>>

SelectDestination ==
    /\ op.pc = "removing" /\ op.todo = {}
    /\ \/ /\ StillValid(op.dst)
          /\ op' = [op EXCEPT !.pc = "selected", !.inode = files[op.dst]]
          /\ UNCHANGED files
       \/ ~StillValid(op.dst) /\ files[op.dst] = NoFile /\ PublishAnchor(op.dst)
       \/ /\ ~StillValid(op.dst) /\ (files[op.dst] # NoFile \/ FileFaults)
          /\ \/ \E r \in Spares : files[r] = NoFile /\ PublishAnchor(r)
             \/ /\ FileFaults \/ \A r \in Spares : files[r] # NoFile
                /\ Finish("changed") /\ UNCHANGED files
       \/ ~StillValid(op.dst) /\ files[op.src] # op.was[op.src] /\ Finish("changed") /\ UNCHANGED files
    /\ UNCHANGED <<refs, index, meant, unseen, strikes>>

FinalizeReferences(c) ==
    /\ op.pc = "selected"
    /\ refs' = IF Applied(c) THEN Moved({op.src}, op.dst) ELSE refs
    /\ IF c = "ok" THEN op' = [op EXCEPT !.pc = "finalized"] ELSE Finish("changed")
    /\ UNCHANGED <<files, index, meant, unseen, strikes>>

\* The destination is validated once more: the anchor goes, or the references return.
VerifyDestination(c, done) ==
    /\ op.pc = "finalized"
    /\ IF files[op.dst] = op.inode
       THEN /\ files' = IF done /\ HasGroupContent(op.src) THEN [files EXCEPT ![op.src] = NoFile] ELSE files
            /\ UNCHANGED refs
       ELSE /\ refs' = IF Applied(c) THEN Moved({op.dst}, op.src) ELSE refs
            /\ UNCHANGED files
    /\ Finish("changed")
    /\ UNCHANGED <<index, meant, unseen, strikes>>

-----------------------------------------------------------------------------
\* Anchor restore: a recovered-* link, the references, then the anchor goes.

BeginRestore(a, r) ==
    /\ op = Idle /\ "restore" \in Operations
    /\ Healthy(a) /\ files[r] = NoFile
    /\ files' = [files EXCEPT ![r] = files[a]]
    /\ op' = [Idle EXCEPT !.kind = "restore", !.pc = "recovered", !.src = a, !.dst = r,
                          !.inode = files[a]]
    /\ UNCHANGED <<refs, index, meant, unseen, strikes>>

\* The publication fails after its link, and so does the unlink that takes the
\* link back: the code swallows that and reports "publish_failed", which counts
\* as no change of the directory.
LeaveRecovered(a, r) ==
    /\ op = Idle /\ "restore" \in Operations /\ FileFaults
    /\ Healthy(a) /\ files[r] = NoFile
    /\ files' = [files EXCEPT ![r] = files[a]]
    /\ op' = [Idle EXCEPT !.kind = "restore", !.pc = "classified", !.outcome = "unchanged"]
    /\ unseen' = TRUE
    /\ UNCHANGED <<refs, index, meant, strikes>>

\* Any exception, a raising commit included, takes the recovered name back.
RestoreReferences(c) ==
    /\ op.pc = "recovered"
    /\ LET intact == files[op.src] = op.inode /\ files[op.dst] = op.inode IN
       /\ refs' = IF intact /\ Applied(c) THEN Moved({op.src}, op.dst) ELSE refs
       /\ op' = [op EXCEPT !.pc = IF intact /\ c = "ok" THEN "restored" ELSE "drop_recovered"]
    /\ UNCHANGED <<files, index, meant, unseen, strikes>>

\* Mutant: a recovered name that cannot be removed again is not reported.
DropRecoveredQuietly(done) ==
    /\ op.pc = "drop_recovered"
    /\ files' = IF done /\ files[op.dst] = op.inode THEN [files EXCEPT ![op.dst] = NoFile] ELSE files
    /\ Finish("unchanged")
    /\ UNCHANGED <<refs, index, meant, unseen, strikes>>

DropRecovered(done) ==
    /\ op.pc = "drop_recovered"
    /\ LET gone == done /\ files[op.dst] = op.inode IN
       /\ files' = IF gone THEN [files EXCEPT ![op.dst] = NoFile] ELSE files
       /\ Finish(IF gone THEN "unchanged" ELSE "unknown")
    /\ UNCHANGED <<refs, index, meant, unseen, strikes>>

\* BEGIN IMMEDIATE, the zero-reference recheck, unlink of the anchor, COMMIT.
RemoveAnchor(done) ==
    /\ op.pc = "restored"
    /\ files' = IF done /\ RefsTo(op.src) = {} /\ files[op.src] = op.inode /\ files[op.dst] = op.inode
                THEN [files EXCEPT ![op.src] = NoFile] ELSE files
    /\ Finish("changed")
    /\ UNCHANGED <<refs, index, meant, unseen, strikes>>

\* Deletion of an unreferenced file: recheck and unlink under BEGIN IMMEDIATE.
DeleteUnreferenced(p) ==
    /\ op = Idle /\ "delete" \in Operations
    /\ files[p] # NoFile /\ RefsTo(p) = {}
    /\ files' = [files EXCEPT ![p] = NoFile]
    /\ op' = [Idle EXCEPT !.kind = "delete", !.pc = "classified", !.outcome = "changed"]
    /\ UNCHANGED <<refs, index, meant, unseen, strikes>>

DeleteAnchor(a) == Healthy(a) /\ DeleteUnreferenced(a)
DeleteDamaged(p) == ~Healthy(p) /\ DeleteUnreferenced(p)

-----------------------------------------------------------------------------
\* synchronize_media_index_after_mutation, still under the media lock.

RefreshIndex ==
    /\ index' = [valid |-> TRUE, shown |-> Shown]
    /\ unseen' = FALSE

InvalidateIndex ==
    \/ index' = [index EXCEPT !.valid = FALSE] /\ UNCHANGED unseen
    \/ FileFaults /\ unseen' = TRUE /\ UNCHANGED index   \* invalidation_failed, reported

SyncIndex ==
    /\ op.pc = "classified" /\ op' = Idle
    /\ \/ op.outcome = "unchanged" /\ UNCHANGED <<index, unseen>>
       \/ op.outcome = "changed" /\ RefreshIndex
       \/ op.outcome = "changed" /\ FileFaults /\ InvalidateIndex
       \/ op.outcome = "unknown" /\ InvalidateIndex
    /\ UNCHANGED <<files, refs, meant, strikes>>

\* The refresh and rebuild pages; a failing scan leaves the index as it is.
ManualRefresh ==
    /\ op = Idle /\ RefreshIndex
    /\ UNCHANGED <<files, refs, op, meant, strikes>>

-----------------------------------------------------------------------------
\* Requests that assign references.

SetReference(o, p) ==
    /\ op.kind \in Assigning /\ ~Locked
    /\ refs' = [refs EXCEPT ![o] = p]
    /\ meant' = [meant EXCEPT ![o] = IF p = NoPath \/ files[p] = NoFile THEN NoFile ELSE files[p].sha]
    /\ UNCHANGED <<files, index, op, unseen, strikes>>

\* The file's management page: the file is validated under BEGIN IMMEDIATE.
ManageReference(o, p) == (p = NoPath \/ Healthy(p)) /\ SetReference(o, p)

\* Data health: an object whose reference does not resolve to legal media.
RepairReference(o, p) ==
    /\ refs[o] # NoPath /\ ~Healthy(refs[o])
    /\ p = NoPath \/ Healthy(p)
    /\ SetReference(o, p)

\* Item forms and the library's cover buttons look at the file earlier or never.
EditItem(o, p) == SetReference(o, p)

\* Another program removes a file of the media directory, a hidden anchor
\* included, or puts its own in its place.
Outsider(p, f) ==
    /\ strikes < MaxStrikes /\ files[p] # NoFile
    /\ f # NoFile => f.number \in FreeNumbers
    /\ files' = [files EXCEPT ![p] = f]
    /\ unseen' = TRUE /\ strikes' = strikes + 1
    /\ UNCHANGED <<refs, index, op, meant>>

\* The process stops: the locks are free, uncommitted updates are gone.
Crash ==
    /\ op # Idle
    /\ op' = Idle /\ unseen' = TRUE
    /\ UNCHANGED <<files, refs, index, meant, strikes>>

OperationStep ==
    \/ AbortRename \/ InspectRename \/ InspectAliases \/ LockAliases \/ EndAliases
    \/ SelectDestination \/ SyncIndex
    \/ \E c \in Outcomes(op.kind) : \/ CommitRename(c) \/ AnchorReferences(c)
                                    \/ FinalizeReferences(c) \/ RestoreReferences(c)
    \/ \E done \in Unlinks : \/ DropTarget(done) \/ RemoveSource(done) \/ DropAnchor(done)
                             \/ UnlinkMember(done) \/ DropRecovered(done) \/ RemoveAnchor(done)
    \/ \E c \in Outcomes(op.kind), done \in Unlinks : VerifyDestination(c, done)
    \/ \E p \in Visible, done \in Unlinks : DeleteAlias(p, done)
    \/ \E m \in Visible : CheckMember(m)

Next ==
    \/ OperationStep
    \/ \E s \in Visible, t \in Paths : BeginRename(s, t)
    \/ \E k \in Visible, c \in Outcomes("alias") : BeginAlias(k, c)
    \/ \E k \in Visible, a \in Anchors : BeginDuplicate(k, a)
    \/ \E a \in Anchors, r \in Spares : BeginRestore(a, r) \/ LeaveRecovered(a, r)
    \/ \E a \in Anchors : DeleteAnchor(a)
    \/ \E p \in Visible : DeleteDamaged(p)
    \/ ManualRefresh
    \/ \E o \in Objects, p \in Visible \cup {NoPath} :
            ManageReference(o, p) \/ RepairReference(o, p) \/ EditItem(o, p)
    \/ \E p \in Names, f \in Inodes \cup {NoFile} : Outsider(p, f)
    \/ Crash

Spec == Init /\ [][Next]_vars

-----------------------------------------------------------------------------
\* Every variable keeps its type.
TypeOK ==
    /\ files \in [Names -> Inodes \cup {NoFile}]
    /\ refs \in [Objects -> Names \cup {NoPath}]
    /\ index \in [valid : BOOLEAN, shown : [Visible -> Inodes \cup {NoFile}]]
    /\ op.src \in Names \cup {NoPath} /\ op.dst \in Names \cup {NoPath}
    /\ op.inode \in Inodes \cup {NoFile}
    /\ op.expect \subseteq Objects /\ op.todo \subseteq Visible /\ op.drift \subseteq Inodes
    /\ op.outcome \in {"none", "unchanged", "changed", "unknown"}
    /\ meant \in [Objects -> Digests \cup {NoFile}]
    /\ unseen \in BOOLEAN /\ strikes \in 0 .. MaxStrikes

\* As long as no other program changes the media directory, a cover or avatar
\* that was set to an existing file resolves, in every state and after any crash,
\* to a file with that file's SHA-256, whatever renames, normalisations, cleanups
\* and restores have moved it: no step unlinks a name that is still referenced
\* and no migration points at a file that is not there or not the same.
ReferencesKeepContent ==
    strikes = 0 => \A o \in Objects : meant[o] # NoFile =>
        files[refs[o]] # NoFile /\ files[refs[o]].sha = meant[o]

\* Between operations a valid index shows exactly the files that are there:
\* every outcome that changed a name is classified as one that needs the index.
\* `unseen` leaves out what no operation reports as a change: the process was
\* killed in an operation, another program changed the directory, the
\* application said that it could not invalidate, or a restore left its link
\* behind and reported that nothing changed (LeaveRecovered).
IndexFaithful == op = Idle /\ index.valid /\ ~unseen => index.shown = Shown

\* Rename, normalisation, duplicate cleanup and restore never take away the
\* last name of a file's content, whatever other programs do to the media
\* directory meanwhile, with two exceptions the definitions name.  A cleanup that
\* unlinks a member, and a restore that takes its recovered name back, count on
\* the anchor and do not look at it (README: "the anchor remains a valid
\* same-SHA-256 copy throughout every deletion"): AnchorIntact says that no other
\* program took that one file before these two steps.  And the roll-backs of a
\* rename and of an unfinished cleanup look only at the name they take back
\* (TakesBack): another program may have removed the rest.
TakesBack == op.pc \in {"drop_target", "drop_anchor"}
AnchorIntact ==
    /\ op.pc = "unlinking" => files[op.src] = op.was[op.src]
    /\ op.pc = "drop_recovered" => files[op.src] = op.inode

LastNameStays ==
    /\ op.kind \in {"rename", "alias", "duplicate", "restore"} /\ ~TakesBack
    /\ AnchorIntact /\ strikes' = strikes
    => \A n \in Names : files[n] # NoFile =>
            \E m \in Names : files'[m] # NoFile /\ files'[m].sha = files[n].sha

\* When a duplicate cleanup lets its anchor go, whatever became of it meanwhile,
\* every object it leaves on the chosen destination finds the group's content there.
AnchorGoesLast ==
    \A a \in Anchors :
        /\ op.kind = "duplicate" /\ ~TakesBack /\ strikes' = strikes
        /\ files[a] # NoFile /\ files'[a] = NoFile
        => \A o \in Objects : refs'[o] = op.dst =>
                files'[op.dst] # NoFile /\ files'[op.dst].sha = files[a].sha

ContentSurvives == [][LastNameStays /\ AnchorGoesLast]_vars
=============================================================================
