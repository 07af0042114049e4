----------------------------- MODULE MediaUploads -----------------------------
(***************************************************************************)
(* Uploads into the media library (store_media_uploads in local_media.py) and  *)
(* the removal of what interrupted uploads leave (media_upload_residue_        *)
(* cleanup.py).  Both run under the media operation lock; pages, other          *)
(* programs and a crash do not wait for it.                                     *)
(*                                                                          *)
(* A file is an inode number.  It is published under the name of its digest by   *)
(* a hard link from a hidden .upload-*.tmp name, which is then removed.          *)
(***************************************************************************)
EXTENDS Naturals, Sequences, SequencesExt

CONSTANTS
    Digest,         \* contents that are uploaded
    URef,           \* items and creators with a cover or avatar
    Inode,          \* files ever made, in order
    MaxTampers      \* bound: changes by other programs

ASSUME UploadAssumption ==
    /\ MaxTampers \in Nat /\ {"none", "residue"} \cap Digest = {}
    /\ Cardinality(Inode) \in Nat \ {0} /\ Inode = 1..Cardinality(Inode)

VARIABLES
    libdir,     \* /media/library exists
    lib,        \* the file under each digest's name, 0 if none
    holds,      \* the content of each file made so far, "none" before
    temps,      \* files that have a .upload-*.tmp name
    stamp,      \* ctime of each file
    urefs,      \* what each object's path names: a digest, the old residue, none
    up,         \* the operation under the media lock.  History: mine, the files it linked;
                \* late, names others changed meanwhile; unseen, files others put under the
                \* name it had linked before it looked at it again
    shown,      \* the last previewed residue: file and ctime
    uindex,     \* media index: usable, and the names it lists
    tampers,    \* how often others interfered
    udrift,     \* history: the index was left behind by others or by a failure
    stuck       \* history: a crash, or an unlink that failed

uploadVars == <<libdir, lib, holds, temps, stamp, urefs, up, shown, uindex, tampers, udrift, stuck>>

UpIdle == [pc |-> "idle"]
UpAt(pc) == up.pc = pc
NotShown == [file |-> 0, stamp |-> 0]
Unmade == {i \in Inode : holds[i] = "none"}
NextInode == CHOOSE i \in Unmade : \A j \in Unmade : i <= j
LibGood(d) == lib[d] # 0 /\ holds[lib[d]] = d

----------------------------------------------------------------------------
(* store_media_uploads                                                      *)

\* The request is valid; the scan finds what is stored already, and the library
\* directory is made if needed.
StartUpload(request) ==
    /\ UpAt("idle")
    /\ up' = [pc |-> "next", todo |-> request, made |-> {}, known |-> {d \in Digest : LibGood(d)},
              paths |-> {}, changed |-> ~libdir, temp |-> 0, mine |-> {}, late |-> {}, unseen |-> {}]
    /\ libdir' = TRUE
    /\ UNCHANGED <<lib, holds, temps, stamp, urefs, shown, uindex, tampers, udrift, stuck>>

Wanted == Head(up.todo)
Done == [up EXCEPT !.pc = "next", !.todo = Tail(@), !.temp = 0,
                  !.known = @ \cup {Wanted}, !.paths = @ \cup {Wanted}]

SkipDuplicate ==
    /\ UpAt("next") /\ up.todo # <<>>
    /\ Wanted \in up.known
    /\ up' = Done
    /\ UNCHANGED <<libdir, lib, holds, temps, stamp, urefs, shown, uindex, tampers, udrift, stuck>>

\* _write_temporary_media; on failure its own temporary is removed.
WriteTemporary ==
    /\ UpAt("next") /\ up.todo # <<>>
    /\ Wanted \notin up.known /\ Unmade # {}
    /\ holds' = [holds EXCEPT ![NextInode] = Wanted]
    /\ \/ /\ temps' = temps \cup {NextInode}
          /\ up' = [up EXCEPT !.pc = "publish", !.temp = NextInode]
          /\ UNCHANGED stuck
       \/ \E cleaned \in BOOLEAN :
             /\ temps' = IF cleaned THEN temps ELSE temps \cup {NextInode}
             /\ stuck' = (stuck \/ ~cleaned)
             /\ up' = [up EXCEPT !.pc = "rollback"]
    /\ UNCHANGED <<libdir, lib, stamp, urefs, shown, uindex, tampers, udrift>>

\* The finally block of _publish_media_file.
DropTemp(cleaned) ==
    /\ temps' = IF cleaned THEN temps \ {up.temp} ELSE temps
    /\ stuck' = (stuck \/ (~cleaned /\ up.temp \in temps))

\* os.link never replaces: an existing name is fine only with the same content.
SameContentMutant(d) == TRUE
SameContent(d) == LibGood(d)

Publish ==
    /\ UpAt("publish")
    /\ IF lib[Wanted] = 0
       THEN /\ lib' = [lib EXCEPT ![Wanted] = up.temp]
            /\ stamp' = [stamp EXCEPT ![up.temp] = @ + 1]
            /\ up' = [up EXCEPT !.pc = "unlink", !.mine = @ \cup {up.temp}]
            /\ UNCHANGED <<temps, stuck>>
       ELSE /\ \E cleaned \in BOOLEAN : DropTemp(cleaned)
            /\ up' = IF SameContent(Wanted) THEN Done ELSE [up EXCEPT !.pc = "rollback"]
            /\ UNCHANGED <<lib, stamp>>
    /\ UNCHANGED <<libdir, holds, urefs, shown, uindex, tampers, udrift>>

LinkFails ==
    /\ UpAt("publish")
    /\ \E cleaned \in BOOLEAN : DropTemp(cleaned)
    /\ up' = [up EXCEPT !.pc = "rollback"]
    /\ UNCHANGED <<libdir, lib, holds, stamp, urefs, shown, uindex, tampers, udrift>>

\* The stat after the unlink takes the name's file for its own, whoever put it there.
UnlinkTemporary ==
    /\ UpAt("unlink")
    /\ temps' = temps \ {up.temp}
    /\ up' = [Done EXCEPT !.made = @ \cup {[name |-> Wanted, file |-> lib[Wanted]]},
                                    !.changed = TRUE]
    /\ UNCHANGED <<libdir, lib, holds, stamp, urefs, shown, uindex, tampers, udrift, stuck>>

\* unlink, stat or fsync fails: the name just published is taken away again,
\* whatever it leads to by now.
UnlinkFails ==
    /\ UpAt("unlink")
    /\ \E cleaned, taken \in BOOLEAN :
          /\ DropTemp(cleaned)
          /\ lib' = IF taken THEN [lib EXCEPT ![Wanted] = 0] ELSE lib
    /\ up' = [up EXCEPT !.pc = "rollback"]
    /\ UNCHANGED <<libdir, holds, stamp, urefs, shown, uindex, tampers, udrift>>

\* _rollback_published_media: only the files this upload made.
StillOursMutant(record) == TRUE
StillOurs(record) == lib[record.name] = record.file

RollbackUpload ==
    /\ UpAt("rollback")
    /\ \E failed \in SUBSET up.made :
          lib' = [d \in Digest |->
                    IF \E r \in up.made \ failed : r.name = d /\ StillOurs(r) THEN 0 ELSE lib[d]]
    /\ up' = [up EXCEPT !.pc = "unknown"]
    /\ UNCHANGED <<libdir, holds, temps, stamp, urefs, shown, uindex, tampers, udrift, stuck>>

FinishUpload ==
    /\ UpAt("next") /\ up.todo = <<>>
    /\ up' = [up EXCEPT !.pc = "told"]
    /\ UNCHANGED <<libdir, lib, holds, temps, stamp, urefs, shown, uindex, tampers, udrift, stuck>>

\* classify_upload_result and classify_media_operation_error, then the index.
Changed == up.changed

CoordinateUpload ==
    /\ up.pc \in {"told", "unknown"}
    /\ up' = UpIdle
    /\ \E scans, marks \in BOOLEAN :
          LET refreshed == UpAt("told") /\ scans
          IN  IF UpAt("told") /\ ~Changed
              THEN UNCHANGED <<uindex, udrift>>
              ELSE /\ uindex' = IF refreshed THEN [valid |-> TRUE, names |-> lib]
                                ELSE [uindex EXCEPT !.valid = @ /\ ~marks]
                   /\ udrift' = (~refreshed /\ (udrift \/ ~marks))
    /\ UNCHANGED <<libdir, lib, holds, temps, stamp, urefs, shown, tampers, stuck>>

----------------------------------------------------------------------------
(* Residue cleanup                                                          *)

\* Any hidden upload file is shown, one of a running upload too.
PreviewResidue(i) ==
    /\ i \in temps
    /\ shown' = [file |-> i, stamp |-> stamp[i]]
    /\ UNCHANGED <<libdir, lib, holds, temps, stamp, urefs, up, uindex, tampers, udrift, stuck>>

ResidueRefs(i) == {u \in URef : i = 1 /\ urefs[u] = "residue"}

SnapshotMatches == shown.stamp = stamp[shown.file]

\* The page submits what it showed, and it is the file now; BEGIN IMMEDIATE;
\* nothing refers to it.
ConfirmResidue ==
    /\ UpAt("idle") /\ shown.file \in temps
    /\ SnapshotMatches
    /\ ResidueRefs(shown.file) = {}
    /\ up' = [pc |-> "residue", submitted |-> shown, file |-> shown.file, stamp |-> stamp[shown.file]]
    /\ UNCHANGED <<libdir, lib, holds, temps, stamp, urefs, shown, uindex, tampers, udrift, stuck>>

\* _observe_residue and _delete_residue: the same file, unchanged, is unlinked.
SameResidue == up.file \in temps /\ stamp[up.file] = up.stamp

DeleteResidue ==
    /\ UpAt("residue")
    /\ up' = UpIdle
    /\ \/ SameResidue /\ temps' = temps \ {up.file}
       \/ temps' = temps
    /\ UNCHANGED <<libdir, lib, holds, stamp, urefs, shown, uindex, tampers, udrift, stuck>>

----------------------------------------------------------------------------
(* Beside it                                                                *)

ClearUpload(u) ==
    /\ urefs[u] # "none" /\ ~UpAt("residue")
    /\ urefs' = [urefs EXCEPT ![u] = "none"]
    /\ UNCHANGED <<libdir, lib, holds, temps, stamp, up, shown, uindex, tampers, udrift, stuck>>

\* Other programs put a file of their own under a digest's name, or touch residue.
Tamper(d) ==
    /\ tampers < MaxTampers /\ Unmade # {}
    /\ tampers' = tampers + 1
    /\ \E content \in {d, "damaged"} : holds' = [holds EXCEPT ![NextInode] = content]
    /\ lib' = [lib EXCEPT ![d] = NextInode]
    /\ libdir' = TRUE
    /\ udrift' = TRUE
    /\ up' = IF "late" \in DOMAIN up
             THEN [up EXCEPT !.late = @ \cup {d},
                             !.unseen = IF UpAt("unlink") /\ d = Wanted THEN @ \cup {NextInode} ELSE @]
             ELSE up
    /\ UNCHANGED <<temps, stamp, urefs, shown, uindex, stuck>>

TouchResidue(i) ==
    /\ i \in temps /\ tampers < MaxTampers
    /\ tampers' = tampers + 1
    /\ stamp' = [stamp EXCEPT ![i] = @ + 1]
    /\ UNCHANGED <<libdir, lib, holds, temps, urefs, up, shown, uindex, udrift, stuck>>

CrashUpload ==
    /\ ~UpAt("idle")
    /\ up' = UpIdle
    /\ stuck' = TRUE /\ udrift' = TRUE
    /\ UNCHANGED <<libdir, lib, holds, temps, stamp, urefs, shown, uindex, tampers>>

\* Inode 1 is the residue of an earlier upload, which an old path may still name.
UploadInit ==
    /\ libdir \in BOOLEAN
    /\ lib = [d \in Digest |-> 0]
    /\ holds = [i \in Inode |-> IF i = 1 /\ libdir THEN "damaged" ELSE "none"]
    /\ temps = IF libdir THEN {1} ELSE {}
    /\ stamp = [i \in Inode |-> 0]
    /\ urefs \in [URef -> IF libdir THEN {"none", "residue"} ELSE {"none"}]
    /\ up = UpIdle
    /\ shown = NotShown
    /\ uindex = [valid |-> TRUE, names |-> lib]
    /\ tampers = 0
    /\ udrift = FALSE /\ stuck = FALSE

UploadRequests == {s \in SeqOf(Digest, 2) : s # <<>>}

UploadNext ==
    \/ \E request \in UploadRequests : StartUpload(request)
    \/ SkipDuplicate \/ WriteTemporary \/ Publish \/ LinkFails \/ UnlinkTemporary \/ UnlinkFails
    \/ RollbackUpload \/ FinishUpload \/ CoordinateUpload
    \/ ConfirmResidue \/ DeleteResidue \/ CrashUpload
    \/ \E i \in Inode : PreviewResidue(i) \/ TouchResidue(i)
    \/ \E u \in URef : ClearUpload(u)
    \/ \E d \in Digest : Tamper(d)

UploadSpec == UploadInit /\ [][UploadNext]_uploadVars

----------------------------------------------------------------------------
(* Properties                                                               *)

\* Uploads leave no hidden files behind: only the running upload's temporary, what
\* a crash or a failed unlink left, and the old residue (_publish_media_file).
UploadTypeOK ==
    /\ \A d \in Digest : lib[d] \in Inode \cup {0}
    /\ \A i \in temps : holds[i] # "none"
    /\ ~stuck => temps \subseteq {1} \cup (IF up.pc \in {"publish", "unlink"} THEN {up.temp} ELSE {})

\* An upload that succeeds gives out only paths that hold the uploaded content,
\* whatever lay under the names before it began (_verify_existing_final).
UploadedIntact ==
    UpAt("told") => \A d \in up.paths \ up.late : LibGood(d)

\* A usable index lists the library as it is: after every upload it is refreshed
\* or invalidated (coordinate_media_mutation_async).
UploadIndexFaithful == UpAt("idle") /\ uindex.valid /\ ~udrift => uindex.names = lib

\* What an upload gives out is what was uploaded, and what the index lists is what
\* is there, after success, rollback and an unlink that failed.
UploadsFaithful == UploadedIntact /\ UploadIndexFaithful

\* No step empties a name of the library but an upload that gives up, and it takes
\* back only files it linked itself (_rollback_published_media compares them).  One
\* exception, which the code has: after the link and before the stat that follows it
\* the name is not looked at again.  What another program puts there in between is
\* unseen: _publish_media_file unlinks it by name when it fails, and _PublishedMedia
\* records it as its own, for a later rollback to remove.
UploadsTakeTheirOwn ==
    \A d \in Digest : lib[d] # 0 /\ lib'[d] = 0 =>
        /\ up.pc \in {"unlink", "rollback"}
        /\ lib[d] \in up.mine \cup up.unseen

\* The residue cleanup removes nothing but the file the confirmation submitted, as
\* it was shown, and named by no cover or avatar
\* (execute_media_upload_residue_cleanup).
OnlyShownResidueRemoved ==
    UpAt("residue") => \A i \in temps \ temps' :
        [file |-> i, stamp |-> stamp[i]] = up.submitted /\ ResidueRefs(i) = {}

OnlyOwnFilesRemoved == [][UploadsTakeTheirOwn /\ OnlyShownResidueRemoved]_uploadVars
=============================================================================
