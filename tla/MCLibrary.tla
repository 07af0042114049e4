------------------------------ MODULE MCLibrary ------------------------------
\* The parts that work on the media library, each with its own state: live says
\* which one runs.  Their items, objects, digests and processes may be the same
\* model values, since no behaviour holds those of two parts.  A part that does
\* not run starts in one state.
EXTENDS LocalWorkflow, MediaDirectories, MediaUploads, MediaLock, MediaIndexing, TLC

CONSTANT Alike      \* interchangeable model values

VARIABLE live

LibraryVars == <<localVars, dirVars, uploadVars, lockVars, indexVars, live>>

LibraryInit ==
    /\ LocalInit /\ DirInit /\ UploadInit /\ LockInit /\ IndexInit
    /\ live \in {"local", "directories", "uploads", "lock", "index"}
    /\ live # "local" => lindex.valid
    /\ live # "directories" => dirs["A"] = NoDir
    /\ live # "uploads" => ~libdir
    /\ live # "index" => \A p \in IPath : BodyNow(p) = "image"

LibraryNext ==
    /\ UNCHANGED live
    /\ \/ live = "local" /\ LocalNext /\ UNCHANGED <<dirVars, uploadVars, lockVars, indexVars>>
       \/ live = "directories" /\ DirNext /\ UNCHANGED <<localVars, uploadVars, lockVars, indexVars>>
       \/ live = "uploads" /\ UploadNext /\ UNCHANGED <<localVars, dirVars, lockVars, indexVars>>
       \/ live = "lock" /\ LockNext /\ UNCHANGED <<localVars, dirVars, uploadVars, indexVars>>
       \/ live = "index" /\ IndexNext /\ UNCHANGED <<localVars, dirVars, uploadVars, lockVars>>

LibrarySpec == LibraryInit /\ [][LibraryNext]_LibraryVars

Interchangeable == Permutations(Alike)

\* Tasks, files, names, locks and index rows have the shape the code gives them.
LibraryTypeOK == LocalTypeOK /\ DirTypeOK /\ UploadTypeOK /\ LockTypeOK /\ IndexTypeOK
==============================================================================
