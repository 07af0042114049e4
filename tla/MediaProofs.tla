----------------------------- MODULE MediaProofs -----------------------------
(***************************************************************************)
(* What the media operations keep, for any names, objects, contents and    *)
(* inode numbers, any operations, failures, crashes and assignments.       *)
(*                                                                         *)
(* MediaInv says what an operation holds at each of its steps (Shapes),    *)
(* that the index is behind the names only where the operation will say so *)
(* (IndexTold), and that a name just linked is still the link (LinkIsOurs).*)
(* It holds whatever other programs do: what a cleanup relies on is what   *)
(* it read at its start (op.was), the anchor it made included.             *)
(*                                                                         *)
(* MeantInv adds what every step counts on about references: nobody refers *)
(* to a name that may go, and a name references are moved to has the       *)
(* content of the one they come from.                                      *)
(***************************************************************************)
EXTENDS MediaMutations, TLAPS

NamesOrNone == Names \cup {NoPath}
InodesOrNone == Inodes \cup {NoFile}
FilesType == [Names -> InodesOrNone]
IndexType == [valid : BOOLEAN, shown : [Visible -> InodesOrNone]]

Steps == {"idle", "linked", "inspect", "drop_target", "migrated", "normalized", "inspect_aliases",
          "aliases_locked", "anchored", "drop_anchor", "removing", "unlinking", "selected",
          "finalized", "recovered", "drop_recovered", "restored", "classified"}

OpType ==
    [kind : {"none", "rename", "alias", "duplicate", "restore", "delete"}, pc : Steps,
     src : NamesOrNone, dst : NamesOrNone, inode : InodesOrNone, expect : SUBSET Objects,
     before : {<< >>} \cup [Objects -> NamesOrNone], was : {<< >>} \cup FilesType,
     todo : SUBSET Visible, cur : Visible \cup {NoPath}, drift : SUBSET Inodes, removed : BOOLEAN,
     outcome : {"none", "unchanged", "changed", "unknown"}]

MediaTypes ==
    /\ files \in FilesType
    /\ refs \in [Objects -> NamesOrNone]
    /\ index \in IndexType
    /\ op \in OpType
    /\ meant \in [Objects -> Digests \cup {NoFile}]
    /\ unseen \in BOOLEAN /\ strikes \in 0 .. MaxStrikes

\* What an operation holds at each of its steps.
InRename ==
    op.pc \in {"linked", "inspect", "drop_target", "migrated"} =>
        /\ op.kind = "rename" /\ op.src \in Visible /\ op.dst \in Paths /\ op.src # op.dst
        /\ op.inode \in Inodes

InAlias ==
    op.pc \in {"normalized", "inspect_aliases", "aliases_locked"} =>
        /\ op.kind = "alias" /\ op.dst \in Visible /\ op.inode \in Inodes
        /\ op.pc = "aliases_locked" => op.dst \notin op.todo

\* The members that may still go, and the destination once it is selected, were
\* read or made with the content the anchor was made with.
InCleanup ==
    op.pc \in {"anchored", "drop_anchor", "removing", "unlinking", "selected", "finalized"} =>
        /\ op.kind = "duplicate" /\ op.src \in Anchors /\ op.dst \in Visible
        /\ op.was \in FilesType /\ op.was[op.src] \in Inodes
        /\ op.pc \in {"anchored", "removing", "unlinking"} =>
              \A m \in op.todo \cup {op.dst} :
                  op.was[m] \in Inodes /\ op.was[m].sha = op.was[op.src].sha
        /\ op.pc = "unlinking" => op.cur \in op.todo
        /\ op.pc \in {"selected", "finalized"} =>
              op.inode \in Inodes /\ op.inode.sha = op.was[op.src].sha

InRestore ==
    op.pc \in {"recovered", "drop_recovered", "restored"} =>
        op.kind = "restore" /\ op.src \in Anchors /\ op.dst \in Spares /\ op.inode \in Inodes

AtEnds ==
    /\ op.pc = "idle" => op = Idle
    /\ op.pc = "classified" => op.outcome \in {"unchanged", "changed", "unknown"}

Shapes == InRename /\ InAlias /\ InCleanup /\ InRestore /\ AtEnds

\* Steps with a change of names behind them that the end of the operation will
\* tell the index about.
Behind ==
    \/ op.pc \in {"migrated", "removing", "unlinking", "selected", "finalized", "restored"}
    \/ op.pc = "classified" /\ op.outcome \in {"changed", "unknown"}
    \/ op.pc = "aliases_locked" /\ op.removed

\* A name that has been linked and may be taken back.
Pending(p) ==
    op.pc \in {"linked", "inspect", "drop_target", "recovered", "drop_recovered"} /\ p = op.dst

IndexTold ==
    index.valid /\ ~unseen /\ ~Behind =>
        \A p \in Visible : index.shown[p] = IF Pending(p) THEN NoFile ELSE files[p]

LinkIsOurs ==
    ~unseen /\ op.pc \in {"linked", "inspect", "drop_target"} => files[op.dst] = op.inode

MediaInv == MediaTypes /\ Shapes /\ IndexTold /\ LinkIsOurs

----------------------------------------------------------------------------
Results == {"unchanged", "changed", "unknown"}

\* The index shows the names that are there.
Told == index.valid /\ ~unseen => \A p \in Visible : index.shown[p] = files[p]

RefsType == [Objects -> NamesOrNone]

LEMMA FinishGives ==
    ASSUME op \in OpType, NEW result \in Results, Finish(result)
    PROVE  op' \in OpType /\ op'.pc = "classified" /\ op'.outcome = result
  BY DEF OpType, Finish, Steps, Results

LEMMA PcGives ==
    ASSUME op \in OpType, NEW step \in Steps, op' = [op EXCEPT !.pc = step]
    PROVE  /\ op' \in OpType /\ op'.pc = step
           /\ op'.kind = op.kind /\ op'.src = op.src /\ op'.dst = op.dst /\ op'.inode = op.inode
           /\ op'.todo = op.todo /\ op'.was = op.was
  BY DEF OpType, Steps

LEMMA IdleIsOp ==
    /\ Idle \in OpType /\ Idle.pc = "idle" /\ Idle.kind = "none"
  BY DEF Idle, OpType, Steps, NamesOrNone, InodesOrNone

LEMMA MovedType ==
    ASSUME refs \in RefsType, NEW S, NEW p \in NamesOrNone
    PROVE  Moved(S, p) \in RefsType
  BY DEF Moved, RefsType, NamesOrNone

\* An operation that ends tells the index unless it says that nothing changed,
\* so it may say that only when the index shows what is there.
LEMMA Finished ==
    ASSUME MediaInv, NEW result \in Results, Finish(result),
           files' \in FilesType, refs' \in RefsType,
           UNCHANGED <<index, meant, unseen, strikes>>,
           result = "unchanged" => Told'
    PROVE  MediaInv'
  <1>1. op' \in OpType /\ op'.pc = "classified" /\ op'.outcome = result
    BY FinishGives DEF MediaInv, MediaTypes
  <1>2. MediaTypes'
    BY <1>1 DEF MediaInv, MediaTypes, RefsType
  <1>3. Shapes'
    BY <1>1 DEF Shapes, InRename, InAlias, InCleanup, InRestore, AtEnds, Results
  <1>4. IndexTold' /\ LinkIsOurs'
    BY <1>1 DEF IndexTold, LinkIsOurs, Behind, Pending, Told, Results
  <1> QED BY <1>2, <1>3, <1>4 DEF MediaInv

\* A step that leaves the index, the history and what outsiders did alone keeps
\* the types if the operation, the names and the references keep theirs.
LEMMA TypesStay ==
    ASSUME MediaTypes, files' \in FilesType, refs' \in RefsType, op' \in OpType,
           UNCHANGED <<index, meant, unseen, strikes>>
    PROVE  MediaTypes'
  BY DEF MediaTypes, RefsType

LEMMA TypesGive ==
    ASSUME MediaTypes
    PROVE  /\ files \in FilesType /\ refs \in RefsType /\ op \in OpType
           /\ \A n \in Names : files[n] \in InodesOrNone
  BY DEF MediaTypes, RefsType, FilesType

LEMMA NamesGive ==
    /\ Paths \subseteq Visible /\ Spares \subseteq Visible /\ Visible \subseteq Names
    /\ Anchors \subseteq Names /\ Names \subseteq NamesOrNone /\ NoPath \in NamesOrNone
    /\ Visible \cap Anchors = {} /\ NoPath \notin Names
  BY NamesAssumption DEF Visible, Names, NamesOrNone

LEMMA SetName ==
    ASSUME files \in FilesType, NEW n \in Names, NEW f \in InodesOrNone
    PROVE  [files EXCEPT ![n] = f] \in FilesType
  BY DEF FilesType

LEMMA NoFileIsMaybe == NoFile \in InodesOrNone /\ NoFile \notin Inodes /\ Inodes \subseteq InodesOrNone
  BY FilesAssumption DEF InodesOrNone, Inodes

----------------------------------------------------------------------------
\* Rename and move.

LEMMA BeginRenameKeeps ==
    ASSUME MediaInv, NEW s \in Visible, NEW t \in Paths, BeginRename(s, t)
    PROVE  MediaInv'
  <1>1. /\ files[s] \in Inodes /\ files[t] = NoFile /\ s # t /\ s \in Names /\ t \in Visible /\ t \in Names
        /\ files' = [files EXCEPT ![t] = files[s]]
    BY NamesGive, TypesGive DEF MediaInv, BeginRename, Healthy, InodesOrNone
  <1>2. /\ op' \in OpType /\ op'.pc = "linked" /\ op'.kind = "rename"
        /\ op'.src = s /\ op'.dst = t /\ op'.inode = files[s]
    BY <1>1, NamesGive, NoFileIsMaybe DEF BeginRename, Idle, OpType, Steps, RefsTo
  <1>3. MediaTypes'
    BY <1>1, <1>2, TypesGive, TypesStay, SetName, NoFileIsMaybe DEF MediaInv, BeginRename
  <1>4. Shapes'
    BY <1>1, <1>2 DEF Shapes, InRename, InAlias, InCleanup, InRestore, AtEnds
  <1>5. op.pc = "idle"
    BY IdleIsOp DEF BeginRename
  <1>6. IndexTold' /\ LinkIsOurs'
    BY <1>1, <1>2, <1>5, TypesGive, NamesGive
    DEF MediaInv, IndexTold, LinkIsOurs, Behind, Pending, BeginRename, FilesType
  <1> QED BY <1>3, <1>4, <1>6 DEF MediaInv

LEMMA AbortRenameKeeps ==
    ASSUME MediaInv, AbortRename
    PROVE  MediaInv'
  <1>1. /\ op.pc = "linked" /\ op' \in OpType /\ op'.pc = "drop_target" /\ op'.kind = op.kind
        /\ op'.src = op.src /\ op'.dst = op.dst /\ op'.inode = op.inode
    BY PcGives, TypesGive DEF MediaInv, AbortRename, Steps
  <1>2. MediaTypes'
    BY <1>1, TypesGive, TypesStay DEF MediaInv, AbortRename
  <1>3. Shapes'
    BY <1>1 DEF MediaInv, Shapes, InRename, InAlias, InCleanup, InRestore, AtEnds
  <1>4. IndexTold' /\ LinkIsOurs'
    BY <1>1 DEF MediaInv, IndexTold, LinkIsOurs, Behind, Pending, AbortRename
  <1> QED BY <1>2, <1>3, <1>4 DEF MediaInv

LEMMA CommitRenameKeeps ==
    ASSUME MediaInv, NEW c, CommitRename(c)
    PROVE  MediaInv'
  <1>1. PICK step \in {"migrated", "inspect"} : op' = [op EXCEPT !.pc = step]
    BY DEF CommitRename
  <1>2. /\ op.pc = "linked" /\ op' \in OpType /\ op'.pc = step /\ op'.kind = op.kind
        /\ op'.src = op.src /\ op'.dst = op.dst /\ op'.inode = op.inode
    BY <1>1, PcGives, TypesGive DEF MediaInv, CommitRename, Steps
  <1>3. refs' \in RefsType
    BY TypesGive, MovedType DEF MediaInv, CommitRename, OpType
  <1>4. MediaTypes'
    BY <1>2, <1>3, TypesGive, TypesStay DEF MediaInv, CommitRename
  <1>5. Shapes'
    BY <1>2 DEF MediaInv, Shapes, InRename, InAlias, InCleanup, InRestore, AtEnds
  <1>6. IndexTold' /\ LinkIsOurs'
    BY <1>2 DEF MediaInv, IndexTold, LinkIsOurs, Behind, Pending, CommitRename
  <1> QED BY <1>4, <1>5, <1>6 DEF MediaInv

LEMMA InspectRenameKeeps ==
    ASSUME MediaInv, InspectRename
    PROVE  MediaInv'
  <1>1. op.pc = "inspect" /\ UNCHANGED <<files, refs, index, meant, unseen, strikes>>
    BY DEF InspectRename
  <1>2. CASE op' = [op EXCEPT !.pc = "drop_target"]
    <2>1. /\ op' \in OpType /\ op'.pc = "drop_target" /\ op'.kind = op.kind
          /\ op'.src = op.src /\ op'.dst = op.dst /\ op'.inode = op.inode
      BY <1>2, PcGives, TypesGive DEF MediaInv, Steps
    <2>2. MediaTypes'
      BY <1>1, <2>1, TypesGive, TypesStay DEF MediaInv
    <2>3. Shapes'
      BY <1>1, <2>1 DEF MediaInv, Shapes, InRename, InAlias, InCleanup, InRestore, AtEnds
    <2>4. IndexTold' /\ LinkIsOurs'
      BY <1>1, <2>1 DEF MediaInv, IndexTold, LinkIsOurs, Behind, Pending
    <2> QED BY <2>2, <2>3, <2>4 DEF MediaInv
  <1>3. CASE \E result \in {"changed", "unknown"} : Finish(result)
    BY <1>1, <1>3, Finished, TypesGive DEF MediaInv, Results
  <1>4. op' = [op EXCEPT !.pc = "drop_target"] \/ \E result \in {"changed", "unknown"} : Finish(result)
    BY Zenon DEF InspectRename
  <1> QED BY <1>2, <1>3, <1>4

LEMMA DropTargetKeeps ==
    ASSUME MediaInv, NEW done \in BOOLEAN, DropTarget(done)
    PROVE  MediaInv'
  <1>1. op.pc = "drop_target" /\ UNCHANGED <<refs, index, meant, unseen, strikes>>
    BY DEF DropTarget
  <1>2. op.dst \in Visible /\ op.dst \in Names
    BY <1>1, NamesGive DEF MediaInv, Shapes, InRename
  <1>3. files' \in FilesType
    BY <1>2, TypesGive, SetName, NoFileIsMaybe DEF MediaInv, DropTarget
  <1>4. CASE Finish("unknown")
    BY <1>1, <1>3, <1>4, Finished, TypesGive DEF MediaInv, Results
  <1>5. CASE (done \/ files[op.dst] # op.inode) /\ Finish("unchanged")
    <2>1. Told'
      <3>1. ~unseen => files[op.dst] = op.inode
        BY <1>1 DEF MediaInv, LinkIsOurs
      <3>2. ~unseen => files' = [files EXCEPT ![op.dst] = NoFile]
        BY <1>5, <3>1 DEF DropTarget
      <3>3. index.valid /\ ~unseen =>
                \A p \in Visible : index.shown[p] = IF p = op.dst THEN NoFile ELSE files[p]
        BY <1>1 DEF MediaInv, IndexTold, Behind, Pending
      <3> QED BY <1>1, <1>2, <3>2, <3>3, TypesGive, NamesGive DEF MediaInv, Told, FilesType
    <2> QED BY <1>1, <1>3, <1>5, <2>1, Finished, TypesGive DEF MediaInv, Results
  <1> QED BY <1>4, <1>5, Zenon DEF DropTarget

LEMMA RemoveSourceKeeps ==
    ASSUME MediaInv, NEW done \in BOOLEAN, RemoveSource(done)
    PROVE  MediaInv'
  <1>1. op.pc = "migrated" /\ UNCHANGED <<refs, index, meant, unseen, strikes>> /\ Finish("changed")
    BY DEF RemoveSource
  <1>2. op.src \in Names
    BY <1>1, NamesGive DEF MediaInv, Shapes, InRename
  <1>3. files' \in FilesType
    BY <1>2, TypesGive, SetName, NoFileIsMaybe DEF MediaInv, RemoveSource
  <1> QED BY <1>1, <1>3, Finished, TypesGive DEF MediaInv, Results

----------------------------------------------------------------------------
\* Alias normalisation.

LEMMA BeginAliasKeeps ==
    ASSUME MediaInv, NEW k \in Visible, NEW c \in Outcomes("alias"), BeginAlias(k, c)
    PROVE  MediaInv'
  <1> DEFINE S == {p \in Visible : files[p] = files[k]}
  <1>1. files[k] \in Inodes /\ k \in NamesOrNone /\ S \in SUBSET Visible
    BY NamesGive, TypesGive DEF MediaInv, BeginAlias, Healthy, InodesOrNone
  <1>2. PICK step \in {"normalized", "inspect_aliases"} :
            op' = [Idle EXCEPT !.kind = "alias", !.pc = step, !.dst = k, !.inode = files[k], !.before = refs,
                               !.todo = S, !.expect = {o \in Objects : refs[o] \in S}]
    BY DEF BeginAlias
  <1>3. refs \in [Objects -> NamesOrNone] /\ {o \in Objects : refs[o] \in S} \in SUBSET Objects
    BY TypesGive DEF MediaInv, RefsType
  <1> HIDE DEF S
  <1>4. op' \in OpType /\ op'.pc = step /\ op'.kind = "alias" /\ op'.dst = k /\ op'.inode = files[k]
    BY <1>1, <1>2, <1>3, NamesGive, NoFileIsMaybe DEF Idle, OpType, Steps
  <1>5. refs' \in RefsType
    BY <1>1, TypesGive, MovedType DEF MediaInv, BeginAlias
  <1>6. MediaTypes'
    BY <1>4, <1>5, TypesGive, TypesStay DEF MediaInv, BeginAlias
  <1>7. Shapes'
    BY <1>1, <1>4 DEF Shapes, InRename, InAlias, InCleanup, InRestore, AtEnds
  <1>8. op.pc = "idle"
    BY IdleIsOp DEF BeginAlias
  <1>9. IndexTold' /\ LinkIsOurs'
    BY <1>4, <1>8 DEF MediaInv, IndexTold, LinkIsOurs, Behind, Pending, BeginAlias
  <1> QED BY <1>6, <1>7, <1>9 DEF MediaInv

LEMMA InspectAliasesKeeps ==
    ASSUME MediaInv, InspectAliases
    PROVE  MediaInv'
  <1>1. op.pc = "inspect_aliases" /\ UNCHANGED <<files, refs, index, meant, unseen, strikes>>
    BY DEF InspectAliases
  <1>2. CASE op' = [op EXCEPT !.pc = "normalized"]
    <2>1. /\ op' \in OpType /\ op'.pc = "normalized" /\ op'.kind = op.kind
          /\ op'.dst = op.dst /\ op'.inode = op.inode
      BY <1>2, PcGives, TypesGive DEF MediaInv, Steps
    <2>2. MediaTypes'
      BY <1>1, <2>1, TypesGive, TypesStay DEF MediaInv
    <2>3. Shapes'
      BY <1>1, <2>1 DEF MediaInv, Shapes, InRename, InAlias, InCleanup, InRestore, AtEnds
    <2>4. IndexTold' /\ LinkIsOurs'
      BY <1>1, <2>1 DEF MediaInv, IndexTold, LinkIsOurs, Behind, Pending
    <2> QED BY <2>2, <2>3, <2>4 DEF MediaInv
  <1>3. CASE Finish("unchanged")
    <2>1. Told'
      BY <1>1 DEF MediaInv, IndexTold, Behind, Pending, Told
    <2> QED BY <1>1, <1>3, <2>1, Finished, TypesGive DEF MediaInv, Results
  <1>4. CASE Finish("unknown")
    BY <1>1, <1>4, Finished, TypesGive DEF MediaInv, Results
  <1> QED BY <1>2, <1>3, <1>4, Zenon DEF InspectAliases

LEMMA LockAliasesKeeps ==
    ASSUME MediaInv, LockAliases
    PROVE  MediaInv'
  <1>1. op.pc = "normalized" /\ UNCHANGED <<files, refs, index, meant, unseen, strikes>>
    BY DEF LockAliases
  <1>2. CASE op' = [op EXCEPT !.pc = "aliases_locked", !.todo = @ \ {op.dst}]
    <2>1. /\ op' \in OpType /\ op'.pc = "aliases_locked" /\ op'.kind = op.kind /\ op'.dst = op.dst
          /\ op'.inode = op.inode /\ op'.todo = op.todo \ {op.dst} /\ op'.removed = op.removed
      BY <1>2, TypesGive DEF MediaInv, OpType, Steps
    <2>2. MediaTypes'
      BY <1>1, <2>1, TypesGive, TypesStay DEF MediaInv
    <2>3. Shapes'
      BY <1>1, <2>1 DEF MediaInv, Shapes, InRename, InAlias, InCleanup, InRestore, AtEnds
    <2>4. IndexTold' /\ LinkIsOurs'
      BY <1>1, <2>1 DEF MediaInv, IndexTold, LinkIsOurs, Behind, Pending
    <2> QED BY <2>2, <2>3, <2>4 DEF MediaInv
  <1>3. CASE Finish("unchanged")
    <2>1. Told'
      BY <1>1 DEF MediaInv, IndexTold, Behind, Pending, Told
    <2> QED BY <1>1, <1>3, <2>1, Finished, TypesGive DEF MediaInv, Results
  <1> QED BY <1>2, <1>3, Zenon DEF LockAliases

LEMMA DeleteAliasKeeps ==
    ASSUME MediaInv, NEW p \in Visible, NEW done \in BOOLEAN, DeleteAlias(p, done)
    PROVE  MediaInv'
  <1>1. PICK gone \in BOOLEAN :
            /\ files' = IF gone THEN [files EXCEPT ![p] = NoFile] ELSE files
            /\ op' = [op EXCEPT !.todo = @ \ {p}, !.removed = @ \/ gone]
    <2> DEFINE g == done /\ files[op.dst] = op.inode /\ files[p] = op.inode
    <2>1. g \in BOOLEAN
      BY Zenon
    <2> QED BY <2>1, Zenon DEF DeleteAlias
  <1>2. op.pc = "aliases_locked" /\ UNCHANGED <<refs, index, meant, unseen, strikes>>
    BY DEF DeleteAlias
  <1>3. /\ op' \in OpType /\ op'.pc = op.pc /\ op'.kind = op.kind /\ op'.dst = op.dst
        /\ op'.inode = op.inode /\ op'.todo = op.todo \ {p} /\ (op'.removed <=> op.removed \/ gone)
    BY <1>1, TypesGive DEF MediaInv, OpType
  <1>4. files' \in FilesType
    BY <1>1, TypesGive, NamesGive, SetName, NoFileIsMaybe DEF MediaInv
  <1>5. MediaTypes'
    BY <1>2, <1>3, <1>4, TypesGive, TypesStay DEF MediaInv
  <1>6. Shapes'
    BY <1>2, <1>3 DEF MediaInv, Shapes, InRename, InAlias, InCleanup, InRestore, AtEnds
  <1>7. IndexTold' /\ LinkIsOurs'
    BY <1>1, <1>2, <1>3 DEF MediaInv, IndexTold, LinkIsOurs, Behind, Pending
  <1> QED BY <1>5, <1>6, <1>7 DEF MediaInv

LEMMA EndAliasesKeeps ==
    ASSUME MediaInv, EndAliases
    PROVE  MediaInv'
  <1>1. op.pc = "aliases_locked" /\ UNCHANGED <<files, refs, index, meant, unseen, strikes>>
    BY DEF EndAliases
  <1>2. CASE op.removed /\ Finish("changed")
    BY <1>1, <1>2, Finished, TypesGive DEF MediaInv, Results
  <1>3. CASE ~op.removed /\ Finish("unchanged")
    <2>1. Told'
      BY <1>1, <1>3 DEF MediaInv, IndexTold, Behind, Pending, Told
    <2> QED BY <1>1, <1>3, <2>1, Finished, TypesGive DEF MediaInv, Results
  <1>4. op.removed \in BOOLEAN
    BY TypesGive DEF MediaInv, OpType
  <1> QED BY <1>2, <1>3, <1>4 DEF EndAliases

----------------------------------------------------------------------------
\* Duplicate cleanup.

LEMMA BeginDuplicateKeeps ==
    ASSUME MediaInv, NEW k \in Visible, NEW a \in Anchors, BeginDuplicate(k, a)
    PROVE  MediaInv'
  <1> DEFINE S == {p \in Visible : files[p] # NoFile /\ files[p].sha = files[k].sha}
  <1>1. PICK i \in FreeNumbers : files' = [files EXCEPT ![a] = [sha |-> files[k].sha, number |-> i]]
    BY DEF BeginDuplicate
  <1>2. /\ files[k] \in Inodes /\ k \in S /\ S \in SUBSET Visible
        /\ \A m \in S : files[m] \in Inodes /\ files[m].sha = files[k].sha
    BY NamesGive, TypesGive DEF MediaInv, BeginDuplicate, Healthy, InodesOrNone
  <1>3. op' = [Idle EXCEPT !.kind = "duplicate", !.pc = "anchored", !.src = a, !.dst = k,
                           !.was = files', !.todo = S]
    BY DEF BeginDuplicate
  <1> HIDE DEF S
  <1>4. [sha |-> files[k].sha, number |-> i] \in Inodes
    BY <1>2 DEF Inodes, FreeNumbers
  <1>5. files' \in FilesType
    BY <1>1, <1>4, TypesGive, NamesGive, SetName, NoFileIsMaybe DEF MediaInv
  <1>6. files'[a] \in Inodes /\ files'[a].sha = files[k].sha /\ \A p \in Visible : files'[p] = files[p]
    BY <1>1, <1>4, TypesGive, NamesGive DEF MediaInv, FilesType
  <1>7. PICK now \in FilesType : now = files'
    BY <1>5
  <1>8. /\ op' \in OpType /\ op'.pc = "anchored" /\ op'.kind = "duplicate" /\ op'.src = a /\ op'.dst = k
        /\ op'.was = now /\ op'.todo = S
    BY <1>2, <1>3, <1>7, NamesGive, NoFileIsMaybe DEF Idle, OpType, Steps
  <1>9. MediaTypes'
    BY <1>5, <1>8, TypesGive, TypesStay DEF MediaInv, BeginDuplicate, RefsType
  <1>10. \A m \in S \cup {k} : now[m] \in Inodes /\ now[m].sha = now[a].sha
    BY <1>2, <1>6, <1>7
  <1>11. Shapes'
    BY <1>6, <1>7, <1>8, <1>10 DEF Shapes, InRename, InAlias, InCleanup, InRestore, AtEnds
  <1>12. op.pc = "idle"
    BY IdleIsOp DEF BeginDuplicate
  <1>13. IndexTold' /\ LinkIsOurs'
    BY <1>6, <1>8, <1>12 DEF MediaInv, IndexTold, LinkIsOurs, Behind, Pending, BeginDuplicate
  <1> QED BY <1>9, <1>11, <1>13 DEF MediaInv

LEMMA AnchorReferencesKeeps ==
    ASSUME MediaInv, NEW c, AnchorReferences(c)
    PROVE  MediaInv'
  <1>1. op.pc = "anchored" /\ UNCHANGED <<files, index, meant, unseen, strikes>>
    BY DEF AnchorReferences
  <1>2. /\ op' \in OpType /\ op'.pc \in {"removing", "drop_anchor"} /\ op'.kind = op.kind
        /\ op'.src = op.src /\ op'.dst = op.dst /\ op'.was = op.was /\ op'.todo \subseteq op.todo
    BY TypesGive DEF MediaInv, AnchorReferences, OpType, Steps
  <1>3. refs' \in RefsType
    BY TypesGive, MovedType DEF MediaInv, AnchorReferences, OpType
  <1>4. MediaTypes'
    BY <1>1, <1>2, <1>3, TypesGive, TypesStay DEF MediaInv
  <1>5. Shapes'
    BY <1>1, <1>2 DEF MediaInv, Shapes, InRename, InAlias, InCleanup, InRestore, AtEnds
  <1>6. IndexTold' /\ LinkIsOurs'
    BY <1>1, <1>2 DEF MediaInv, IndexTold, LinkIsOurs, Behind, Pending
  <1> QED BY <1>4, <1>5, <1>6 DEF MediaInv

LEMMA DropAnchorKeeps ==
    ASSUME MediaInv, NEW done \in BOOLEAN, DropAnchor(done)
    PROVE  MediaInv'
  <1>1. op.pc = "drop_anchor" /\ UNCHANGED <<refs, index, meant, unseen, strikes>>
    BY DEF DropAnchor
  <1>2. op.src \in Anchors /\ op.src \in Names
    BY <1>1, NamesGive DEF MediaInv, Shapes, InCleanup
  <1>3. files' \in FilesType /\ \A p \in Visible : files'[p] = files[p]
    BY <1>2, TypesGive, SetName, NoFileIsMaybe, NamesGive DEF MediaInv, DropAnchor, FilesType
  <1>4. CASE Finish("unknown")
    BY <1>1, <1>3, <1>4, Finished, TypesGive DEF MediaInv, Results
  <1>5. CASE Finish("unchanged")
    <2>1. Told'
      BY <1>1, <1>3 DEF MediaInv, IndexTold, Behind, Pending, Told
    <2> QED BY <1>1, <1>3, <1>5, <2>1, Finished, TypesGive DEF MediaInv, Results
  <1> QED BY <1>4, <1>5, Zenon DEF DropAnchor

LEMMA CheckMemberKeeps ==
    ASSUME MediaInv, NEW m \in Visible, CheckMember(m)
    PROVE  MediaInv'
  <1>1. /\ op.pc = "removing" /\ m \in op.todo
        /\ UNCHANGED <<files, refs, index, meant, unseen, strikes>>
    BY DEF CheckMember
  <1>2. /\ op' \in OpType /\ op'.pc \in {"removing", "unlinking"} /\ op'.kind = op.kind
        /\ op'.src = op.src /\ op'.dst = op.dst /\ op'.was = op.was /\ op'.todo \subseteq op.todo
        /\ op'.pc = "unlinking" => op'.cur = m /\ op'.todo = op.todo
    BY TypesGive DEF MediaInv, CheckMember, OpType, Steps
  <1>3. MediaTypes'
    BY <1>1, <1>2, TypesGive, TypesStay DEF MediaInv
  <1>4. Shapes'
    BY <1>1, <1>2 DEF MediaInv, Shapes, InRename, InAlias, InCleanup, InRestore, AtEnds
  <1>5. IndexTold' /\ LinkIsOurs'
    BY <1>1, <1>2 DEF MediaInv, IndexTold, LinkIsOurs, Behind, Pending
  <1> QED BY <1>3, <1>4, <1>5 DEF MediaInv

\* A member that goes is the file that was validated, with the content the anchor was made with.
LEMMA UnlinkMemberGives ==
    ASSUME MediaInv, NEW done \in BOOLEAN, UnlinkMember(done)
    PROVE  /\ op.pc = "unlinking" /\ UNCHANGED <<refs, index, meant, unseen, strikes>>
           /\ op.kind = "duplicate" /\ op.cur \in Visible /\ op.src \in Anchors
           /\ \/ UNCHANGED files /\ op' = [op EXCEPT !.pc = "removing", !.todo = @ \ {op.cur}]
              \/ /\ files' = [files EXCEPT ![op.cur] = NoFile]
                 /\ op' = [op EXCEPT !.pc = "removing", !.todo = @ \ {op.cur}, !.drift = @ \cup {files[op.cur]}]
                 /\ files[op.cur] \in Inodes /\ files[op.cur].sha = op.was[op.src].sha
  <1>1. /\ op.pc = "unlinking" /\ UNCHANGED <<refs, index, meant, unseen, strikes>>
        /\ op.kind = "duplicate" /\ op.cur \in op.todo /\ op.src \in Anchors
        /\ op.was[op.cur] \in Inodes /\ op.was[op.cur].sha = op.was[op.src].sha
    BY DEF MediaInv, Shapes, InCleanup, UnlinkMember
  <1>2. op.cur \in Visible /\ op \in OpType
    BY <1>1, TypesGive DEF MediaInv, OpType
  <1>3. StillValid(op.cur) => files[op.cur] = op.was[op.cur]
    BY DEF StillValid
  <1>4. CASE ~(done /\ StillValid(op.cur))
    <2>1. op' = [op EXCEPT !.pc = "removing", !.todo = @ \ {op.cur}, !.drift = @] /\ UNCHANGED files
      BY <1>4, Zenon DEF UnlinkMember
    <2>2. op' = [op EXCEPT !.pc = "removing", !.todo = @ \ {op.cur}]
      BY <1>2, <2>1 DEF OpType
    <2> QED BY <1>1, <1>2, <2>1, <2>2
  <1>5. CASE done /\ StillValid(op.cur)
    <2>1. /\ files' = [files EXCEPT ![op.cur] = NoFile]
          /\ op' = [op EXCEPT !.pc = "removing", !.todo = @ \ {op.cur}, !.drift = @ \cup {files[op.cur]}]
      BY <1>5, Zenon DEF UnlinkMember
    <2> QED BY <1>1, <1>2, <1>3, <1>5, <2>1
  <1> QED BY <1>4, <1>5

LEMMA UnlinkMemberKeeps ==
    ASSUME MediaInv, NEW done \in BOOLEAN, UnlinkMember(done)
    PROVE  MediaInv'
  <1>1. /\ op.pc = "unlinking" /\ UNCHANGED <<refs, index, meant, unseen, strikes>>
        /\ op.cur \in Visible /\ op.src \in Anchors
        /\ \/ UNCHANGED files /\ op' = [op EXCEPT !.pc = "removing", !.todo = @ \ {op.cur}]
           \/ /\ files' = [files EXCEPT ![op.cur] = NoFile] /\ files[op.cur] \in Inodes
              /\ op' = [op EXCEPT !.pc = "removing", !.todo = @ \ {op.cur}, !.drift = @ \cup {files[op.cur]}]
    BY UnlinkMemberGives
  <1>2. /\ op' \in OpType /\ op'.pc = "removing" /\ op'.kind = op.kind
        /\ op'.src = op.src /\ op'.dst = op.dst /\ op'.was = op.was /\ op'.todo \subseteq op.todo
    <2>1. op \in OpType /\ op.drift \cup {files[op.cur]} \in SUBSET (Inodes \cup {files[op.cur]})
      BY TypesGive DEF MediaInv, OpType
    <2>2. CASE op' = [op EXCEPT !.pc = "removing", !.todo = @ \ {op.cur}]
      BY <2>1, <2>2 DEF OpType, Steps
    <2>3. CASE /\ op' = [op EXCEPT !.pc = "removing", !.todo = @ \ {op.cur}, !.drift = @ \cup {files[op.cur]}]
               /\ files[op.cur] \in Inodes
      <3> DEFINE seen == op.drift \cup {files[op.cur]}
      <3>1. seen \in SUBSET Inodes
        BY <2>1, <2>3 DEF OpType
      <3>2. op' = [op EXCEPT !.pc = "removing", !.todo = @ \ {op.cur}, !.drift = seen]
        BY <2>3
      <3> HIDE DEF seen
      <3> QED BY <2>1, <3>1, <3>2 DEF OpType, Steps
    <2> QED BY <1>1, <2>2, <2>3
  <1>3. files' \in FilesType
    BY <1>1, TypesGive, NamesGive, SetName, NoFileIsMaybe DEF MediaInv
  <1>4. MediaTypes'
    BY <1>1, <1>2, <1>3, TypesGive, TypesStay DEF MediaInv
  <1>5. Shapes'
    BY <1>1, <1>2 DEF MediaInv, Shapes, InRename, InAlias, InCleanup, InRestore, AtEnds
  <1>6. IndexTold' /\ LinkIsOurs'
    BY <1>1, <1>2 DEF MediaInv, IndexTold, LinkIsOurs, Behind, Pending
  <1> QED BY <1>4, <1>5, <1>6 DEF MediaInv

\* The destination that is selected has the content the anchor was made with.
LEMMA SelectDestinationGives ==
    ASSUME MediaInv, SelectDestination
    PROVE  /\ op.pc = "removing" /\ UNCHANGED <<refs, index, meant, unseen, strikes>>
           /\ op.src \in Anchors
           /\ \/ UNCHANGED files /\ Finish("changed")
              \/ \E p \in Visible, f \in Inodes :
                    /\ op' = [op EXCEPT !.pc = "selected", !.dst = p, !.inode = f]
                    /\ f.sha = op.was[op.src].sha
                    /\ \/ UNCHANGED files /\ files[p] = f
                       \/ /\ files[p] = NoFile /\ files' = [files EXCEPT ![p] = f]
                         
  <1>1. /\ op.pc = "removing" /\ UNCHANGED <<refs, index, meant, unseen, strikes>>
        /\ op.src \in Anchors /\ op.dst \in Visible /\ op.was[op.src] \in Inodes
        /\ op.was[op.dst] \in Inodes /\ op.was[op.dst].sha = op.was[op.src].sha
    BY DEF MediaInv, Shapes, InCleanup, SelectDestination
  <1>2. CASE /\ StillValid(op.dst)
             /\ op' = [op EXCEPT !.pc = "selected", !.inode = files[op.dst]]
             /\ UNCHANGED files
    <2>1. files[op.dst] = op.was[op.dst]
      BY <1>2 DEF StillValid
    <2>2. op' = [op EXCEPT !.pc = "selected", !.dst = op.dst, !.inode = files[op.dst]]
      BY <1>2, TypesGive DEF MediaInv, OpType
    <2> QED BY <1>1, <1>2, <2>1, <2>2
  <1>3. CASE files[op.dst] = NoFile /\ PublishAnchor(op.dst)
    BY <1>1, <1>3 DEF PublishAnchor
  <1>4. CASE \E r \in Spares : files[r] = NoFile /\ PublishAnchor(r)
    BY <1>1, <1>4, NamesGive DEF PublishAnchor
  <1>5. CASE Finish("changed") /\ UNCHANGED files
    BY <1>1, <1>5
  <1> QED BY <1>2, <1>3, <1>4, <1>5, Zenon DEF SelectDestination

LEMMA SelectDestinationKeeps ==
    ASSUME MediaInv, SelectDestination
    PROVE  MediaInv'
  <1>1. /\ op.pc = "removing" /\ UNCHANGED <<refs, index, meant, unseen, strikes>>
        /\ op.src \in Anchors
    BY SelectDestinationGives
  <1>2. CASE UNCHANGED files /\ Finish("changed")
    BY <1>1, <1>2, Finished, TypesGive DEF MediaInv, Results
  <1>3. ASSUME NEW p \in Visible, NEW f \in Inodes,
               op' = [op EXCEPT !.pc = "selected", !.dst = p, !.inode = f],
               f.sha = op.was[op.src].sha,
               \/ UNCHANGED files /\ files[p] = f
               \/ files[p] = NoFile /\ files' = [files EXCEPT ![p] = f]
        PROVE  MediaInv'
    <2>1. /\ op' \in OpType /\ op'.pc = "selected" /\ op'.kind = op.kind /\ op'.src = op.src
          /\ op'.dst = p /\ op'.inode = f /\ op'.was = op.was
      BY <1>3, TypesGive, NamesGive, NoFileIsMaybe DEF MediaInv, OpType, Steps
    <2>2. files' \in FilesType
      BY <1>1, <1>3, TypesGive, NamesGive, SetName, NoFileIsMaybe DEF MediaInv, FilesType
    <2>3. MediaTypes'
      BY <1>1, <2>1, <2>2, TypesGive, TypesStay DEF MediaInv
    <2>4. Shapes'
      BY <1>1, <1>3, <2>1, <2>2 DEF MediaInv, Shapes, InRename, InAlias, InCleanup, InRestore, AtEnds
    <2>5. IndexTold' /\ LinkIsOurs'
      BY <2>1 DEF IndexTold, LinkIsOurs, Behind
    <2> QED BY <2>3, <2>4, <2>5 DEF MediaInv
  <1> QED BY <1>2, <1>3, SelectDestinationGives

LEMMA FinalizeReferencesKeeps ==
    ASSUME MediaInv, NEW c, FinalizeReferences(c)
    PROVE  MediaInv'
  <1>1. op.pc = "selected" /\ UNCHANGED <<files, index, meant, unseen, strikes>>
    BY DEF FinalizeReferences
  <1>2. refs' \in RefsType
    BY TypesGive, MovedType DEF MediaInv, FinalizeReferences, OpType
  <1>3. CASE op' = [op EXCEPT !.pc = "finalized"]
    <2>1. /\ op' \in OpType /\ op'.pc = "finalized" /\ op'.kind = op.kind
          /\ op'.src = op.src /\ op'.dst = op.dst /\ op'.inode = op.inode /\ op'.was = op.was
      BY <1>3, PcGives, TypesGive DEF MediaInv, Steps
    <2>2. MediaTypes'
      BY <1>1, <1>2, <2>1, TypesGive, TypesStay DEF MediaInv
    <2>3. Shapes'
      BY <1>1, <2>1 DEF MediaInv, Shapes, InRename, InAlias, InCleanup, InRestore, AtEnds
    <2>4. IndexTold' /\ LinkIsOurs'
      BY <2>1 DEF IndexTold, LinkIsOurs, Behind
    <2> QED BY <2>2, <2>3, <2>4 DEF MediaInv
  <1>4. CASE Finish("changed")
    BY <1>1, <1>2, <1>4, Finished, TypesGive DEF MediaInv, Results
  <1> QED BY <1>3, <1>4, Zenon DEF FinalizeReferences

LEMMA VerifyDestinationKeeps ==
    ASSUME MediaInv, NEW c, NEW done \in BOOLEAN, VerifyDestination(c, done)
    PROVE  MediaInv'
  <1>1. op.pc = "finalized" /\ Finish("changed") /\ UNCHANGED <<index, meant, unseen, strikes>>
    BY DEF VerifyDestination
  <1>2. op.src \in Names
    BY <1>1, NamesGive DEF MediaInv, Shapes, InCleanup
  <1>3. files' \in FilesType
    BY <1>2, TypesGive, SetName, NoFileIsMaybe DEF MediaInv, VerifyDestination
  <1>4. refs' \in RefsType
    BY TypesGive, MovedType DEF MediaInv, VerifyDestination, OpType
  <1> QED BY <1>1, <1>3, <1>4, Finished, TypesGive DEF MediaInv, Results

----------------------------------------------------------------------------
\* Anchor restore and the deletions.

LEMMA BeginRestoreKeeps ==
    ASSUME MediaInv, NEW a \in Anchors, NEW r \in Spares, BeginRestore(a, r)
    PROVE  MediaInv'
  <1>1. /\ files[a] \in Inodes /\ files[r] = NoFile /\ a # r /\ a \in Names /\ r \in Visible /\ r \in Names
        /\ files' = [files EXCEPT ![r] = files[a]]
    BY NamesGive, TypesGive DEF MediaInv, BeginRestore, Healthy, InodesOrNone
  <1>2. /\ op' \in OpType /\ op'.pc = "recovered" /\ op'.kind = "restore"
        /\ op'.src = a /\ op'.dst = r /\ op'.inode = files[a]
    BY <1>1, NamesGive, NoFileIsMaybe DEF BeginRestore, Idle, OpType, Steps
  <1>3. files' \in FilesType
    BY <1>1, TypesGive, SetName, NoFileIsMaybe DEF MediaInv
  <1>4. MediaTypes'
    BY <1>2, <1>3, TypesGive, TypesStay DEF MediaInv, BeginRestore
  <1>5. Shapes'
    BY <1>1, <1>2 DEF Shapes, InRename, InAlias, InCleanup, InRestore, AtEnds
  <1>6. op.pc = "idle"
    BY IdleIsOp DEF BeginRestore
  <1>7. IndexTold' /\ LinkIsOurs'
    BY <1>1, <1>2, <1>6, TypesGive, NamesGive
    DEF MediaInv, IndexTold, LinkIsOurs, Behind, Pending, BeginRestore, FilesType
  <1> QED BY <1>4, <1>5, <1>7 DEF MediaInv

LEMMA LeaveRecoveredKeeps ==
    ASSUME MediaInv, NEW a \in Anchors, NEW r \in Spares, LeaveRecovered(a, r)
    PROVE  MediaInv'
  <1>1. /\ files[a] \in Inodes /\ r \in Names /\ files' = [files EXCEPT ![r] = files[a]]
        /\ unseen' /\ UNCHANGED <<refs, index, meant, strikes>>
    BY NamesGive, TypesGive DEF MediaInv, LeaveRecovered, Healthy, InodesOrNone
  <1>2. op' \in OpType /\ op'.pc = "classified" /\ op'.outcome = "unchanged"
    BY NamesGive, NoFileIsMaybe DEF LeaveRecovered, Idle, OpType, Steps
  <1>3. files' \in FilesType
    BY <1>1, TypesGive, SetName, NoFileIsMaybe DEF MediaInv
  <1>4. MediaTypes'
    BY <1>1, <1>2, <1>3 DEF MediaInv, MediaTypes, LeaveRecovered
  <1>5. Shapes'
    BY <1>2 DEF Shapes, InRename, InAlias, InCleanup, InRestore, AtEnds
  <1>6. IndexTold' /\ LinkIsOurs'
    BY <1>1 DEF IndexTold, LinkIsOurs
  <1> QED BY <1>4, <1>5, <1>6 DEF MediaInv

LEMMA RestoreReferencesKeeps ==
    ASSUME MediaInv, NEW c, RestoreReferences(c)
    PROVE  MediaInv'
  <1>1. op.pc = "recovered" /\ UNCHANGED <<files, index, meant, unseen, strikes>>
    BY DEF RestoreReferences
  <1>2. PICK step \in {"restored", "drop_recovered"} : op' = [op EXCEPT !.pc = step]
    BY DEF RestoreReferences
  <1>3. /\ op' \in OpType /\ op'.pc = step /\ op'.kind = op.kind
        /\ op'.src = op.src /\ op'.dst = op.dst /\ op'.inode = op.inode
    BY <1>2, PcGives, TypesGive DEF MediaInv, Steps
  <1>4. refs' \in RefsType
    BY TypesGive, MovedType DEF MediaInv, RestoreReferences, OpType
  <1>5. MediaTypes'
    BY <1>1, <1>3, <1>4, TypesGive, TypesStay DEF MediaInv
  <1>6. Shapes'
    BY <1>1, <1>3 DEF MediaInv, Shapes, InRename, InAlias, InCleanup, InRestore, AtEnds
  <1>7. IndexTold' /\ LinkIsOurs'
    BY <1>1, <1>3 DEF MediaInv, IndexTold, LinkIsOurs, Behind, Pending
  <1> QED BY <1>5, <1>6, <1>7 DEF MediaInv

LEMMA DropRecoveredKeeps ==
    ASSUME MediaInv, NEW done \in BOOLEAN, DropRecovered(done)
    PROVE  MediaInv'
  <1>1. op.pc = "drop_recovered" /\ UNCHANGED <<refs, index, meant, unseen, strikes>>
    BY DEF DropRecovered
  <1>2. op.dst \in Visible /\ op.dst \in Names
    BY <1>1, NamesGive DEF MediaInv, Shapes, InRestore
  <1>3. files' \in FilesType
    BY <1>2, TypesGive, SetName, NoFileIsMaybe DEF MediaInv, DropRecovered
  <1>4. CASE ~(done /\ files[op.dst] = op.inode)
    <2>1. Finish("unknown")
      BY <1>4, Zenon DEF DropRecovered
    <2> QED BY <1>1, <1>3, <2>1, Finished, TypesGive DEF MediaInv, Results
  <1>5. CASE done /\ files[op.dst] = op.inode
    <2>1. Finish("unchanged") /\ files' = [files EXCEPT ![op.dst] = NoFile]
      BY <1>5, Zenon DEF DropRecovered
    <2>2. index.valid /\ ~unseen =>
              \A p \in Visible : index.shown[p] = IF p = op.dst THEN NoFile ELSE files[p]
      BY <1>1 DEF MediaInv, IndexTold, Behind, Pending
    <2>3. Told'
      BY <1>1, <1>2, <2>1, <2>2, TypesGive, NamesGive DEF MediaInv, Told, FilesType
    <2> QED BY <1>1, <1>3, <2>1, <2>3, Finished, TypesGive DEF MediaInv, Results
  <1> QED BY <1>4, <1>5

LEMMA RemoveAnchorKeeps ==
    ASSUME MediaInv, NEW done \in BOOLEAN, RemoveAnchor(done)
    PROVE  MediaInv'
  <1>1. op.pc = "restored" /\ UNCHANGED <<refs, index, meant, unseen, strikes>> /\ Finish("changed")
    BY DEF RemoveAnchor
  <1>2. op.src \in Names
    BY <1>1, NamesGive DEF MediaInv, Shapes, InRestore
  <1>3. files' \in FilesType
    BY <1>2, TypesGive, SetName, NoFileIsMaybe DEF MediaInv, RemoveAnchor
  <1> QED BY <1>1, <1>3, Finished, TypesGive DEF MediaInv, Results

LEMMA DeleteUnreferencedKeeps ==
    ASSUME MediaInv, NEW p \in Names, DeleteUnreferenced(p)
    PROVE  MediaInv'
  <1>1. /\ op' \in OpType /\ op'.pc = "classified" /\ op'.outcome = "changed"
    BY NamesGive, NoFileIsMaybe DEF DeleteUnreferenced, Idle, OpType, Steps
  <1>2. files' \in FilesType
    BY TypesGive, SetName, NoFileIsMaybe DEF MediaInv, DeleteUnreferenced
  <1>3. MediaTypes'
    BY <1>1, <1>2, TypesGive, TypesStay DEF MediaInv, DeleteUnreferenced
  <1>4. Shapes'
    BY <1>1 DEF Shapes, InRename, InAlias, InCleanup, InRestore, AtEnds
  <1>5. IndexTold' /\ LinkIsOurs'
    BY <1>1 DEF IndexTold, LinkIsOurs, Behind
  <1> QED BY <1>3, <1>4, <1>5 DEF MediaInv

----------------------------------------------------------------------------
\* The index, references, other programs and crashes.

LEMMA ShownType == files \in FilesType => Shown \in [Visible -> InodesOrNone]
  BY NamesGive DEF Shown, FilesType

LEMMA SyncIndexKeeps ==
    ASSUME MediaInv, SyncIndex
    PROVE  MediaInv'
  <1>1. /\ op.pc = "classified" /\ op' = Idle /\ UNCHANGED <<files, refs, meant, strikes>>
        /\ op.outcome \in {"unchanged", "changed", "unknown"}
    BY DEF SyncIndex, MediaInv, Shapes, AtEnds
  <1>2. op' \in OpType /\ op'.pc = "idle"
    BY <1>1, IdleIsOp
  <1>3. Shapes'
    BY <1>1, <1>2 DEF Shapes, InRename, InAlias, InCleanup, InRestore, AtEnds
  <1>4. CASE op.outcome = "unchanged" /\ UNCHANGED <<index, unseen>>
    <2>1. MediaTypes'
      BY <1>1, <1>2, <1>4, TypesGive, TypesStay DEF MediaInv
    <2>2. IndexTold' /\ LinkIsOurs'
      BY <1>1, <1>2, <1>4 DEF MediaInv, IndexTold, LinkIsOurs, Behind, Pending
    <2> QED BY <1>3, <2>1, <2>2 DEF MediaInv
  <1>5. CASE RefreshIndex
    <2>1. MediaTypes'
      BY <1>1, <1>2, <1>5, ShownType DEF MediaInv, MediaTypes, RefreshIndex, IndexType
    <2>2. IndexTold' /\ LinkIsOurs'
      BY <1>1, <1>2, <1>5 DEF IndexTold, LinkIsOurs, Pending, RefreshIndex, Shown
    <2> QED BY <1>3, <2>1, <2>2 DEF MediaInv
  <1>6. CASE InvalidateIndex
    <2>1. MediaTypes'
      BY <1>1, <1>2, <1>6 DEF MediaInv, MediaTypes, InvalidateIndex, IndexType
    <2>2. ~index'.valid \/ unseen'
      BY <1>6 DEF MediaInv, MediaTypes, InvalidateIndex, IndexType
    <2>3. IndexTold' /\ LinkIsOurs'
      BY <1>2, <2>2 DEF IndexTold, LinkIsOurs
    <2> QED BY <1>3, <2>1, <2>3 DEF MediaInv
  <1> QED BY <1>4, <1>5, <1>6, Zenon DEF SyncIndex

LEMMA ManualRefreshKeeps ==
    ASSUME MediaInv, ManualRefresh
    PROVE  MediaInv'
  <1>1. op.pc = "idle" /\ RefreshIndex /\ UNCHANGED <<files, refs, op, meant, strikes>>
    BY IdleIsOp DEF ManualRefresh
  <1>2. MediaTypes'
    BY <1>1, ShownType DEF MediaInv, MediaTypes, RefreshIndex, IndexType
  <1>3. Shapes'
    BY <1>1 DEF MediaInv, Shapes, InRename, InAlias, InCleanup, InRestore, AtEnds
  <1>4. IndexTold' /\ LinkIsOurs'
    BY <1>1 DEF IndexTold, LinkIsOurs, Pending, RefreshIndex, Shown
  <1> QED BY <1>2, <1>3, <1>4 DEF MediaInv

LEMMA SetReferenceKeeps ==
    ASSUME MediaInv, NEW o \in Objects, NEW p \in Visible \cup {NoPath}, SetReference(o, p)
    PROVE  MediaInv'
  <1>1. UNCHANGED <<files, index, op, unseen, strikes>>
    BY DEF SetReference
  <1>2. MediaTypes'
    <2>1. p \in NamesOrNone
      BY NamesGive
    <2>2. refs' \in [Objects -> NamesOrNone]
      BY <2>1 DEF MediaInv, MediaTypes, SetReference
    <2>3. meant' \in [Objects -> Digests \cup {NoFile}]
      BY NamesGive DEF MediaInv, MediaTypes, SetReference, FilesType, InodesOrNone, Inodes
    <2> QED BY <1>1, <2>2, <2>3 DEF MediaInv, MediaTypes
  <1>3. Shapes'
    BY <1>1 DEF MediaInv, Shapes, InRename, InAlias, InCleanup, InRestore, AtEnds
  <1>4. IndexTold' /\ LinkIsOurs'
    BY <1>1 DEF MediaInv, IndexTold, LinkIsOurs, Behind, Pending
  <1> QED BY <1>2, <1>3, <1>4 DEF MediaInv

LEMMA OutsiderKeeps ==
    ASSUME MediaInv, NEW p \in Names, NEW f \in Inodes \cup {NoFile}, Outsider(p, f)
    PROVE  MediaInv'
  <1>1. unseen' /\ UNCHANGED <<refs, index, op, meant>> /\ files' = [files EXCEPT ![p] = f]
    BY DEF Outsider
  <1>2. files' \in FilesType
    BY <1>1, TypesGive, SetName DEF MediaInv, InodesOrNone
  <1>3. strikes' \in 0 .. MaxStrikes
    BY KindsAssumption DEF MediaInv, MediaTypes, Outsider
  <1>4. MediaTypes'
    BY <1>1, <1>2, <1>3 DEF MediaInv, MediaTypes, Outsider
  <1>5. Shapes'
    BY <1>1 DEF MediaInv, Shapes, InRename, InAlias, InCleanup, InRestore, AtEnds
  <1>6. IndexTold' /\ LinkIsOurs'
    BY <1>1 DEF IndexTold, LinkIsOurs
  <1> QED BY <1>4, <1>5, <1>6 DEF MediaInv

LEMMA CrashKeeps ==
    ASSUME MediaInv, Crash
    PROVE  MediaInv'
  <1>1. op' \in OpType /\ op'.pc = "idle" /\ op' = Idle
    BY IdleIsOp DEF Crash
  <1>2. MediaTypes'
    BY <1>1 DEF MediaInv, MediaTypes, Crash
  <1>3. Shapes'
    BY <1>1 DEF Shapes, InRename, InAlias, InCleanup, InRestore, AtEnds
  <1>4. IndexTold' /\ LinkIsOurs'
    BY DEF IndexTold, LinkIsOurs, Crash
  <1> QED BY <1>2, <1>3, <1>4 DEF MediaInv

----------------------------------------------------------------------------
LEMMA InitKeeps == Init => MediaInv
  <1> SUFFICES ASSUME Init PROVE MediaInv
    OBVIOUS
  <1>1. files \in FilesType /\ refs \in RefsType /\ op = Idle /\ unseen = FALSE
        /\ strikes = 0
    BY DEF Init, FilesType, RefsType, NamesOrNone, InodesOrNone
  <1>2. index = [valid |-> TRUE, shown |-> Shown] /\ index \in IndexType
    BY <1>1, ShownType DEF Init, IndexType
  <1>3. meant \in [Objects -> Digests \cup {NoFile}]
    <2>1. \A o \in Objects : refs[o] # NoPath => files[refs[o]] \in Inodes
      BY <1>1 DEF Init, Healthy, FilesType, InodesOrNone
    <2> QED BY <2>1 DEF Init, Inodes
  <1>4. MediaTypes
    <2>1. strikes \in 0 .. MaxStrikes
      BY <1>1, KindsAssumption
    <2>2. op \in OpType /\ index \in IndexType
      BY <1>1, <1>2, IdleIsOp
    <2> QED BY <1>1, <1>3, <2>1, <2>2 DEF MediaTypes, RefsType
  <1>5. Shapes
    BY <1>1, IdleIsOp DEF Shapes, InRename, InAlias, InCleanup, InRestore, AtEnds
  <1>6. IndexTold /\ LinkIsOurs
    BY <1>1, <1>2, IdleIsOp DEF IndexTold, LinkIsOurs, Pending, Shown
  <1> QED BY <1>4, <1>5, <1>6 DEF MediaInv

LEMMA UnlinksType == Unlinks \subseteq BOOLEAN
  BY DEF Unlinks

LEMMA UnchangedKeeps ==
    ASSUME MediaInv, UNCHANGED vars
    PROVE  MediaInv'
  <1>1. UNCHANGED <<files, refs, index, op, meant, unseen, strikes>>
    BY DEF vars
  <1>2. MediaTypes' /\ Shapes'
    BY <1>1 DEF MediaInv, MediaTypes, Shapes, InRename, InAlias, InCleanup, InRestore, AtEnds
  <1>3. IndexTold' /\ LinkIsOurs'
    BY <1>1 DEF MediaInv, IndexTold, LinkIsOurs, Behind, Pending
  <1> QED BY <1>2, <1>3 DEF MediaInv

LEMMA OperationKeeps ==
    ASSUME MediaInv, OperationStep
    PROVE  MediaInv'
  <1>1. CASE \/ AbortRename \/ InspectRename \/ InspectAliases \/ LockAliases \/ EndAliases
             \/ SelectDestination \/ SyncIndex
    BY <1>1, AbortRenameKeeps, InspectRenameKeeps, InspectAliasesKeeps, LockAliasesKeeps,
       EndAliasesKeeps, SelectDestinationKeeps, SyncIndexKeeps, Zenon
  <1>2. CASE \E c \in Outcomes(op.kind) : \/ CommitRename(c) \/ AnchorReferences(c)
                                          \/ FinalizeReferences(c) \/ RestoreReferences(c)
    BY <1>2, CommitRenameKeeps, AnchorReferencesKeeps, FinalizeReferencesKeeps, RestoreReferencesKeeps, Zenon
  <1>3. CASE \E done \in Unlinks : \/ DropTarget(done) \/ RemoveSource(done) \/ DropAnchor(done)
                                   \/ UnlinkMember(done) \/ DropRecovered(done) \/ RemoveAnchor(done)
    <2>1. PICK done \in BOOLEAN : \/ DropTarget(done) \/ RemoveSource(done) \/ DropAnchor(done)
                                  \/ UnlinkMember(done) \/ DropRecovered(done) \/ RemoveAnchor(done)
      BY <1>3, UnlinksType, Zenon
    <2> QED BY <2>1, DropTargetKeeps, RemoveSourceKeeps, DropAnchorKeeps, UnlinkMemberKeeps,
               DropRecoveredKeeps, RemoveAnchorKeeps, Zenon
  <1>4. CASE \E c \in Outcomes(op.kind), done \in Unlinks : VerifyDestination(c, done)
    BY <1>4, VerifyDestinationKeeps, UnlinksType, Zenon
  <1>5. CASE \E p \in Visible, done \in Unlinks : DeleteAlias(p, done)
    BY <1>5, DeleteAliasKeeps, UnlinksType, Zenon
  <1>6. CASE \E m \in Visible : CheckMember(m)
    BY <1>6, CheckMemberKeeps, Zenon
  <1> QED BY <1>1, <1>2, <1>3, <1>4, <1>5, <1>6, Zenon DEF OperationStep

\* The three ways to assign a reference differ in what they look at first.
LEMMA ReferencesAreSet ==
    ASSUME NEW o, NEW p, ManageReference(o, p) \/ RepairReference(o, p) \/ EditItem(o, p)
    PROVE  SetReference(o, p)
  BY Zenon DEF ManageReference, RepairReference, EditItem

LEMMA NextKeeps == MediaInv /\ [Next]_vars => MediaInv'
  <1> SUFFICES ASSUME MediaInv, [Next]_vars PROVE MediaInv'
    OBVIOUS
  <1>1. CASE OperationStep
    BY <1>1, OperationKeeps
  <1>2. CASE \E s \in Visible, t \in Paths : BeginRename(s, t)
    BY <1>2, BeginRenameKeeps, Zenon
  <1>3. CASE \E k \in Visible, c \in Outcomes("alias") : BeginAlias(k, c)
    BY <1>3, BeginAliasKeeps, Zenon
  <1>4. CASE \E k \in Visible, a \in Anchors : BeginDuplicate(k, a)
    BY <1>4, BeginDuplicateKeeps, Zenon
  <1>5. CASE \E a \in Anchors, r \in Spares : BeginRestore(a, r) \/ LeaveRecovered(a, r)
    BY <1>5, BeginRestoreKeeps, LeaveRecoveredKeeps, Zenon
  <1>6. CASE (\E a \in Anchors : DeleteAnchor(a)) \/ \E p \in Visible : DeleteDamaged(p)
    <2>1. \E p \in Names : DeleteUnreferenced(p)
      BY <1>6, NamesGive DEF DeleteAnchor, DeleteDamaged
    <2> QED BY <2>1, DeleteUnreferencedKeeps, Zenon
  <1>7. CASE \E o \in Objects, p \in Visible \cup {NoPath} :
                 ManageReference(o, p) \/ RepairReference(o, p) \/ EditItem(o, p)
    BY <1>7, ReferencesAreSet, SetReferenceKeeps, Zenon
  <1>8. CASE \E p \in Names, f \in Inodes \cup {NoFile} : Outsider(p, f)
    BY <1>8, OutsiderKeeps, Zenon
  <1>9. CASE UNCHANGED vars
    BY <1>9, UnchangedKeeps
  <1> QED BY <1>1, <1>2, <1>3, <1>4, <1>5, <1>6, <1>7, <1>8, <1>9, ManualRefreshKeeps, CrashKeeps, Zenon
          DEF Next

\* In every state of every run the invariant of the media operations holds.
THEOREM MediaHolds == Spec => []MediaInv
  <1>1. Init => MediaInv
    BY InitKeeps
  <1>2. MediaInv /\ [Next]_vars => MediaInv'
    BY NextKeeps
  <1> QED BY <1>1, <1>2, PTL DEF Spec

\* Every variable keeps its type, whatever fails, crashes or changes beside it.
THEOREM MediaTyped == Spec => []TypeOK
  <1>1. MediaInv => TypeOK
    BY DEF MediaInv, MediaTypes, TypeOK, FilesType, InodesOrNone, NamesOrNone, IndexType, OpType
  <1> QED BY <1>1, MediaHolds, PTL

\* Between operations a valid index shows exactly the files that are there, unless
\* a crash, another program or an invalidation that failed came between: the
\* outcome every operation reports says what the index needs.
THEOREM IndexIsFaithful == Spec => []IndexFaithful
  <1>1. MediaInv => IndexFaithful
    <2> SUFFICES ASSUME MediaInv, op = Idle, index.valid, ~unseen PROVE index.shown = Shown
      BY DEF IndexFaithful
    <2>1. \A p \in Visible : index.shown[p] = files[p]
      BY IdleIsOp DEF MediaInv, IndexTold, Behind, Pending
    <2>2. index.shown \in [Visible -> InodesOrNone]
      BY DEF MediaInv, MediaTypes, IndexType
    <2> QED BY <2>1, <2>2 DEF Shown
  <1> QED BY <1>1, MediaHolds, PTL

----------------------------------------------------------------------------
\* No operation takes the last name of a content.

\* A step that keeps every name that is there takes no content away.
LEMMA NothingGoes ==
    ASSUME MediaInv, \A n \in Names : files[n] # NoFile => files'[n] = files[n]
    PROVE  LastNameStays /\ AnchorGoesLast
  BY NamesGive, Zenon DEF LastNameStays, AnchorGoesLast

\* Nor does one that takes a name away while another keeps the content.
LEMMA OneGoes ==
    ASSUME MediaInv, NEW p \in Names, files' = [files EXCEPT ![p] = NoFile],
           NEW q \in Names, q # p, files[q] # NoFile, files[p] # NoFile => files[q].sha = files[p].sha
    PROVE  LastNameStays
  <1>1. \A n \in Names : files'[n] = IF n = p THEN NoFile ELSE files[n]
    BY TypesGive DEF MediaInv, FilesType
  <1> QED BY <1>1 DEF LastNameStays

\* A step that takes away a name that is not hidden leaves the anchors alone.
LEMMA AnchorsStay ==
    ASSUME MediaInv, NEW p \in Visible, NEW f, files' = [files EXCEPT ![p] = f]
    PROVE  AnchorGoesLast
  <1>1. \A a \in Anchors : files'[a] = files[a]
    BY NamesGive, TypesGive DEF MediaInv, FilesType
  <1> QED BY <1>1 DEF AnchorGoesLast

LEMMA RemoveSourceIsSafe ==
    ASSUME MediaInv, NEW done \in BOOLEAN, RemoveSource(done)
    PROVE  LastNameStays /\ AnchorGoesLast
  <1>1. op.src \in Visible /\ op.dst \in Visible /\ op.src # op.dst /\ op.inode \in Inodes
    BY NamesGive DEF MediaInv, Shapes, InRename, RemoveSource
  <1>2. CASE UNCHANGED files
    BY <1>2, NothingGoes
  <1>3. CASE files' = [files EXCEPT ![op.src] = NoFile] /\ files[op.src] = op.inode /\ files[op.dst] = op.inode
    BY <1>1, <1>3, OneGoes, AnchorsStay, NamesGive, NoFileIsMaybe
  <1> QED BY <1>2, <1>3, Zenon DEF RemoveSource

LEMMA DeleteAliasIsSafe ==
    ASSUME MediaInv, NEW p \in Visible, NEW done \in BOOLEAN, DeleteAlias(p, done)
    PROVE  LastNameStays /\ AnchorGoesLast
  <1>1. op.dst \in Visible /\ op.dst # p /\ op.inode \in Inodes
    BY DEF MediaInv, Shapes, InAlias, DeleteAlias
  <1>2. CASE UNCHANGED files
    BY <1>2, NothingGoes
  <1>3. CASE files' = [files EXCEPT ![p] = NoFile] /\ files[op.dst] = op.inode /\ files[p] = op.inode
    BY <1>1, <1>3, OneGoes, AnchorsStay, NamesGive, NoFileIsMaybe
  <1> QED BY <1>2, <1>3, Zenon DEF DeleteAlias

LEMMA UnlinkMemberIsSafe ==
    ASSUME MediaInv, NEW done \in BOOLEAN, UnlinkMember(done)
    PROVE  LastNameStays /\ AnchorGoesLast
  <1>1. op.cur \in Visible /\ op.src \in Anchors /\ op.cur # op.src /\ op.pc = "unlinking"
    BY UnlinkMemberGives, NamesGive
  <1>2. CASE UNCHANGED files
    BY <1>2, NothingGoes
  <1>3. CASE files' = [files EXCEPT ![op.cur] = NoFile] /\ files[op.cur].sha = op.was[op.src].sha
    <2>1. AnchorGoesLast
      BY <1>1, <1>3, AnchorsStay
    <2>2. op.was[op.src] \in Inodes
      BY <1>1 DEF MediaInv, Shapes, InCleanup
    <2>3. CASE files[op.src] = op.was[op.src]
      BY <1>1, <1>3, <2>1, <2>2, <2>3, OneGoes, NamesGive, NoFileIsMaybe
    <2>4. CASE files[op.src] # op.was[op.src]
      BY <1>1, <2>1, <2>4 DEF LastNameStays, AnchorIntact
    <2> QED BY <2>3, <2>4
  <1> QED BY <1>2, <1>3, UnlinkMemberGives

LEMMA VerifyDestinationIsSafe ==
    ASSUME MediaInv, NEW c, NEW done \in BOOLEAN, VerifyDestination(c, done)
    PROVE  LastNameStays /\ AnchorGoesLast
  <1>1. /\ op.src \in Anchors /\ op.dst \in Visible /\ op.src # op.dst
        /\ op.inode \in Inodes /\ op.inode.sha = op.was[op.src].sha
    BY NamesGive DEF MediaInv, Shapes, InCleanup, VerifyDestination
  <1>2. CASE UNCHANGED files
    BY <1>2, NothingGoes
  <1>3. CASE files' = [files EXCEPT ![op.src] = NoFile] /\ files[op.dst] = op.inode /\ HasGroupContent(op.src)
    <2>1. files[op.dst] # NoFile /\ files[op.dst].sha = files[op.src].sha
      BY <1>1, <1>3, NoFileIsMaybe DEF HasGroupContent
    <2>2. LastNameStays
      BY <1>1, <1>3, <2>1, OneGoes, NamesGive
    <2>3. \A n \in Names : files'[n] = IF n = op.src THEN NoFile ELSE files[n]
      BY <1>3, TypesGive DEF MediaInv, FilesType
    <2>4. files'[op.dst] # NoFile /\ files'[op.dst].sha = files[op.src].sha
      BY <1>1, <2>1, <2>3, NamesGive
    <2>5. AnchorGoesLast
      BY <2>3, <2>4, NamesGive DEF AnchorGoesLast
    <2> QED BY <2>2, <2>5
  <1> QED BY <1>2, <1>3, Zenon DEF VerifyDestination

LEMMA DropRecoveredIsSafe ==
    ASSUME MediaInv, NEW done \in BOOLEAN, DropRecovered(done)
    PROVE  LastNameStays /\ AnchorGoesLast
  <1>1. op.src \in Anchors /\ op.dst \in Visible /\ op.src # op.dst /\ op.inode \in Inodes
        /\ op.pc = "drop_recovered"
    BY NamesGive DEF MediaInv, Shapes, InRestore, DropRecovered
  <1>2. CASE UNCHANGED files
    BY <1>2, NothingGoes
  <1>3. CASE files' = [files EXCEPT ![op.dst] = NoFile] /\ files[op.dst] = op.inode
    <2>1. AnchorGoesLast
      BY <1>1, <1>3, AnchorsStay
    <2>2. CASE files[op.src] = op.inode
      BY <1>1, <1>3, <2>1, <2>2, OneGoes, NamesGive, NoFileIsMaybe
    <2>3. CASE files[op.src] # op.inode
      BY <1>1, <2>1, <2>3 DEF LastNameStays, AnchorIntact
    <2> QED BY <2>2, <2>3
  <1> QED BY <1>2, <1>3, Zenon DEF DropRecovered

LEMMA RemoveAnchorIsSafe ==
    ASSUME MediaInv, NEW done \in BOOLEAN, RemoveAnchor(done)
    PROVE  LastNameStays /\ AnchorGoesLast
  <1>1. op.src \in Anchors /\ op.dst \in Visible /\ op.src # op.dst /\ op.inode \in Inodes
        /\ op.kind = "restore"
    BY NamesGive DEF MediaInv, Shapes, InRestore, RemoveAnchor
  <1>2. CASE UNCHANGED files
    BY <1>2, NothingGoes
  <1>3. CASE files' = [files EXCEPT ![op.src] = NoFile] /\ files[op.src] = op.inode /\ files[op.dst] = op.inode
    <2>1. AnchorGoesLast
      BY <1>1 DEF AnchorGoesLast
    <2> QED BY <1>1, <1>3, <2>1, OneGoes, NamesGive, NoFileIsMaybe
  <1> QED BY <1>2, <1>3, Zenon DEF RemoveAnchor

\* The names an operation gives were free.
LEMMA NameGiven ==
    ASSUME MediaInv, NEW p \in Names, files[p] = NoFile, NEW f, files' = [files EXCEPT ![p] = f]
    PROVE  LastNameStays /\ AnchorGoesLast
  BY NothingGoes, TypesGive DEF MediaInv, FilesType

\* What begins an operation is not part of one.
LEMMA NoOperation ==
    ASSUME op = Idle
    PROVE  LastNameStays /\ AnchorGoesLast
  BY IdleIsOp DEF LastNameStays, AnchorGoesLast

LEMMA OperationIsSafe ==
    ASSUME MediaInv, OperationStep
    PROVE  LastNameStays /\ AnchorGoesLast
  <1>1. CASE UNCHANGED files
    BY <1>1, NothingGoes
  <1>2. CASE SelectDestination
    BY <1>1, <1>2, SelectDestinationGives, NameGiven, NamesGive
  <1>3. CASE \E done \in BOOLEAN : DropTarget(done) \/ DropAnchor(done)
    BY <1>3 DEF DropTarget, DropAnchor, LastNameStays, AnchorGoesLast, TakesBack
  <1>4. CASE \E done \in BOOLEAN : RemoveSource(done) \/ UnlinkMember(done) \/ DropRecovered(done)
                                       \/ RemoveAnchor(done)
    BY <1>4, RemoveSourceIsSafe, UnlinkMemberIsSafe, DropRecoveredIsSafe, RemoveAnchorIsSafe, Zenon
  <1>5. CASE \E c \in Outcomes(op.kind), done \in BOOLEAN : VerifyDestination(c, done)
    BY <1>5, VerifyDestinationIsSafe, Zenon
  <1>6. CASE \E p \in Visible, done \in BOOLEAN : DeleteAlias(p, done)
    BY <1>6, DeleteAliasIsSafe, Zenon
  <1>7. CASE \/ AbortRename \/ InspectRename \/ InspectAliases \/ LockAliases \/ EndAliases \/ SyncIndex
    BY <1>1, <1>7 DEF AbortRename, InspectRename, InspectAliases, LockAliases, EndAliases, SyncIndex
  <1>8. CASE \E c \in Outcomes(op.kind) : \/ CommitRename(c) \/ AnchorReferences(c)
                                          \/ FinalizeReferences(c) \/ RestoreReferences(c)
    BY <1>1, <1>8 DEF CommitRename, AnchorReferences, FinalizeReferences, RestoreReferences
  <1>9. CASE \E m \in Visible : CheckMember(m)
    BY <1>1, <1>9 DEF CheckMember
  <1> QED BY <1>2, <1>3, <1>4, <1>5, <1>6, <1>7, <1>8, <1>9, UnlinksType, Zenon DEF OperationStep

LEMMA NextIsSafe == MediaInv /\ [Next]_vars => LastNameStays /\ AnchorGoesLast
  <1> SUFFICES ASSUME MediaInv, [Next]_vars PROVE LastNameStays /\ AnchorGoesLast
    OBVIOUS
  <1>1. CASE OperationStep
    BY <1>1, OperationIsSafe
  <1>2. CASE op = Idle
    BY <1>2, NoOperation
  <1>3. CASE \E p \in Names, f \in Inodes \cup {NoFile} : Outsider(p, f)
    <2>1. strikes' # strikes
      BY <1>3, KindsAssumption DEF Outsider, MediaInv, MediaTypes
    <2> QED BY <2>1 DEF LastNameStays, AnchorGoesLast
  <1>4. CASE UNCHANGED files
    BY <1>4, NothingGoes
  <1>5. CASE \E o \in Objects, p \in Visible \cup {NoPath} :
                 ManageReference(o, p) \/ RepairReference(o, p) \/ EditItem(o, p)
    <2>1. \E o, p : SetReference(o, p)
      BY <1>5, ReferencesAreSet, Zenon
    <2> QED BY <1>4, <2>1 DEF SetReference
  <1>6. CASE Crash \/ UNCHANGED vars
    BY <1>4, <1>6 DEF Crash, vars
  <1>7. CASE \/ \E s \in Visible, t \in Paths : BeginRename(s, t)
             \/ \E k \in Visible, c \in Outcomes("alias") : BeginAlias(k, c)
             \/ \E k \in Visible, a \in Anchors : BeginDuplicate(k, a)
             \/ \E a \in Anchors, r \in Spares : BeginRestore(a, r) \/ LeaveRecovered(a, r)
             \/ \E a \in Anchors : DeleteAnchor(a)
             \/ \E p \in Visible : DeleteDamaged(p)
             \/ ManualRefresh
    BY <1>2, <1>7, Zenon DEF BeginRename, BeginAlias, BeginDuplicate, BeginRestore, LeaveRecovered, DeleteAnchor, DeleteDamaged,
                             DeleteUnreferenced, ManualRefresh
  <1> QED BY <1>1, <1>3, <1>5, <1>6, <1>7, Zenon DEF Next

\* Rename, normalisation, cleanup and restore never take away the last name of a
\* content, whatever other programs do to any name, the hidden anchors included,
\* except by the two steps that count on an anchor when that anchor was struck
\* (AnchorIntact) and by the roll-backs (TakesBack); and a cleanup lets its anchor
\* go only when the objects it leaves on the destination find the content there.
THEOREM ContentStays == Spec => ContentSurvives
  <1>1. MediaInv /\ [Next]_vars => [LastNameStays /\ AnchorGoesLast]_vars
    BY NextIsSafe
  <1> QED BY <1>1, MediaHolds, PTL DEF Spec, ContentSurvives

----------------------------------------------------------------------------
\* References keep their content as long as no other program changes the media
\* directory (strikes = 0).  Two more things would break it and are excluded:
\* a commit that is durable and raises where nothing inspects what became of it;
\* and an assignment beside an operation that may still take back a name it has
\* offered, or beside the unguarded counts of a duplicate cleanup.
NothingLost == LosingCommits \subseteq {"rename", "alias"}
NobodyInterferes == Assigning \cap (FailingCommits \cup LosingCommits \cup {"duplicate"}) = {}

\* No object that was given an existing file refers to name p.
NobodyMeans(p) == \A o \in Objects : refs[o] = p => meant[o] = NoFile

Kept ==
    \A o \in Objects : meant[o] # NoFile =>
        refs[o] \in Names /\ files[refs[o]] # NoFile /\ files[refs[o]].sha = meant[o]

RenameKeeps ==
    /\ op.pc = "linked" =>
          files[op.src] = op.inode /\ files[op.dst] = op.inode /\ NobodyMeans(op.dst)
    /\ op.pc \in {"inspect", "drop_target"} => "rename" \notin Assigning
    /\ op.pc = "drop_target" => NobodyMeans(op.dst)

AliasKeeps == op.pc = "aliases_locked" => \A p \in op.todo : NobodyMeans(p)

CleanupKeeps ==
    /\ op.pc \in {"anchored", "removing", "unlinking", "selected", "finalized"} =>
          files[op.src] = op.was[op.src]
    /\ op.pc \in {"anchored", "drop_anchor", "finalized"} => NobodyMeans(op.src)
    /\ op.pc = "anchored" => \A m \in op.todo : files[m] = op.was[m]
    /\ op.pc = "unlinking" => NobodyMeans(op.cur)
    /\ op.pc \in {"selected", "finalized"} => files[op.dst] = op.inode

RestoreKeeps ==
    /\ op.pc = "recovered" =>
          /\ files[op.src] = op.inode /\ files[op.dst] = op.inode
          /\ NobodyMeans(op.dst) \/ "restore" \in Assigning
    /\ op.pc = "drop_recovered" => NobodyMeans(op.dst) /\ "restore" \notin Assigning

MeantInv ==
    /\ strikes = 0 /\ Kept
    /\ RenameKeeps /\ AliasKeeps /\ CleanupKeeps /\ RestoreKeeps

LEMMA KeptMoves ==
    ASSUME Kept, NEW S, NEW p \in Names, refs' = Moved(S, p), UNCHANGED <<files, meant>>,
           \A q \in S : files[q] # NoFile => files[p] # NoFile /\ files[p].sha = files[q].sha
    PROVE  Kept'
  BY DEF Kept, Moved

LEMMA KeptUnlinked ==
    ASSUME Kept, files \in FilesType, NEW p \in Names, files' = [files EXCEPT ![p] = NoFile],
           NobodyMeans(p), UNCHANGED <<refs, meant>>
    PROVE  Kept'
  BY DEF Kept, NobodyMeans, FilesType

LEMMA KeptLinked ==
    ASSUME Kept, files \in FilesType, NEW p \in Names, files[p] = NoFile, NEW f,
           files' = [files EXCEPT ![p] = f], UNCHANGED <<refs, meant>>
    PROVE  Kept'
  BY DEF Kept, FilesType

LEMMA KeptSame ==
    ASSUME Kept, UNCHANGED <<files, refs, meant>>
    PROVE  Kept'
  BY DEF Kept

\* No object that is there is meant by a name without a file or without references.
LEMMA NobodyThere ==
    ASSUME NEW p, (Kept /\ files[p] = NoFile) \/ RefsTo(p) = {}
    PROVE  NobodyMeans(p)
  BY DEF Kept, NobodyMeans, RefsTo

\* Nobody means a name the references have been moved away from.
LEMMA NobodyLeft ==
    ASSUME NEW S, NEW p, p \notin S, refs' = Moved(S, p), NEW q \in S
    PROVE  NobodyMeans(q)'
  BY DEF NobodyMeans, Moved

LEMMA NobodyStays ==
    ASSUME NEW p, NobodyMeans(p), UNCHANGED <<refs, meant>>
    PROVE  \A o \in Objects : refs'[o] = p => meant'[o] = NoFile
  BY DEF NobodyMeans

\* At these steps an operation counts on nothing but its references.
Settled == {"idle", "classified", "migrated", "normalized", "inspect_aliases", "restored"}

LEMMA MeantSettles ==
    ASSUME op'.pc \in Settled, Kept', MeantInv, UNCHANGED strikes
    PROVE  MeantInv'
  BY DEF MeantInv, Settled, RenameKeeps, AliasKeeps, CleanupKeeps, RestoreKeeps

\* A cleanup between two members counts on its anchor only.
LEMMA MeantRemoving ==
    ASSUME op'.pc = "removing", Kept', MeantInv, UNCHANGED strikes, files'[op'.src] = op'.was[op'.src]
    PROVE  MeantInv'
  BY DEF MeantInv, RenameKeeps, AliasKeeps, CleanupKeeps, RestoreKeeps

LEMMA FinishSettles ==
    ASSUME MediaInv, NEW result, Finish(result)
    PROVE  op'.pc \in Settled
  BY TypesGive DEF MediaInv, Finish, OpType, Settled

LEMMA OutcomesGive ==
    ASSUME NEW kind, NEW c \in Outcomes(kind)
    PROVE  \/ c = "ok"
           \/ c = "failed" /\ kind \in FailingCommits
           \/ c = "lost" /\ kind \in LosingCommits
  <1>1. \/ c \in {"ok"}
        \/ c \in (IF kind \in FailingCommits THEN {"failed"} ELSE {})
        \/ c \in (IF kind \in LosingCommits THEN {"lost"} ELSE {})
    BY Zenon DEF Outcomes
  <1>2. c \in (IF kind \in FailingCommits THEN {"failed"} ELSE {}) => c = "failed" /\ kind \in FailingCommits
    BY Zenon
  <1>3. c \in (IF kind \in LosingCommits THEN {"lost"} ELSE {}) => c = "lost" /\ kind \in LosingCommits
    BY Zenon
  <1> QED BY <1>1, <1>2, <1>3, Zenon

----------------------------------------------------------------------------
LEMMA BeginRenameMeant ==
    ASSUME MediaInv, MeantInv, NEW s \in Visible, NEW t \in Paths, BeginRename(s, t)
    PROVE  MeantInv'
  <1>1. /\ files[s] \in Inodes /\ files[t] = NoFile /\ s # t /\ s \in Names /\ t \in Names
        /\ files' = [files EXCEPT ![t] = files[s]] /\ RefsTo(t) = {}
        /\ UNCHANGED <<refs, meant, strikes>>
    BY NamesGive, TypesGive DEF MediaInv, BeginRename, Healthy, InodesOrNone
  <1>2. op'.pc = "linked" /\ op'.src = s /\ op'.dst = t /\ op'.inode = files[s]
    BY DEF BeginRename, Idle
  <1>3. files'[s] = files[s] /\ files'[t] = files[s]
    BY <1>1, TypesGive DEF MediaInv, FilesType
  <1>4. Kept'
    BY <1>1, KeptLinked, TypesGive DEF MediaInv, MeantInv
  <1>5. NobodyMeans(t)
    BY <1>1, NobodyThere
  <1> QED BY <1>1, <1>2, <1>3, <1>4, <1>5 DEF MeantInv, RenameKeeps, AliasKeeps, CleanupKeeps, RestoreKeeps,
                                              NobodyMeans

LEMMA AbortRenameMeant ==
    ASSUME NobodyInterferes, MediaInv, MeantInv, AbortRename
    PROVE  MeantInv'
  <1>1. op.pc = "linked" /\ op' = [op EXCEPT !.pc = "drop_target"]
        /\ UNCHANGED <<files, refs, index, meant, unseen, strikes>> /\ "rename" \in FailingCommits
    BY DEF MeantInv, RenameKeeps, AbortRename
  <1>2. op'.pc = "drop_target" /\ op'.dst = op.dst
    BY <1>1, PcGives, TypesGive DEF MediaInv, Steps
  <1>3. Kept' /\ NobodyMeans(op.dst) /\ "rename" \notin Assigning
    BY <1>1, KeptSame DEF MeantInv, RenameKeeps, NobodyInterferes
  <1> QED BY <1>1, <1>2, <1>3 DEF MeantInv, RenameKeeps, AliasKeeps, CleanupKeeps, RestoreKeeps, NobodyMeans

LEMMA CommitRenameMeant ==
    ASSUME NobodyInterferes, MediaInv, MeantInv, NEW c \in Outcomes(op.kind), CommitRename(c)
    PROVE  MeantInv'
  <1>1. /\ op.pc = "linked" /\ files[op.src] = op.inode /\ files[op.dst] = op.inode
        /\ op.dst \in Names /\ op.inode \in Inodes /\ op.kind = "rename" /\ op \in OpType
        /\ UNCHANGED <<files, index, meant, unseen, strikes>>
    BY NamesGive, TypesGive DEF MediaInv, Shapes, InRename, CommitRename
  <1>2. Kept'
    <2>1. CASE refs' = Moved({op.src}, op.dst)
      BY <1>1, <2>1, KeptMoves DEF MeantInv
    <2>2. CASE UNCHANGED refs
      BY <1>1, <2>2, KeptSame DEF MeantInv
    <2> QED BY <2>1, <2>2 DEF CommitRename
  <1>3. CASE c = "ok"
    <2>1. op'.pc = "migrated"
      BY <1>1, <1>3 DEF CommitRename, OpType
    <2> QED BY <1>1, <1>2, <2>1, MeantSettles DEF Settled
  <1>4. CASE c # "ok"
    <2>1. op'.pc = "inspect"
      BY <1>1, <1>4 DEF CommitRename, OpType
    <2>2. "rename" \notin Assigning
      BY <1>1, <1>4, OutcomesGive DEF NobodyInterferes
    <2> QED BY <1>1, <1>2, <2>1, <2>2
            DEF MeantInv, RenameKeeps, AliasKeeps, CleanupKeeps, RestoreKeeps
  <1> QED BY <1>3, <1>4

LEMMA InspectRenameMeant ==
    ASSUME MediaInv, MeantInv, InspectRename
    PROVE  MeantInv'
  <1>1. op.pc = "inspect" /\ UNCHANGED <<files, refs, index, meant, unseen, strikes>>
    BY DEF InspectRename
  <1>2. Kept'
    BY <1>1, KeptSame DEF MeantInv
  <1>3. CASE NotCommitted /\ op' = [op EXCEPT !.pc = "drop_target"]
    <2>1. op'.pc = "drop_target" /\ op'.dst = op.dst
      BY <1>3, PcGives, TypesGive DEF MediaInv, Steps
    <2>2. NobodyMeans(op.dst)
      BY <1>3, NobodyThere DEF NotCommitted
    <2> QED BY <1>1, <1>2, <2>1, <2>2
            DEF MeantInv, RenameKeeps, AliasKeeps, CleanupKeeps, RestoreKeeps, NobodyMeans
  <1>4. CASE \E result : Finish(result)
    BY <1>1, <1>2, <1>4, FinishSettles, MeantSettles
  <1> QED BY <1>3, <1>4, Zenon DEF InspectRename

LEMMA DropTargetMeant ==
    ASSUME MediaInv, MeantInv, NEW done \in BOOLEAN, DropTarget(done)
    PROVE  MeantInv'
  <1>1. /\ op.pc = "drop_target" /\ UNCHANGED <<refs, index, meant, unseen, strikes>>
        /\ \E result : Finish(result)
    BY Zenon DEF DropTarget
  <1>2. op.dst \in Names /\ NobodyMeans(op.dst)
    BY <1>1, NamesGive DEF MediaInv, Shapes, InRename, MeantInv, RenameKeeps
  <1>3. CASE UNCHANGED files
    BY <1>1, <1>3, KeptSame, FinishSettles, MeantSettles DEF MeantInv
  <1>4. CASE files' = [files EXCEPT ![op.dst] = NoFile]
    BY <1>1, <1>2, <1>4, KeptUnlinked, FinishSettles, MeantSettles, TypesGive DEF MeantInv, MediaInv
  <1> QED BY <1>3, <1>4 DEF DropTarget

LEMMA RemoveSourceMeant ==
    ASSUME MediaInv, MeantInv, NEW done \in BOOLEAN, RemoveSource(done)
    PROVE  MeantInv'
  <1>1. /\ op.pc = "migrated" /\ UNCHANGED <<refs, index, meant, unseen, strikes>>
        /\ Finish("changed")
    BY DEF RemoveSource
  <1>2. op.src \in Names
    BY <1>1, NamesGive DEF MediaInv, Shapes, InRename
  <1>3. CASE UNCHANGED files
    BY <1>1, <1>3, KeptSame, FinishSettles, MeantSettles DEF MeantInv
  <1>4. CASE SourceIsFree /\ files' = [files EXCEPT ![op.src] = NoFile]
    <2>1. NobodyMeans(op.src)
      BY <1>4, NobodyThere DEF SourceIsFree
    <2> QED BY <1>1, <1>2, <1>4, <2>1, KeptUnlinked, FinishSettles, MeantSettles, TypesGive DEF MeantInv, MediaInv
  <1> QED BY <1>3, <1>4, Zenon DEF RemoveSource

----------------------------------------------------------------------------
LEMMA BeginAliasMeant ==
    ASSUME MediaInv, MeantInv, NEW k \in Visible, NEW c \in Outcomes("alias"), BeginAlias(k, c)
    PROVE  MeantInv'
  <1>1. UNCHANGED <<files, index, meant, unseen, strikes>> /\ k \in Names
    BY NamesGive DEF BeginAlias
  <1>2. PICK S : /\ \A q \in S : files[q] = files[k]
                 /\ refs' = IF Applied(c) THEN Moved(S, k) ELSE refs
    BY DEF BeginAlias
  <1>3. Kept'
    <2>1. CASE refs' = Moved(S, k)
      BY <1>1, <1>2, <2>1, KeptMoves DEF MeantInv
    <2>2. CASE UNCHANGED refs
      BY <1>1, <2>2, KeptSame DEF MeantInv
    <2> QED BY <1>2, <2>1, <2>2
  <1>4. op'.pc \in Settled
    BY DEF BeginAlias, Idle, Settled
  <1> QED BY <1>1, <1>3, <1>4, MeantSettles

LEMMA InspectAliasesMeant ==
    ASSUME MediaInv, MeantInv, InspectAliases
    PROVE  MeantInv'
  <1>1. UNCHANGED <<files, refs, index, meant, unseen, strikes>>
    BY DEF InspectAliases
  <1>2. op' = [op EXCEPT !.pc = "normalized"] \/ \E result : Finish(result)
    BY Zenon DEF InspectAliases
  <1>3. op'.pc \in Settled
    BY <1>2, FinishSettles, TypesGive DEF MediaInv, OpType, Settled
  <1> QED BY <1>1, <1>3, KeptSame, MeantSettles DEF MeantInv

LEMMA LockAliasesMeant ==
    ASSUME MediaInv, MeantInv, LockAliases
    PROVE  MeantInv'
  <1>1. UNCHANGED <<files, refs, index, meant, unseen, strikes>>
    BY DEF LockAliases
  <1>2. Kept'
    BY <1>1, KeptSame DEF MeantInv
  <1>3. CASE AliasesCommitted /\ op' = [op EXCEPT !.pc = "aliases_locked", !.todo = @ \ {op.dst}]
    <2>1. op'.pc = "aliases_locked" /\ op'.todo = op.todo \ {op.dst}
      BY <1>3, TypesGive DEF MediaInv, OpType
    <2>2. \A p \in op'.todo : RefsTo(p) = {}
      BY <1>3, <2>1 DEF AliasesCommitted
    <2>3. \A p \in op'.todo : NobodyMeans(p)
      BY <2>2, NobodyThere
    <2> QED BY <1>1, <1>2, <2>1, <2>3
            DEF MeantInv, RenameKeeps, AliasKeeps, CleanupKeeps, RestoreKeeps, NobodyMeans
  <1>4. CASE Finish("unchanged")
    BY <1>1, <1>2, <1>4, FinishSettles, MeantSettles
  <1> QED BY <1>3, <1>4, Zenon DEF LockAliases

LEMMA DeleteAliasMeant ==
    ASSUME MediaInv, MeantInv, NEW p \in Visible, NEW done \in BOOLEAN, DeleteAlias(p, done)
    PROVE  MeantInv'
  <1>1. op.pc = "aliases_locked" /\ p \in op.todo /\ UNCHANGED <<refs, index, meant, unseen, strikes>>
    BY DEF DeleteAlias
  <1>2. op'.pc = "aliases_locked" /\ op'.todo \subseteq op.todo
    BY <1>1, TypesGive DEF MediaInv, DeleteAlias, OpType
  <1>3. NobodyMeans(p) /\ \A q \in op.todo : NobodyMeans(q)
    BY <1>1 DEF MeantInv, AliasKeeps
  <1>4. Kept'
    <2>1. CASE UNCHANGED files
      BY <1>1, <2>1, KeptSame DEF MeantInv
    <2>2. CASE files' = [files EXCEPT ![p] = NoFile]
      BY <1>1, <1>3, <2>2, KeptUnlinked, TypesGive, NamesGive DEF MeantInv, MediaInv
    <2> QED BY <2>1, <2>2, Zenon DEF DeleteAlias
  <1> QED BY <1>1, <1>2, <1>3, <1>4
          DEF MeantInv, RenameKeeps, AliasKeeps, CleanupKeeps, RestoreKeeps, NobodyMeans

LEMMA EndAliasesMeant ==
    ASSUME MediaInv, MeantInv, EndAliases
    PROVE  MeantInv'
  BY FinishSettles, KeptSame, MeantSettles DEF EndAliases, MeantInv

----------------------------------------------------------------------------
LEMMA BeginDuplicateMeant ==
    ASSUME MediaInv, MeantInv, NEW k \in Visible, NEW a \in Anchors, BeginDuplicate(k, a)
    PROVE  MeantInv'
  <1>1. /\ UNCHANGED <<refs, index, meant, unseen, strikes>> /\ files[a] = NoFile
        /\ \E f : files' = [files EXCEPT ![a] = f]
    BY DEF BeginDuplicate
  <1>2. /\ op'.pc = "anchored" /\ op'.src = a /\ op'.was = files' /\ op'.todo \subseteq Visible
    BY DEF BeginDuplicate, Idle
  <1>3. Kept' /\ \A p \in Visible : files'[p] = files[p]
    BY <1>1, KeptLinked, TypesGive, NamesGive DEF MeantInv, MediaInv, FilesType
  <1>4. NobodyMeans(a)
    BY <1>1, NobodyThere DEF MeantInv
  <1> QED BY <1>1, <1>2, <1>3, <1>4
          DEF MeantInv, RenameKeeps, AliasKeeps, CleanupKeeps, RestoreKeeps, NobodyMeans

LEMMA AnchorReferencesMeant ==
    ASSUME NothingLost, MediaInv, MeantInv, NEW c \in Outcomes(op.kind), AnchorReferences(c)
    PROVE  MeantInv'
  <1>1. /\ op.pc = "anchored" /\ UNCHANGED <<files, index, meant, unseen, strikes>>
        /\ op.src \in Names /\ files[op.src] = op.was[op.src] /\ files[op.src] # NoFile
        /\ op.kind = "duplicate" /\ op \in OpType
        /\ \A m \in op.todo : files[m] = op.was[m] /\ op.was[m].sha = files[op.src].sha
        /\ NobodyMeans(op.src)
    BY NamesGive, NoFileIsMaybe, TypesGive
    DEF MediaInv, Shapes, InCleanup, AnchorReferences, MeantInv, CleanupKeeps
  <1>2. CASE c = "ok"
    <2>1. refs' = Moved(op.todo, op.src) /\ op' = [op EXCEPT !.pc = "removing", !.todo = @ \ {op.dst}]
      BY <1>2 DEF AnchorReferences, Applied
    <2>2. Kept'
      BY <1>1, <2>1, KeptMoves DEF MeantInv
    <2>3. op'.pc = "removing" /\ op'.src = op.src /\ op'.was = op.was
      BY <1>1, <2>1 DEF OpType
    <2> QED BY <1>1, <2>2, <2>3, MeantRemoving
  <1>3. CASE c # "ok"
    <2>1. c = "failed"
      BY <1>1, <1>3, OutcomesGive DEF NothingLost
    <2>2. UNCHANGED refs /\ op' = [op EXCEPT !.pc = "drop_anchor"]
      BY <1>3, <2>1 DEF AnchorReferences, Applied
    <2>3. op'.pc = "drop_anchor" /\ op'.src = op.src
      BY <1>1, <2>2 DEF OpType
    <2>4. Kept'
      BY <1>1, <2>2, KeptSame DEF MeantInv
    <2> QED BY <1>1, <2>2, <2>3, <2>4
            DEF MeantInv, RenameKeeps, AliasKeeps, CleanupKeeps, RestoreKeeps, NobodyMeans
  <1> QED BY <1>2, <1>3

LEMMA DropAnchorMeant ==
    ASSUME MediaInv, MeantInv, NEW done \in BOOLEAN, DropAnchor(done)
    PROVE  MeantInv'
  <1>1. /\ op.pc = "drop_anchor" /\ UNCHANGED <<refs, index, meant, unseen, strikes>>
        /\ \E result : Finish(result)
    BY Zenon DEF DropAnchor
  <1>2. op.src \in Names /\ NobodyMeans(op.src)
    BY <1>1, NamesGive DEF MediaInv, Shapes, InCleanup, MeantInv, CleanupKeeps
  <1>3. CASE UNCHANGED files
    BY <1>1, <1>3, KeptSame, FinishSettles, MeantSettles DEF MeantInv
  <1>4. CASE files' = [files EXCEPT ![op.src] = NoFile]
    BY <1>1, <1>2, <1>4, KeptUnlinked, FinishSettles, MeantSettles, TypesGive DEF MeantInv, MediaInv
  <1> QED BY <1>3, <1>4 DEF DropAnchor

LEMMA CheckMemberMeant ==
    ASSUME MediaInv, MeantInv, NEW m \in Visible, CheckMember(m)
    PROVE  MeantInv'
  <1>1. UNCHANGED <<files, refs, index, meant, unseen, strikes>>
    BY DEF CheckMember
  <1>2. Kept'
    BY <1>1, KeptSame DEF MeantInv
  <1>3. CASE RefsTo(m) = {} /\ op' = [op EXCEPT !.pc = "unlinking", !.cur = m]
    <2>1. op'.pc = "unlinking" /\ op'.cur = m /\ op'.src = op.src /\ op'.was = op.was /\ op.pc = "removing"
      BY <1>3, TypesGive DEF MediaInv, OpType, CheckMember
    <2>2. NobodyMeans(m)
      BY <1>3, NobodyThere
    <2> QED BY <1>1, <1>2, <2>1, <2>2
            DEF MeantInv, RenameKeeps, AliasKeeps, CleanupKeeps, RestoreKeeps, NobodyMeans
  <1>4. CASE op' = [op EXCEPT !.todo = @ \ {m}]
    <2>1. op'.pc = "removing" /\ op'.src = op.src /\ op'.was = op.was /\ op.pc = "removing"
      BY <1>4, TypesGive DEF MediaInv, OpType, CheckMember
    <2> QED BY <1>1, <1>2, <2>1, MeantRemoving DEF MeantInv, CleanupKeeps
  <1> QED BY <1>3, <1>4, Zenon DEF CheckMember

LEMMA UnlinkMemberMeant ==
    ASSUME MediaInv, MeantInv, NEW done \in BOOLEAN, UnlinkMember(done)
    PROVE  MeantInv'
  <1>1. /\ op.pc = "unlinking" /\ UNCHANGED <<refs, index, meant, unseen, strikes>>
        /\ op.cur \in Names /\ op.src \in Names /\ op.src # op.cur
        /\ UNCHANGED files \/ files' = [files EXCEPT ![op.cur] = NoFile]
    BY UnlinkMemberGives, NamesGive
  <1>2. NobodyMeans(op.cur)
    BY <1>1 DEF MeantInv, CleanupKeeps
  <1>3. op'.pc = "removing" /\ op'.src = op.src /\ op'.was = op.was
    BY UnlinkMemberGives, TypesGive DEF MediaInv, OpType
  <1>4. Kept'
    BY <1>1, <1>2, KeptSame, KeptUnlinked, TypesGive DEF MeantInv, MediaInv
  <1>5. files'[op.src] = op.was[op.src]
    BY <1>1, TypesGive DEF MediaInv, FilesType, MeantInv, CleanupKeeps
  <1> QED BY <1>1, <1>3, <1>4, <1>5, MeantRemoving

LEMMA SelectDestinationMeant ==
    ASSUME MediaInv, MeantInv, SelectDestination
    PROVE  MeantInv'
  <1>1. /\ UNCHANGED <<refs, index, meant, unseen, strikes>> /\ op.src \in Anchors
        /\ files[op.src] = op.was[op.src]
    BY SelectDestinationGives DEF MeantInv, CleanupKeeps
  <1>2. CASE UNCHANGED files /\ Finish("changed")
    BY <1>1, <1>2, KeptSame, FinishSettles, MeantSettles DEF MeantInv
  <1>3. ASSUME NEW p \in Visible, NEW f \in Inodes,
               op' = [op EXCEPT !.pc = "selected", !.dst = p, !.inode = f],
               \/ UNCHANGED files /\ files[p] = f
               \/ files[p] = NoFile /\ files' = [files EXCEPT ![p] = f]
        PROVE  MeantInv'
    <2>1. op'.pc = "selected" /\ op'.dst = p /\ op'.inode = f /\ op'.src = op.src /\ op'.was = op.was
      BY <1>3, TypesGive DEF MediaInv, OpType
    <2>2. Kept' /\ files'[p] = f /\ files'[op.src] = files[op.src]
      BY <1>1, <1>3, KeptSame, KeptLinked, TypesGive, NamesGive DEF MeantInv, MediaInv, FilesType
    <2> QED BY <1>1, <2>1, <2>2 DEF MeantInv, RenameKeeps, AliasKeeps, CleanupKeeps, RestoreKeeps
  <1> QED BY <1>2, <1>3, SelectDestinationGives

LEMMA FinalizeReferencesMeant ==
    ASSUME MediaInv, MeantInv, NEW c, FinalizeReferences(c)
    PROVE  MeantInv'
  <1>1. /\ op.pc = "selected" /\ UNCHANGED <<files, index, meant, unseen, strikes>>
        /\ op.src \in Anchors /\ op.dst \in Visible /\ op.src # op.dst
        /\ files[op.dst] = op.inode /\ op.inode \in Inodes /\ op.inode.sha = files[op.src].sha
        /\ files[op.src] = op.was[op.src]
    BY NamesGive DEF FinalizeReferences, MediaInv, Shapes, InCleanup, MeantInv, CleanupKeeps
  <1>2. Kept'
    <2>1. CASE refs' = Moved({op.src}, op.dst)
      BY <1>1, <2>1, KeptMoves, NamesGive, NoFileIsMaybe DEF MeantInv
    <2>2. CASE UNCHANGED refs
      BY <1>1, <2>2, KeptSame DEF MeantInv
    <2> QED BY <2>1, <2>2 DEF FinalizeReferences
  <1>3. CASE c = "ok"
    <2>1. refs' = Moved({op.src}, op.dst) /\ op' = [op EXCEPT !.pc = "finalized"]
      BY <1>3 DEF FinalizeReferences, Applied
    <2>2. /\ op'.pc = "finalized" /\ op'.src = op.src /\ op'.dst = op.dst /\ op'.inode = op.inode
          /\ op'.was = op.was
      BY <2>1, PcGives, TypesGive DEF MediaInv, Steps
    <2>3. \A o \in Objects : refs'[o] # op.src
      BY <1>1, <2>1 DEF Moved
    <2> QED BY <1>1, <1>2, <2>2, <2>3
            DEF MeantInv, RenameKeeps, AliasKeeps, CleanupKeeps, RestoreKeeps, NobodyMeans
  <1>4. CASE c # "ok"
    BY <1>1, <1>2, <1>4, FinishSettles, MeantSettles DEF FinalizeReferences
  <1> QED BY <1>3, <1>4

LEMMA VerifyDestinationMeant ==
    ASSUME MediaInv, MeantInv, NEW c, NEW done \in BOOLEAN, VerifyDestination(c, done)
    PROVE  MeantInv'
  <1>1. op.pc = "finalized" /\ Finish("changed") /\ UNCHANGED <<index, meant, unseen, strikes>>
    BY DEF VerifyDestination
  <1>2. op.src \in Names /\ files[op.dst] = op.inode /\ NobodyMeans(op.src)
    BY <1>1, NamesGive DEF MediaInv, Shapes, InCleanup, MeantInv, CleanupKeeps
  <1>3. UNCHANGED refs /\ (UNCHANGED files \/ files' = [files EXCEPT ![op.src] = NoFile])
    BY <1>2 DEF VerifyDestination
  <1>4. Kept'
    BY <1>1, <1>2, <1>3, KeptSame, KeptUnlinked, TypesGive DEF MeantInv, MediaInv
  <1> QED BY <1>1, <1>4, FinishSettles, MeantSettles

----------------------------------------------------------------------------
LEMMA BeginRestoreMeant ==
    ASSUME MediaInv, MeantInv, NEW a \in Anchors, NEW r \in Spares, BeginRestore(a, r)
    PROVE  MeantInv'
  <1>1. /\ files[r] = NoFile /\ r \in Names /\ a \in Names /\ a # r /\ files' = [files EXCEPT ![r] = files[a]]
        /\ UNCHANGED <<refs, index, meant, unseen, strikes>>
    BY NamesGive DEF BeginRestore
  <1>2. op'.pc = "recovered" /\ op'.src = a /\ op'.dst = r /\ op'.inode = files[a]
    BY DEF BeginRestore, Idle
  <1>3. Kept' /\ files'[r] = files[a] /\ files'[a] = files[a]
    BY <1>1, KeptLinked, TypesGive DEF MeantInv, MediaInv, FilesType
  <1>4. NobodyMeans(r)
    BY <1>1, NobodyThere DEF MeantInv
  <1> QED BY <1>1, <1>2, <1>3, <1>4
          DEF MeantInv, RenameKeeps, AliasKeeps, CleanupKeeps, RestoreKeeps, NobodyMeans

LEMMA LeaveRecoveredMeant ==
    ASSUME MediaInv, MeantInv, NEW a \in Anchors, NEW r \in Spares, LeaveRecovered(a, r)
    PROVE  MeantInv'
  <1>1. /\ files[r] = NoFile /\ r \in Names /\ files' = [files EXCEPT ![r] = files[a]]
        /\ UNCHANGED <<refs, index, meant, strikes>>
    BY NamesGive DEF LeaveRecovered
  <1>2. op'.pc \in Settled
    BY DEF LeaveRecovered, Idle, Settled
  <1>3. Kept'
    BY <1>1, KeptLinked, TypesGive DEF MeantInv, MediaInv
  <1> QED BY <1>1, <1>2, <1>3, MeantSettles

LEMMA RestoreReferencesMeant ==
    ASSUME NothingLost, NobodyInterferes, MediaInv, MeantInv, NEW c \in Outcomes(op.kind),
           RestoreReferences(c)
    PROVE  MeantInv'
  <1>1. /\ op.pc = "recovered" /\ UNCHANGED <<files, index, meant, unseen, strikes>>
        /\ op.kind = "restore" /\ op.src \in Anchors /\ op.dst \in Visible /\ op \in OpType
        /\ files[op.src] = op.inode /\ files[op.dst] = op.inode /\ op.inode \in Inodes
    BY NamesGive, TypesGive DEF RestoreReferences, MediaInv, Shapes, InRestore, MeantInv, RestoreKeeps
  <1>2. CASE c = "ok"
    <2>1. refs' = Moved({op.src}, op.dst) /\ op' = [op EXCEPT !.pc = "restored"]
      BY <1>1, <1>2 DEF RestoreReferences, Applied
    <2>2. Kept'
      BY <1>1, <2>1, KeptMoves, NamesGive DEF MeantInv
    <2>3. op'.pc \in Settled
      BY <1>1, <2>1 DEF OpType, Settled
    <2> QED BY <1>1, <2>2, <2>3, MeantSettles
  <1>3. CASE c # "ok"
    <2>1. c = "failed" /\ "restore" \in FailingCommits
      BY <1>1, <1>3, OutcomesGive DEF NothingLost
    <2>2. UNCHANGED refs /\ op' = [op EXCEPT !.pc = "drop_recovered"]
      BY <2>1 DEF RestoreReferences, Applied
    <2>3. op'.pc = "drop_recovered" /\ op'.dst = op.dst
      BY <1>1, <2>2 DEF OpType
    <2>4. "restore" \notin Assigning /\ NobodyMeans(op.dst)
      BY <1>1, <2>1 DEF NobodyInterferes, MeantInv, RestoreKeeps
    <2>5. Kept'
      BY <1>1, <2>2, KeptSame DEF MeantInv
    <2> QED BY <1>1, <2>2, <2>3, <2>4, <2>5
            DEF MeantInv, RenameKeeps, AliasKeeps, CleanupKeeps, RestoreKeeps, NobodyMeans
  <1> QED BY <1>2, <1>3

LEMMA DropRecoveredMeant ==
    ASSUME MediaInv, MeantInv, NEW done \in BOOLEAN, DropRecovered(done)
    PROVE  MeantInv'
  <1>1. /\ op.pc = "drop_recovered" /\ UNCHANGED <<refs, index, meant, unseen, strikes>>
        /\ \E result : Finish(result)
        /\ UNCHANGED files \/ files' = [files EXCEPT ![op.dst] = NoFile]
    BY Zenon DEF DropRecovered
  <1>2. op.dst \in Names /\ NobodyMeans(op.dst)
    BY <1>1, NamesGive DEF MediaInv, Shapes, InRestore, MeantInv, RestoreKeeps
  <1>3. Kept'
    BY <1>1, <1>2, KeptSame, KeptUnlinked, TypesGive DEF MeantInv, MediaInv
  <1> QED BY <1>1, <1>3, FinishSettles, MeantSettles

LEMMA RemoveAnchorMeant ==
    ASSUME MediaInv, MeantInv, NEW done \in BOOLEAN, RemoveAnchor(done)
    PROVE  MeantInv'
  <1>1. /\ op.pc = "restored" /\ UNCHANGED <<refs, index, meant, unseen, strikes>>
        /\ Finish("changed")
        /\ UNCHANGED files \/ (RefsTo(op.src) = {} /\ files' = [files EXCEPT ![op.src] = NoFile])
    BY Zenon DEF RemoveAnchor
  <1>2. op.src \in Names
    BY <1>1, NamesGive DEF MediaInv, Shapes, InRestore
  <1>3. Kept'
    BY <1>1, <1>2, KeptSame, KeptUnlinked, NobodyThere, TypesGive DEF MeantInv, MediaInv
  <1> QED BY <1>1, <1>3, FinishSettles, MeantSettles

LEMMA DeleteUnreferencedMeant ==
    ASSUME MediaInv, MeantInv, NEW p \in Names, DeleteUnreferenced(p)
    PROVE  MeantInv'
  <1>1. /\ UNCHANGED <<refs, index, meant, unseen, strikes>> /\ NobodyMeans(p)
        /\ files' = [files EXCEPT ![p] = NoFile]
    BY NobodyThere DEF DeleteUnreferenced
  <1>2. op'.pc \in Settled
    BY DEF DeleteUnreferenced, Idle, Settled
  <1> QED BY <1>1, <1>2, KeptUnlinked, MeantSettles, TypesGive DEF MeantInv, MediaInv

----------------------------------------------------------------------------
\* No reference is assigned where an operation counts on nobody's assigning one.
LEMMA SetReferenceMeant ==
    ASSUME NobodyInterferes, MediaInv, MeantInv, NEW o \in Objects, NEW p \in Visible \cup {NoPath},
           SetReference(o, p)
    PROVE  MeantInv'
  <1>1. UNCHANGED <<files, index, op, unseen, strikes>> /\ op.kind \in Assigning /\ ~Locked
    BY DEF SetReference
  <1>2. Kept'
    <2>1. /\ \A q \in Objects : q # o => refs'[q] = refs[q] /\ meant'[q] = meant[q]
          /\ refs'[o] = p /\ meant'[o] = IF p = NoPath \/ files[p] = NoFile THEN NoFile ELSE files[p].sha
      BY DEF SetReference, MediaInv, MediaTypes
    <2>2. p = NoPath \/ p \in Names
      BY NamesGive
    <2> QED BY <1>1, <2>1, <2>2 DEF MeantInv, Kept
  <1>3. op.pc \in Settled \cup {"inspect", "recovered"}
    <2>1. op.pc \in Steps /\ "duplicate" \notin Assigning
      BY <1>1, TypesGive DEF MediaInv, OpType, NobodyInterferes
    <2>2. op.pc \notin {"anchored", "drop_anchor", "removing", "unlinking", "selected", "finalized"}
      BY <1>1, <2>1 DEF MediaInv, Shapes, InCleanup
    <2>3. op.pc \notin {"drop_target", "drop_recovered"}
      BY <1>1 DEF MediaInv, Shapes, InRename, InRestore, MeantInv, RenameKeeps, RestoreKeeps
    <2> QED BY <1>1, <2>1, <2>2, <2>3 DEF Locked, Steps, Settled
  <1>4. op.pc = "recovered" => "restore" \in Assigning
    BY <1>1 DEF MediaInv, Shapes, InRestore
  <1> QED BY <1>1, <1>2, <1>3, <1>4 DEF MeantInv, RenameKeeps, AliasKeeps, CleanupKeeps, RestoreKeeps, Settled

LEMMA RestMeant ==
    ASSUME MediaInv, MeantInv, SyncIndex \/ ManualRefresh \/ Crash \/ UNCHANGED vars
    PROVE  MeantInv'
  <1>1. CASE SyncIndex \/ ManualRefresh \/ Crash
    <2>1. op'.pc = "idle" /\ UNCHANGED <<files, refs, meant, strikes>>
      BY <1>1, IdleIsOp DEF SyncIndex, ManualRefresh, Crash
    <2> QED BY <2>1, KeptSame, MeantSettles DEF MeantInv, Settled
  <1>2. CASE UNCHANGED vars
    <2>1. UNCHANGED <<files, refs, op, meant, strikes>>
      BY <1>2 DEF vars
    <2>2. Kept'
      BY <2>1, KeptSame DEF MeantInv
    <2> QED BY <2>1, <2>2 DEF MeantInv, RenameKeeps, AliasKeeps, CleanupKeeps, RestoreKeeps, NobodyMeans
  <1> QED BY <1>1, <1>2

\* Only other programs strike.
Strike == \E p \in Names, f \in Inodes \cup {NoFile} : Outsider(p, f)

LEMMA OperationStrikesNothing == OperationStep => UNCHANGED strikes
  <1>1. ASSUME \/ AbortRename \/ InspectRename \/ InspectAliases \/ LockAliases \/ EndAliases
               \/ SelectDestination \/ SyncIndex
        PROVE  UNCHANGED strikes
    BY <1>1 DEF AbortRename, InspectRename, InspectAliases, LockAliases, EndAliases, SelectDestination, SyncIndex
  <1>2. ASSUME NEW c, CommitRename(c) \/ AnchorReferences(c) \/ FinalizeReferences(c) \/ RestoreReferences(c)
        PROVE  UNCHANGED strikes
    BY <1>2 DEF CommitRename, AnchorReferences, FinalizeReferences, RestoreReferences
  <1>3. ASSUME NEW done, \/ DropTarget(done) \/ RemoveSource(done) \/ DropAnchor(done)
                         \/ UnlinkMember(done) \/ DropRecovered(done) \/ RemoveAnchor(done)
        PROVE  UNCHANGED strikes
    BY <1>3 DEF DropTarget, RemoveSource, DropAnchor, UnlinkMember, DropRecovered, RemoveAnchor
  <1>4. ASSUME NEW c, NEW p, NEW done, VerifyDestination(c, done) \/ DeleteAlias(p, done) \/ CheckMember(p)
        PROVE  UNCHANGED strikes
    BY <1>4 DEF VerifyDestination, DeleteAlias, CheckMember
  <1> QED BY <1>1, <1>2, <1>3, <1>4, Zenon DEF OperationStep

LEMMA OnlyOthersStrike == [Next]_vars => UNCHANGED strikes \/ Strike
  <1>1. ASSUME NEW s, NEW t, NEW c,
               \/ BeginRename(s, t) \/ BeginAlias(s, c) \/ BeginDuplicate(s, t)
               \/ BeginRestore(s, t) \/ LeaveRecovered(s, t)
        PROVE  UNCHANGED strikes
    BY <1>1 DEF BeginRename, BeginAlias, BeginDuplicate, BeginRestore, LeaveRecovered
  <1>2. ASSUME NEW p, DeleteAnchor(p) \/ DeleteDamaged(p) PROVE UNCHANGED strikes
    BY <1>2 DEF DeleteAnchor, DeleteDamaged, DeleteUnreferenced
  <1>3. ASSUME NEW o, NEW p, ManageReference(o, p) \/ RepairReference(o, p) \/ EditItem(o, p)
        PROVE  UNCHANGED strikes
    BY <1>3, ReferencesAreSet DEF SetReference
  <1>4. ASSUME ManualRefresh \/ Crash \/ UNCHANGED vars PROVE UNCHANGED strikes
    BY <1>4 DEF ManualRefresh, Crash, vars
  <1> QED BY OperationStrikesNothing, <1>1, <1>2, <1>3, <1>4, Zenon DEF Next, Strike

LEMMA OperationMeant ==
    ASSUME NothingLost, NobodyInterferes, MediaInv, MeantInv, OperationStep
    PROVE  MeantInv'
  <1>1. CASE \/ AbortRename \/ InspectRename \/ InspectAliases \/ LockAliases \/ EndAliases
             \/ SelectDestination \/ SyncIndex
    BY <1>1, AbortRenameMeant, InspectRenameMeant, InspectAliasesMeant, LockAliasesMeant,
       EndAliasesMeant, SelectDestinationMeant, RestMeant, Zenon
  <1>2. CASE \E c \in Outcomes(op.kind) : \/ CommitRename(c) \/ AnchorReferences(c)
                                          \/ FinalizeReferences(c) \/ RestoreReferences(c)
    BY <1>2, CommitRenameMeant, AnchorReferencesMeant, FinalizeReferencesMeant, RestoreReferencesMeant, Zenon
  <1>3. CASE \E done \in Unlinks : \/ DropTarget(done) \/ RemoveSource(done) \/ DropAnchor(done)
                                   \/ UnlinkMember(done) \/ DropRecovered(done) \/ RemoveAnchor(done)
    <2>1. PICK done \in BOOLEAN : \/ DropTarget(done) \/ RemoveSource(done) \/ DropAnchor(done)
                                  \/ UnlinkMember(done) \/ DropRecovered(done) \/ RemoveAnchor(done)
      BY <1>3, UnlinksType, Zenon
    <2> QED BY <2>1, DropTargetMeant, RemoveSourceMeant, DropAnchorMeant, UnlinkMemberMeant,
               DropRecoveredMeant, RemoveAnchorMeant, Zenon
  <1>4. CASE \E c \in Outcomes(op.kind), done \in Unlinks : VerifyDestination(c, done)
    BY <1>4, VerifyDestinationMeant, UnlinksType, Zenon
  <1>5. CASE \E p \in Visible, done \in Unlinks : DeleteAlias(p, done)
    BY <1>5, DeleteAliasMeant, UnlinksType, Zenon
  <1>6. CASE \E m \in Visible : CheckMember(m)
    BY <1>6, CheckMemberMeant, Zenon
  <1> QED BY <1>1, <1>2, <1>3, <1>4, <1>5, <1>6, Zenon DEF OperationStep

LEMMA NextMeant ==
    ASSUME NothingLost, NobodyInterferes, MediaInv, MeantInv, [Next]_vars, ~Strike
    PROVE  MeantInv'
  <1>1. CASE OperationStep
    BY <1>1, OperationMeant
  <1>2. CASE \E s \in Visible, t \in Paths : BeginRename(s, t)
    BY <1>2, BeginRenameMeant, Zenon
  <1>3. CASE \E k \in Visible, c \in Outcomes("alias") : BeginAlias(k, c)
    BY <1>3, BeginAliasMeant, Zenon
  <1>4. CASE \E k \in Visible, a \in Anchors : BeginDuplicate(k, a)
    BY <1>4, BeginDuplicateMeant, Zenon
  <1>5. CASE \E a \in Anchors, r \in Spares : BeginRestore(a, r) \/ LeaveRecovered(a, r)
    BY <1>5, BeginRestoreMeant, LeaveRecoveredMeant, Zenon
  <1>6. CASE (\E a \in Anchors : DeleteAnchor(a)) \/ \E p \in Visible : DeleteDamaged(p)
    <2>1. \E p \in Names : DeleteUnreferenced(p)
      BY <1>6, NamesGive DEF DeleteAnchor, DeleteDamaged
    <2> QED BY <2>1, DeleteUnreferencedMeant, Zenon
  <1>7. CASE \E o \in Objects, p \in Visible \cup {NoPath} :
                 ManageReference(o, p) \/ RepairReference(o, p) \/ EditItem(o, p)
    BY <1>7, ReferencesAreSet, SetReferenceMeant, Zenon
  <1>8. CASE ManualRefresh \/ Crash \/ UNCHANGED vars
    BY <1>8, RestMeant, Zenon
  <1> QED BY <1>1, <1>2, <1>3, <1>4, <1>5, <1>6, <1>7, <1>8, Zenon DEF Next, Strike

\* Until the first strike every step counts on what it may count on.
Undisturbed == strikes = 0 => MeantInv

LEMMA NextUndisturbed ==
    ASSUME NothingLost, NobodyInterferes, MediaInv, Undisturbed, [Next]_vars
    PROVE  Undisturbed'
  <1>1. strikes \in Nat
    BY KindsAssumption DEF MediaInv, MediaTypes
  <1>2. CASE Strike
    BY <1>1, <1>2 DEF Strike, Outsider, Undisturbed
  <1>3. CASE ~Strike
    BY <1>3, OnlyOthersStrike, NextMeant DEF Undisturbed
  <1> QED BY <1>2, <1>3

LEMMA InitMeant ==
    ASSUME Init
    PROVE  MeantInv
  <1>1. op.pc = "idle" /\ strikes = 0
    BY IdleIsOp DEF Init
  <1>2. Kept
    BY DEF Init, Kept, Healthy
  <1> QED BY <1>1, <1>2 DEF MeantInv, RenameKeeps, AliasKeeps, CleanupKeeps, RestoreKeeps

\* A cover or avatar resolves, in every state and after any crash, to a file with
\* the content it was set to, however many files, objects and operations there are
\* and whichever of their unlinks, links, index writes and commits fail.
THEOREM ReferencesAreKept ==
    ASSUME NothingLost, NobodyInterferes
    PROVE  Spec => []ReferencesKeepContent
  <1>1. Init => Undisturbed
    BY InitMeant DEF Undisturbed
  <1>2. MediaInv /\ Undisturbed /\ [Next]_vars => Undisturbed'
    BY NextUndisturbed
  <1>3. Undisturbed => ReferencesKeepContent
    BY DEF Undisturbed, MeantInv, Kept, ReferencesKeepContent
  <1> QED BY <1>1, <1>2, <1>3, MediaHolds, PTL DEF Spec
=============================================================================
