------------------------- MODULE MediaConfirmations -------------------------
\* The media pages show a preview and carry what they showed in the form they
\* post; the confirmation works the preview out again under the write lock and
\* goes on only if the two agree.  Each operation compares other things.  What an
\* operation does once it goes on is one step here; its inner steps and failures
\* are those of MediaMutations.
EXTENDS Naturals, Sequences, FiniteSets

CONSTANTS
    CPath,          \* ordinary media names
    CAnchor,        \* names of cleanup anchors
    CObj,           \* items and creators
    CSha,           \* contents that are valid images; "bad" is a damaged one
    NoName,
    CStart,         \* the ordinary names that may have a file at first
    MaxClock        \* bound on the changes others make to the files

ASSUME ConfirmationAssumption == 
    /\ CAnchor \cap CPath = {} /\ NoName \notin CPath \cup CAnchor
    /\ CStart \subseteq CPath /\ MaxClock \in Nat

VARIABLES
    media,          \* name -> NoMedia or [inode, sha, stamp]; stamp is its ctime
    owner,          \* object -> [path, rev]; rev stands for its other fields
    clock,
    page,           \* the form a browser holds: [request, media, owner] as displayed
    batch,          \* the items a running batch has still to do
    results,        \* its results so far
    carried         \* history: who carried out an operation in the last step

confirmVars == <<media, owner, clock, page, batch, results, carried>>

CName == CPath \cup CAnchor
NoMedia == [inode |-> 0]
NoPage == [request |-> [kind |-> "none"]]
There(p, d) == d[p] # NoMedia
Sound(p, d) == There(p, d) /\ d[p].sha # "bad"
RefsOf(p, o) == {x \in CObj : o[x].path = p}
Aliases(p, d) == {q \in CPath : There(q, d) /\ d[q].inode = d[p].inode}
Twins(p, d) == {q \in CPath : There(q, d) /\ d[q].sha = d[p].sha}

----------------------------------------------------------------------------
\* Whether the preview of a request can be built on media d with references o.
CanRename(r, d, o) ==
    /\ r.src \in CPath /\ Sound(r.src, d)
    /\ r.dst \in CPath /\ ~There(r.dst, d) /\ RefsOf(r.dst, o) = {}

CanAlias(r, d) == r.src \in CPath /\ Sound(r.src, d) /\ Cardinality(Aliases(r.src, d)) > 1

CanDuplicate(r, d) == r.src \in CPath /\ Sound(r.src, d) /\ Cardinality(Twins(r.src, d)) > 1

CanRestore(r, d) == r.src \in CAnchor /\ Sound(r.src, d)

CanDelete(r, d, o) == CanRestore(r, d) /\ RefsOf(r.src, o) = {}

CanDamaged(r, d) == r.src \in CPath /\ There(r.src, d) /\ ~Sound(r.src, d)

\* set and replace take a sound file the object does not have; clear takes the
\* one it has.
ActionOf(r, o) ==
    CASE r.dst = NoName -> IF o[r.obj].path = r.src THEN "clear" ELSE "stale_reference"
      [] r.dst # NoName /\ o[r.obj].path = r.src -> "already_set"
      [] OTHER -> IF o[r.obj].path = NoName THEN "set" ELSE "replace"

CanManage(r, d, o) ==
    /\ r.src \in CPath /\ Sound(r.src, d)
    /\ ActionOf(r, o) \in {"set", "replace", "clear"}

IssueOf(x, d, o) ==
    CASE o[x].path = NoName -> "none"
      [] o[x].path # NoName /\ ~There(o[x].path, d) -> "media_reference_missing"
      [] OTHER -> IF Sound(o[x].path, d) THEN "none" ELSE "media_reference_damaged"

CanRepair(r, d, o) ==
    /\ IssueOf(r.obj, d, o) # "none"
    /\ r.src = NoName \/ (r.src \in CPath /\ Sound(r.src, d))

CanMatch(r, d, o) == r.src \in CPath /\ Sound(r.src, d) /\ o[r.obj].path = NoName

CanPreview(r, d, o) ==
    CASE r.kind = "rename" -> CanRename(r, d, o)
      [] r.kind = "alias" -> CanAlias(r, d)
      [] r.kind = "duplicate" -> CanDuplicate(r, d)
      [] r.kind = "restore" -> CanRestore(r, d)
      [] r.kind = "delete" -> CanDelete(r, d, o)
      [] r.kind = "damaged" -> CanDamaged(r, d)
      [] r.kind = "manage" -> CanManage(r, d, o)
      [] r.kind = "repair" -> CanRepair(r, d, o)
      [] r.kind = "match" -> CanMatch(r, d, o)
      [] OTHER -> FALSE

----------------------------------------------------------------------------
SeenFileMutant(p, d) == [inode |-> d[p].inode]

\* What a form carries of a file: digest, mode, size, device, inode and times.
SeenFile(p, d) == d[p]

SeenRename(r, d, o) == <<SeenFile(r.src, d), RefsOf(r.src, o)>>

SeenAlias(r, d, o) == [q \in Aliases(r.src, d) |-> <<SeenFile(q, d), RefsOf(q, o)>>]

\* The members and their digest, and nothing of the references the page lists.
SeenDuplicate(r, d) == <<Twins(r.src, d), d[r.src].sha>>

SeenManage(r, d, o) == <<o[r.obj], ActionOf(r, o), SeenFile(r.src, d)>>

SeenRepair(r, d, o) ==
    <<o[r.obj], IssueOf(r.obj, d, o), IF r.src = NoName THEN NoMedia ELSE SeenFile(r.src, d)>>

Seen(r, d, o) ==
    CASE r.kind = "rename" -> SeenRename(r, d, o)
      [] r.kind = "alias" -> <<SeenAlias(r, d, o)>>
      [] r.kind = "duplicate" -> SeenDuplicate(r, d)
      [] r.kind \in {"restore", "delete", "damaged"} -> <<SeenFile(r.src, d)>>
      [] r.kind = "manage" -> SeenManage(r, d, o)
      [] r.kind = "repair" -> SeenRepair(r, d, o)
      [] r.kind = "match" -> <<>>

Unreferenced(r) == RefsOf(r.src, owner) = {}

AcceptedMutant(r, shown) ==
    /\ CanPreview(r, media, owner)
    /\ Seen(r, shown.media, shown.owner) = Seen(r, media, owner)

\* Previews of a damaged file list its references; the deletion refuses them.
Accepted(r, shown) ==
    /\ CanPreview(r, media, owner)
    /\ Seen(r, shown.media, shown.owner) = Seen(r, media, owner)
    /\ r.kind = "damaged" => Unreferenced(r)

----------------------------------------------------------------------------
\* A link or an unlink changes the ctime of every name of the inode.
Stamped(d, inode) ==
    [p \in CName |-> IF There(p, d) /\ d[p].inode = inode THEN [d[p] EXCEPT !.stamp = clock + 1] ELSE d[p]]

Without(d, S) == [p \in CName |-> IF p \in S THEN NoMedia ELSE d[p]]
Repointed(S, p) == [x \in CObj |-> IF owner[x].path \in S THEN [owner[x] EXCEPT !.path = p] ELSE owner[x]]

DoRename(r) ==
    /\ media' = Stamped([Without(media, {r.src}) EXCEPT ![r.dst] = media[r.src]], media[r.src].inode)
    /\ owner' = Repointed({r.src}, r.dst)

DoAlias(r) ==
    LET gone == Aliases(r.src, media) \ {r.src}
    IN /\ media' = Stamped(Without(media, gone), media[r.src].inode)
       /\ owner' = Repointed(gone, r.src)

DoDuplicate(r) ==
    LET gone == Twins(r.src, media) \ {r.src}
    IN /\ media' = Stamped(Without(media, gone), media[r.src].inode)
       /\ owner' = Repointed(gone, r.src)

\* A new ordinary name is published, references follow, the anchor goes.
DoRestore(r) ==
    \E q \in CPath :
        /\ ~There(q, media) /\ RefsOf(q, owner) = {}
        /\ media' = Stamped([Without(media, {r.src}) EXCEPT ![q] = media[r.src]], media[r.src].inode)
        /\ owner' = Repointed({r.src}, q)

DoRemove(r) ==
    /\ media' = Stamped(Without(media, {r.src}), media[r.src].inode)
    /\ UNCHANGED owner

DoReference(r) ==
    /\ owner' = [owner EXCEPT ![r.obj].path = IF r.kind = "manage" /\ r.dst = NoName THEN NoName ELSE r.src]
    /\ UNCHANGED <<media, clock>>

Do(r) ==
    \/ /\ clock' = clock + 1
       /\ \/ r.kind = "rename" /\ DoRename(r)
          \/ r.kind = "alias" /\ DoAlias(r)
          \/ r.kind = "duplicate" /\ DoDuplicate(r)
          \/ r.kind = "restore" /\ DoRestore(r)
          \/ r.kind \in {"delete", "damaged"} /\ DoRemove(r)
    \/ r.kind \in {"manage", "repair", "match"} /\ DoReference(r)

----------------------------------------------------------------------------
Rename == [kind : {"rename"}, src : CPath, dst : CPath]

Request ==
    Rename
      \cup [kind : {"alias", "duplicate", "damaged"}, src : CPath]
      \cup [kind : {"restore", "delete"}, src : CAnchor]
      \cup [kind : {"manage"}, src : CPath, dst : {NoName} \cup CPath, obj : CObj]
      \cup [kind : {"repair"}, src : CPath \cup {NoName}, obj : CObj]
      \cup [kind : {"match"}, src : CPath, obj : CObj]

\* The targets of a batch and the names it takes away do not overlap.
BatchRequest(first, second) ==
    /\ first.src # second.src /\ first.dst # second.dst
    /\ {first.src, second.src} \cap {first.dst, second.dst} = {}

ShowForm(r) ==
    /\ CanPreview(r, media, owner)
    /\ page' = [request |-> r, media |-> media, owner |-> owner]
    /\ UNCHANGED <<media, owner, clock, batch, results>>
    /\ carried' = "none"

ShowBatch(first, second) ==
    /\ BatchRequest(first, second)
    /\ CanPreview(first, media, owner) /\ CanPreview(second, media, owner)
    /\ page' = [request |-> [kind |-> "batch", items |-> <<first, second>>],
                media |-> media, owner |-> owner]
    /\ UNCHANGED <<media, owner, clock, batch, results>>
    /\ carried' = "none"

\* A form may be posted again after it was carried out.
Post(kind) ==
    /\ page.request.kind = kind
    /\ Accepted(page.request, page)
    /\ Do(page.request)
    /\ UNCHANGED <<page, batch, results>>
    /\ carried' = "page"

PostRename == Post("rename")
PostAlias == Post("alias")
PostDuplicate == Post("duplicate")
PostRestore == Post("restore")
PostDelete == Post("delete")
PostDamaged == Post("damaged")
PostManage == Post("manage")
PostRepair == Post("repair")
PostMatch == Post("match")

PostBatch ==
    /\ page.request.kind = "batch" /\ batch = <<>>
    /\ batch' = page.request.items
    /\ results' = <<>>
    /\ UNCHANGED <<media, owner, clock, page>>
    /\ carried' = "none"

\* Every item is compared with what the preview showed, not with what the items
\* before it left.
BatchItem ==
    /\ batch # <<>>
    /\ batch' = Tail(batch)
    /\ IF Accepted(Head(batch), page)
       THEN Do(Head(batch)) /\ results' = Append(results, "success")
       ELSE results' = Append(results, "failed") /\ UNCHANGED <<media, owner, clock>>
    /\ UNCHANGED page
    /\ carried' = "page"

\* Another tab previews and confirms in the meantime; a batch holds the lock.  What
\* was done before the page was made is in the choice of the initial state.
OtherTab(r) ==
    /\ r.kind = "match" \/ batch = <<>>
    /\ clock < MaxClock
    /\ CanPreview(r, media, owner) /\ (r.kind = "damaged" => Unreferenced(r))
    /\ Do(r)
    /\ UNCHANGED <<page, batch, results>>
    /\ carried' = "other"

\* The item and creator pages; other fields matter to the forms that show them.
EditOwner(x, p) ==
    /\ page # NoPage
    /\ \/ page.request.kind \in {"manage", "repair"} /\ owner[x].rev = 0
          /\ owner' = [owner EXCEPT ![x].rev = 1]
       \/ p = NoName /\ owner[x].path # NoName /\ owner' = [owner EXCEPT ![x].path = NoName]
       \/ p \in CPath /\ Sound(p, media) /\ owner' = [owner EXCEPT ![x].path = p]
    /\ UNCHANGED <<media, clock, page, batch, results>>
    /\ carried' = "none"

\* Another program rewrites a file in place, removes it or puts one there.
ChangeMedia(p, sha) ==
    /\ page # NoPage
    /\ clock < MaxClock /\ clock' = clock + 1
    /\ \/ /\ There(p, media) /\ media[p].sha # sha
          /\ media' = [q \in CName |->
                IF There(q, media) /\ media[q].inode = media[p].inode
                THEN [media[q] EXCEPT !.sha = sha, !.stamp = clock + 1] ELSE media[q]]
       \/ There(p, media) /\ media' = Stamped(Without(media, {p}), media[p].inode)
       \/ /\ ~There(p, media) /\ p \in CPath
          /\ \E i \in 1..Cardinality(CName) :
                /\ \A q \in CName : media[q].inode # i
                /\ media' = [media EXCEPT ![p] = [inode |-> i, sha |-> sha, stamp |-> clock + 1]]
    /\ UNCHANGED <<owner, page, batch, results>>
    /\ carried' = "none"

FormInit ==
    /\ media \in [CName -> {NoMedia} \cup [inode : 1..2, sha : CSha \cup {"bad"}, stamp : {0}]]
    /\ \A p, q \in CName : (There(p, media) /\ There(q, media) /\ media[p].inode = media[q].inode) =>
                              media[p] = media[q]
    /\ \A p \in CPath \ CStart : ~There(p, media)
    /\ owner \in [CObj -> [path : CName \cup {NoName}, rev : {0}]]
    /\ clock = 0 /\ page = NoPage /\ batch = <<>> /\ results = <<>>
    /\ carried = "none"

FormNext ==
    \/ page = NoPage /\ \E r \in Request : ShowForm(r)
    \/ page # NoPage /\ \E r \in Request : OtherTab(r)
    \/ page = NoPage /\ \E first, second \in Rename : ShowBatch(first, second)
    \/ PostRename \/ PostAlias \/ PostDuplicate \/ PostRestore \/ PostDelete
    \/ PostDamaged \/ PostManage \/ PostRepair \/ PostMatch
    \/ PostBatch
    \/ BatchItem
    \/ \E x \in CObj, p \in CPath \cup {NoName} : EditOwner(x, p)
    \/ \E p \in CName, sha \in CSha \cup {"bad"} : ChangeMedia(p, sha)

FormSpec == FormInit /\ [][FormNext]_confirmVars

----------------------------------------------------------------------------
\* Type invariant; a batch has one result for each item it is through with.
ConfirmTypeOK ==
    /\ \A p \in CName : There(p, media) => media[p].sha \in CSha \cup {"bad"} /\ media[p].stamp \in 0..clock
    /\ \A x \in CObj : owner[x].path \in CName \cup {NoName} /\ owner[x].rev \in 0..1
    /\ batch # <<>> => Len(results) + Len(batch) = 2

\* Whatever happened between the page and its confirmation, a name that goes held
\* when the page was made the very content that goes with it now, and an object
\* whose reference changes was shown with the reference it loses.  Duplicate
\* cleanup and restore post nothing of the references: they move what they find.
ConfirmedAsShown ==
    [][carried' = "page" =>
         /\ \A p \in CName : (There(p, media) /\ ~There(p, media')) =>
               There(p, page.media) /\ page.media[p].sha = media[p].sha
                  /\ (page.request.kind # "duplicate" => page.media[p] = media[p])
         /\ page.request.kind \notin {"duplicate", "restore"} =>
               \A x \in CObj : owner'[x].path # owner[x].path =>
                   page.owner[x].path = owner[x].path]_confirmVars

\* No confirmation, in this tab or another, leaves an object without the content it
\* had: a reference to a file that is moved, merged, restored or deleted names the
\* same content afterwards, also when it was made after the preview.
ReferencesFollow ==
    [][(carried' # "none" /\ media' # media) =>
         \A x \in CObj :
            LET p == owner[x].path
                q == owner'[x].path
            IN (p # NoName /\ There(p, media)) =>
                  q # NoName /\ There(q, media') /\ media'[q].sha = media[p].sha]_confirmVars
=============================================================================
