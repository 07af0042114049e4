--------------------------- MODULE CatalogueEdits ---------------------------
\* Items and their tags under the item, bulk, merge and cleanup pages.  A request
\* loads rows into its session without a lock, works out what to write from what
\* it loaded, and writes it in one transaction; what others committed in between
\* is not looked at again.  Tags stand for creators and collections too, and text
\* for the fields a merge fills when the primary item has none.
EXTENDS Naturals, FiniteSetsExt

CONSTANTS
    Editor,             \* requests that may run at once
    TagName,
    Unfolded,           \* names SQLite's lower() leaves alone and Python's does not
    MaxItem,            \* bound on item ids
    MaxBirths,          \* bound on items ever created
    MaxEditorRuns       \* bound on the requests of a behaviour

ASSUME CatalogueAssumption ==
    /\ Unfolded \subseteq TagName
    /\ {MaxItem, MaxBirths, MaxEditorRuns} \subseteq Nat /\ MaxBirths >= 2

VARIABLES
    item,               \* id -> [born, text], or NoRow
    tag,                \* the names in the tags table
    tagged,             \* item_tags: {<<id, name>>}
    edit,               \* Editor -> what a request has loaded, or its end
    births,             \* items ever created
    editorRuns

catalogueVars == <<item, tag, tagged, edit, births, editorRuns>>

NoRow == [born |-> 0]
Blank == ""
Live == {i \in 1..MaxItem : item[i] # NoRow}
RowsOf(i) == {row \in tagged : row[1] = i}
RowsUnder(t) == {row \in tagged : row[2] = t}
NoEdit == [at |-> "none"]

----------------------------------------------------------------------------
\* What a session will write: rows to insert and to delete, those it leaves out as
\* they were there, the item whose text changes (and to what), the items and tags to
\* drop, and the item or tag a merge keeps.
Nothing == [ins |-> {}, skip |-> {}, del |-> {}, touch |-> {}, text |-> Blank,
            dropItems |-> {}, dropTags |-> {}, newTags |-> {}, into |-> 0]

\* The statements of a flush succeed: no row is inserted twice or without its item
\* and tag (foreign keys are on), and every row to delete or update is still there.
Flushes(plan) ==
    /\ plan.ins \cap tagged = {}
    /\ \A row \in plan.ins : row[1] \in Live /\ row[2] \in tag \cup plan.newTags
    /\ plan.del \subseteq tagged
    /\ plan.touch \subseteq Live
    /\ plan.newTags \cap tag = {}

WriteMutant(plan) ==
    /\ item' = [i \in 1..MaxItem |->
                  IF i \in plan.dropItems THEN NoRow
                  ELSE IF i \in plan.touch THEN [item[i] EXCEPT !.text = plan.text] ELSE item[i]]
    /\ tag' = (tag \cup plan.newTags) \ plan.dropTags
    /\ tagged' = (tagged \cup plan.ins) \ plan.del

\* The commit; rows of a dropped item or tag go with it (ON DELETE CASCADE).
Write(plan) ==
    /\ item' = [i \in 1..MaxItem |->
                  IF i \in plan.dropItems THEN NoRow
                  ELSE IF i \in plan.touch THEN [item[i] EXCEPT !.text = plan.text] ELSE item[i]]
    /\ tag' = (tag \cup plan.newTags) \ plan.dropTags
    /\ tagged' = {row \in (tagged \cup plan.ins) \ plan.del :
                     row[1] \notin plan.dropItems /\ row[2] \notin plan.dropTags}

----------------------------------------------------------------------------
BulkAddPlan(is, t) == [Nothing EXCEPT !.ins = ((is \cap Live) \X {t}) \ tagged]

BulkRemovePlan(is, t) == [Nothing EXCEPT !.del = ((is \cap Live) \X {t}) \cap tagged]

\* add_existing_tag, remove_existing_tag; the page refuses a relation that is there.
AddOnePlan(i, t) == [Nothing EXCEPT !.ins = {<<i, t>>}]

RemoveOnePlan(i, t) == [Nothing EXCEPT !.del = {<<i, t>>} \cap tagged]

DeleteItemsPlan(is) ==
    [Nothing EXCEPT !.dropItems = is \cap Live, !.del = UNION {RowsOf(i) : i \in is \cap Live}]

DeleteTagPlan(t) == [Nothing EXCEPT !.dropTags = {t}, !.del = RowsUnder(t)]

MergeItemsPlanMutant(p, d, useDuplicate) ==
    [Nothing EXCEPT !.del = RowsOf(d), !.dropItems = {d}, !.into = p,
        !.ins = IF RowsOf(p) = {} THEN {<<p, row[2]>> : row \in RowsOf(d)} ELSE {}]

\* merge_duplicate_items: relations move, a missing text is copied and another one
\* kept unless the form says otherwise, the duplicate goes.
MergeItemsPlan(p, d, useDuplicate) ==
    LET takes == /\ item[d].text # Blank /\ item[d].text # item[p].text
                 /\ item[p].text = Blank \/ useDuplicate
    IN [Nothing EXCEPT !.del = RowsOf(d), !.dropItems = {d}, !.into = p,
            !.ins = {<<p, row[2]>> : row \in RowsOf(d)} \ tagged,
            !.skip = {<<p, row[2]>> : row \in RowsOf(d)} \cap tagged,
            !.touch = IF takes THEN {p} ELSE {}, !.text = item[d].text]

\* merge_metadata_objects
MergeTagsPlan(p, d) ==
    [Nothing EXCEPT !.del = RowsUnder(d), !.dropTags = {d}, !.into = p,
        !.ins = {<<row[1], p>> : row \in RowsUnder(d)} \ tagged,
        !.skip = {<<row[1], p>> : row \in RowsUnder(d)} \cap tagged]

\* set_item_relations: the form's names, those _get_or_create_tag finds and those
\* it will insert.  keep says whether the form's fields are still in the session.
UpdatePlan(i, names, keep) ==
    [Nothing EXCEPT !.ins = ({i} \X names) \ tagged, !.del = RowsOf(i) \ ({i} \X names),
        !.newTags = names \ (tag \ Unfolded),
        !.touch = IF keep /\ item[i].text # "edited" THEN {i} ELSE {}, !.text = "edited"]

----------------------------------------------------------------------------
Load(e, kind, plan) ==
    /\ edit[e].at = "none" /\ editorRuns < MaxEditorRuns
    /\ edit' = [edit EXCEPT ![e] = [at |-> "loaded", kind |-> kind, plan |-> plan]]
    /\ editorRuns' = editorRuns + 1
    /\ UNCHANGED <<item, tag, tagged, births>>

StartBulk(e, is, t) ==
    /\ t \in tag
    /\ \/ Load(e, "bulk", BulkAddPlan(is, t))
       \/ Load(e, "bulk", BulkRemovePlan(is, t))

\* One relation, on the item's page or on the collection's.
RelationOnItemPage(e, i, t) ==
    /\ i \in Live /\ t \in tag
    /\ \/ <<i, t>> \notin tagged /\ Load(e, "bulk", AddOnePlan(i, t))
       \/ Load(e, "bulk", RemoveOnePlan(i, t))

RelationOnCollectionPage(e, i, t) == RelationOnItemPage(e, i, t)

StartDelete(e) ==
    \/ \E is \in SUBSET Live \ {{}} : Load(e, "delete", DeleteItemsPlan(is))
    \/ \E t \in tag : Load(e, "delete", DeleteTagPlan(t))

StartMerge(e) ==
    \/ \E p, d \in Live, useDuplicate \in BOOLEAN :
          p # d /\ Load(e, "merge", MergeItemsPlan(p, d, useDuplicate))
    \/ \E p, d \in tag : p # d /\ Load(e, "merge", MergeTagsPlan(p, d))

StartUpdate(e, i, names) ==
    /\ edit[e].at = "none" /\ editorRuns < MaxEditorRuns
    /\ edit' = [edit EXCEPT ![e] = [at |-> "loaded", kind |-> "update", item |-> i,
                    names |-> names, keep |-> TRUE, plan |-> UpdatePlan(i, names, TRUE)]]
    /\ editorRuns' = editorRuns + 1
    /\ UNCHANGED <<item, tag, tagged, births>>

\* A name the request meant to insert is taken by now: its savepoint-less rollback
\* drops the form's fields too.  The name is looked up again; if that still does
\* not find it, the request fails.
TakenNames(e) == edit[e].plan.newTags \cap tag

RetryNames(e) ==
    /\ edit[e].at = "loaded" /\ edit[e].kind = "update"
    /\ TakenNames(e) # {}
    /\ edit' = [edit EXCEPT ![e] =
           IF TakenNames(e) \cap Unfolded # {} \/ edit[e].item \notin Live
           THEN NoEdit
           ELSE [@ EXCEPT !.keep = FALSE, !.plan = UpdatePlan(edit[e].item, edit[e].names, FALSE)]]
    /\ UNCHANGED <<item, tag, tagged, births, editorRuns>>

\* A transaction that cannot be flushed is rolled back and the request fails.
Commit(e) ==
    /\ edit[e].at = "loaded"
    /\ edit[e].kind = "update" => TakenNames(e) = {}
    /\ edit' = [edit EXCEPT ![e] = NoEdit]
    /\ IF Flushes(edit[e].plan) THEN Write(edit[e].plan) ELSE UNCHANGED <<item, tag, tagged>>
    /\ UNCHANGED <<births, editorRuns>>

\* create_item holds the write lock from its first insert; SQLite gives the new
\* row the id after the largest one in use.
CreateItem(names) ==
    LET id == 1 + Max({0} \cup Live)
    IN /\ id <= MaxItem /\ births < MaxBirths
       /\ names \cap Unfolded \cap tag = {}
       /\ births' = births + 1
       /\ item' = [item EXCEPT ![id] = [born |-> births + 1, text |-> Blank]]
       /\ tag' = tag \cup names
       /\ tagged' = tagged \cup ({id} \X names)
       /\ UNCHANGED <<edit, editorRuns>>

CreateTag(name) ==
    /\ name \notin tag
    /\ tag' = tag \cup {name}
    /\ UNCHANGED <<item, tagged, edit, births, editorRuns>>

CatalogueInit ==
    /\ item \in [1..MaxItem -> {NoRow, [born |-> 1, text |-> Blank], [born |-> 2, text |-> "own"]}]
    /\ \E i, j \in 1..MaxItem : i # j /\ item[i].born = 1 /\ item[j].born = 2
    /\ tag \in SUBSET TagName /\ tag # {}
    /\ tagged \in SUBSET (Live \X tag)
    /\ edit = [e \in Editor |-> NoEdit]
    /\ births = 2 /\ editorRuns = 0

CatalogueNext ==
    \/ \E e \in Editor :
         \/ \E is \in SUBSET (1..MaxItem), t \in TagName : StartBulk(e, is, t)
         \/ \E i \in 1..MaxItem, t \in TagName :
               RelationOnItemPage(e, i, t) \/ RelationOnCollectionPage(e, i, t)
         \/ StartDelete(e)
         \/ StartMerge(e)
         \/ \E i \in Live, names \in SUBSET TagName : StartUpdate(e, i, names)
         \/ RetryNames(e)
         \/ Commit(e)
    \/ \E names \in SUBSET TagName : CreateItem(names)
    \/ \E name \in TagName : CreateTag(name)

CatalogueSpec == CatalogueInit /\ [][CatalogueNext]_catalogueVars

----------------------------------------------------------------------------
\* Type invariant; every relation row has its item and its tag, whatever was
\* deleted or merged while a request held older rows.
CatalogueTypeOK ==
    /\ tag \subseteq TagName
    /\ tagged \subseteq Live \X tag
    /\ births \in 2..MaxBirths /\ editorRuns \in 0..MaxEditorRuns

EditCommitted(e) == edit[e].at = "loaded" /\ edit'[e] = NoEdit /\ Flushes(edit[e].plan)

\* A merge that went through lost nothing it had seen: every relation of the
\* duplicate item or tag that was there when the merge loaded it is now the primary's
\* own, whatever others committed in between, but for a relation both had and the
\* primary lost since: the merge leaves it out as there, and the duplicate's goes.
\* The primary is known by its id, which an item created since may have taken.
MergeKeepsSeen ==
    [][\A e \in Editor : (EditCommitted(e) /\ edit[e].kind = "merge") =>
          LET plan == edit[e].plan
              Moved(row) == IF plan.dropTags = {} THEN <<plan.into, row[2]>> ELSE <<row[1], plan.into>>
          IN \A row \in plan.del : Moved(row) \in tagged' \cup (plan.skip \ tagged)
      ]_catalogueVars
=============================================================================
