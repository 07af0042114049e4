---------------------------- MODULE DatabaseProofs ----------------------------
(***************************************************************************)
(* The services that write the whole database: import, the versions of the *)
(* schema, restore, and the edits of the catalogue.                        *)
(*                                                                         *)
(* Import: one request writes at a time (OneWriter), its rows are its own  *)
(* valid ones (StagedOK), and a URL it takes for known is in the tables    *)
(* unless a page deleted it before the request took the lock (KnownOK), so *)
(* a commit makes all its rows durable with what they refer to.            *)
(*                                                                         *)
(* Schema: what an upgrade has done so far is the chain from the version   *)
(* it found to the step it is at, all committed or nothing (UpgradeOK).    *)
(*                                                                         *)
(* Restore: every merge marks the media index invalid, so that the digests *)
(* tell the library after it from the one before (RestoreInv).  A merge    *)
(* goes over the rows of the file one by one: whatever they are, a row of  *)
(* the library keeps its word or gets the one the file has for its id      *)
(* (Placed); where the file renames none, a row of it is found under its   *)
(* name or is new under its id (Agreed), so that the result says what      *)
(* either says and no more, and finds all of them a second time.           *)
(*                                                                         *)
(* Catalogue: the plan of an edit names only rows it had loaded (EditsOK), *)
(* and a merge inserts for each row it takes from the duplicate the one of *)
(* the primary, or leaves it out as there (MergeOK).                       *)
(***************************************************************************)
EXTENDS SchemaMigrations, ImportRows, BackupRestore, CatalogueEdits, TLAPS, WellFoundedInduction

Item(r, n) == [by |-> r, row |-> n]
AllItems == table.items \cup staged.items
AllNames == table.names \cup staged.names
AllSources == table.sources \cup staged.sources

ItemOK(i) == i.by \in Request /\ i.row \in ValidRows(i.by) /\ i = Item(i.by, i.row)

\* An item has its name, and its source unless a page deleted that meanwhile.
Filed(i, names, sources) ==
    /\ given[i.by][i.row].name \in names
    /\ given[i.by][i.row].url # NoUrl =>
           \/ \E s \in sources : s.url = given[i.by][i.row].url
           \/ given[i.by][i.row].url \in imp[i.by].gone

ImportTypes ==
    /\ given \in [Request -> UNION {[1..n -> InputRow] : n \in 0..MaxRows}]
    /\ DOMAIN imp = Request
    /\ \A r \in Request : /\ imp[r].pc \in {"idle", "previewed", "known", "writing"}
                          /\ DOMAIN imp[r] = {"pc", "known", "gone"}
    /\ DOMAIN answer = Request

OneWriter ==
    /\ \A q, r \in Request : imp[q].pc = "writing" /\ imp[r].pc = "writing" => q = r
    /\ (\A r \in Request : imp[r].pc # "writing") => staged = Empty

AnswerEnds == \A r \in Request : answer[r] # "none" => imp[r].pc = "idle"

StagedOK ==
    \A i \in staged.items :
        ItemOK(i) /\ imp[i.by].pc = "writing" /\ Filed(i, AllNames, AllSources)

\* A request with rows in the table was told so, or its commit raised.
Imported(r) == answer[r] = "imported" \/ (answer[r] = "import_failed" /\ r \in doubtful)

TableOK == \A i \in table.items : ItemOK(i) /\ Imported(i.by)

DoubtOK == \A r \in Request : r \in doubtful => answer[r] = "import_failed"

KnownOK ==
    \A r \in Request : \A u \in imp[r].known :
        /\ imp[r].pc = "known" => u \in imp[r].gone \/ \E s \in table.sources : s.url = u
        /\ imp[r].pc = "writing" => u \in imp[r].gone \/ \E s \in AllSources : s.url = u

UrlsOnce ==
    /\ \A s, t \in AllSources : s.url = t.url => s = t
    /\ \A s \in AllSources : Item(s.by, s.row) \in AllItems
    /\ \A s \in table.sources : Item(s.by, s.row) \in table.items

ImportInv ==
    ImportTypes /\ OneWriter /\ AnswerEnds /\ StagedOK /\ TableOK /\ DoubtOK /\ KnownOK /\ UrlsOnce

LEMMA SeenFields == Seen.items = AllItems /\ Seen.names = AllNames /\ Seen.sources = AllSources
  BY DEF Seen, AllItems, AllNames, AllSources

LEMMA EmptyFields == Empty.items = {} /\ Empty.names = {} /\ Empty.sources = {}
  BY DEF Empty

LEMMA ReadyFields ==
    ASSUME NEW pc
    PROVE  /\ Ready(pc).pc = pc /\ Ready(pc).known = {} /\ Ready(pc).gone = {}
           /\ DOMAIN Ready(pc) = {"pc", "known", "gone"}
  BY DEF Ready

LEMMA RowNumbers ==
    ASSUME ImportTypes, NEW r \in Request
    PROVE  /\ ValidRows(r) \subseteq Nat
           /\ \A n \in ValidRows(r) : given[r][n] \in InputRow
  <1>1. PICK k \in 0..MaxRows : given[r] \in [1..k -> InputRow]
    BY DEF ImportTypes
  <1>2. k \in Nat
    BY ImportAssumption
  <1>3. QED
    BY <1>1, <1>2 DEF ValidRows

\* A request that still has rows to write takes the first of them.
LEMMA NextRowIsThere ==
    ASSUME ImportTypes, NEW r \in Request,
           \E n \in ValidRows(r) : Item(r, n) \notin staged.items
    PROVE  NextRow(r) \in ValidRows(r) /\ Item(r, NextRow(r)) \notin staged.items
  <1> DEFINE Left == {n \in ValidRows(r) : Item(r, n) \notin staged.items}
  <1>1. Left \subseteq Nat /\ Left # {}
    BY RowNumbers
  <1>2. PICK k \in Left : \A j \in Left : <<j, k>> \notin OpToRel(<, Nat)
    BY <1>1, WFMin, NatLessThanWellFounded, Zenon
  <1>3. \A j \in Left : ~(j < k)
    BY <1>1, <1>2, Zenon DEF OpToRel
  <1>4. k \in ValidRows(r) /\ Item(r, k) \notin staged.items
    BY <1>2
  <1>5. \A j \in ValidRows(r) : j < k => Item(r, j) \in staged.items
    BY <1>3
  <1>6. QED
    BY <1>4, <1>5 DEF NextRow, Item

LEMMA InitImportInv == ImportInit => ImportInv
  <1> SUFFICES ASSUME ImportInit PROVE ImportInv
    OBVIOUS
  <1>1. staged = Empty /\ table = Empty /\ doubtful = {}
    BY DEF ImportInit
  <1>2. AllItems = {} /\ AllNames = {} /\ AllSources = {}
    BY <1>1, EmptyFields DEF AllItems, AllNames, AllSources
  <1>3. \A r \in Request : imp[r] = Ready("idle") /\ answer[r] = "none"
    BY DEF ImportInit
  <1>4. \A r \in Request : imp[r].pc = "idle" /\ DOMAIN imp[r] = {"pc", "known", "gone"}
    BY <1>3, ReadyFields
  <1>5. ImportTypes
    BY <1>4 DEF ImportTypes, ImportInit
  <1>6. OneWriter /\ AnswerEnds /\ KnownOK
    BY <1>1, <1>3, <1>4 DEF OneWriter, AnswerEnds, KnownOK
  <1>7. StagedOK /\ TableOK /\ DoubtOK
    BY <1>1, EmptyFields DEF StagedOK, TableOK, DoubtOK
  <1>8. UrlsOnce
    BY <1>1, <1>2, EmptyFields DEF UrlsOnce
  <1>9. QED
    BY <1>5, <1>6, <1>7, <1>8 DEF ImportInv

\* A request that is not writing moves on or ends with nothing imported.
LEMMA QuietStepKeeps ==
    ASSUME ImportInv, NEW r \in Request, NEW x, NEW told,
           DOMAIN imp' = Request, \A q \in Request : imp'[q] = IF q = r THEN x ELSE imp[q],
           DOMAIN answer' = Request,
           \A q \in Request : answer'[q] = IF q = r THEN told ELSE answer[q],
           UNCHANGED <<given, staged, table, doubtful>>,
           imp[r].pc # "writing", answer[r] = "none",
           x.pc \in {"idle", "previewed", "known"}, told # "none" => x.pc = "idle",
           DOMAIN x = {"pc", "known", "gone"},
           x.pc = "known" => \A u \in x.known : \E s \in table.sources : s.url = u
    PROVE  ImportInv'
  <1>1. /\ ~Imported(r) /\ r \notin doubtful
        /\ \A q \in Request : imp'[q].pc = "writing" <=> imp[q].pc = "writing"
    BY DEF Imported, ImportInv, DoubtOK
  <1>2. \A q \in Request : ValidRows(q)' = ValidRows(q)
    BY DEF ValidRows
  <1>3. AllItems' = AllItems /\ AllNames' = AllNames /\ AllSources' = AllSources
    BY DEF AllItems, AllNames, AllSources
  <1>4. ImportTypes'
    BY DEF ImportTypes, ImportInv
  <1>5. OneWriter' /\ AnswerEnds'
    BY <1>1 DEF OneWriter, AnswerEnds, ImportInv
  <1>6. StagedOK'
    <2> SUFFICES ASSUME NEW i \in staged.items
                 PROVE  ItemOK(i)' /\ imp'[i.by].pc = "writing" /\ Filed(i, AllNames, AllSources)'
      BY DEF StagedOK
    <2>1. ItemOK(i) /\ imp[i.by].pc = "writing" /\ Filed(i, AllNames, AllSources)
      BY DEF StagedOK, ImportInv
    <2>2. i.by \in Request /\ i.by # r
      BY <2>1 DEF ItemOK
    <2>3. ItemOK(i)' /\ imp'[i.by] = imp[i.by]
      BY <1>2, <2>1, <2>2 DEF ItemOK
    <2>4. QED
      BY <1>3, <2>1, <2>3 DEF Filed
  <1>7. TableOK'
    <2> SUFFICES ASSUME NEW i \in table.items PROVE ItemOK(i)' /\ Imported(i.by)'
      BY DEF TableOK
    <2>1. ItemOK(i) /\ Imported(i.by) /\ i.by \in Request /\ i.by # r
      BY <1>1 DEF TableOK, ImportInv, ItemOK
    <2>2. QED
      BY <1>2, <2>1 DEF ItemOK, Imported
  <1>8. DoubtOK'
    BY <1>1 DEF DoubtOK, ImportInv
  <1>9. KnownOK'
    BY <1>1, <1>3 DEF KnownOK, ImportInv
  <1>10. UrlsOnce'
    BY <1>3 DEF UrlsOnce, ImportInv
  <1>11. QED
    BY <1>4, <1>5, <1>6, <1>7, <1>8, <1>9, <1>10 DEF ImportInv

\* The writer gives up: its rows are gone with the transaction.
LEMMA AbortKeeps ==
    ASSUME ImportInv, NEW r \in Request, FailImport(r), staged' = Empty,
           imp[r].pc = "writing"
    PROVE  ImportInv'
  <1>1. /\ \A q \in Request : imp'[q] = IF q = r THEN Ready("idle") ELSE imp[q]
        /\ \A q \in Request : answer'[q] = IF q = r THEN "import_failed" ELSE answer[q]
        /\ DOMAIN imp' = Request /\ DOMAIN answer' = Request
        /\ UNCHANGED <<given, table, doubtful>>
    BY DEF FailImport, ImportInv, ImportTypes
  <1>2. answer[r] = "none" /\ ~Imported(r) /\ r \notin doubtful
    BY DEF ImportInv, AnswerEnds, Imported, DoubtOK
  <1>3. \A q \in Request : imp'[q].pc # "writing"
    BY <1>1, ReadyFields DEF ImportInv, OneWriter
  <1>4. \A q \in Request : ValidRows(q)' = ValidRows(q)
    BY <1>1 DEF ValidRows
  <1>5. /\ AllItems' = table.items /\ AllNames' = table.names /\ AllSources' = table.sources
        /\ staged'.items = {}
    BY <1>1, EmptyFields DEF AllItems, AllNames, AllSources
  <1>6. ImportTypes'
    BY <1>1, ReadyFields DEF ImportTypes, ImportInv
  <1>7. OneWriter' /\ AnswerEnds' /\ StagedOK'
    BY <1>1, <1>3, <1>5, ReadyFields DEF OneWriter, AnswerEnds, ImportInv, StagedOK
  <1>8. TableOK'
    <2> SUFFICES ASSUME NEW i \in table.items PROVE ItemOK(i)' /\ Imported(i.by)'
      BY <1>1 DEF TableOK
    <2>1. ItemOK(i) /\ Imported(i.by) /\ i.by \in Request /\ i.by # r
      BY <1>2 DEF TableOK, ImportInv, ItemOK
    <2>2. QED
      BY <1>1, <1>4, <2>1 DEF ItemOK, Imported
  <1>9. DoubtOK'
    BY <1>1, <1>2 DEF DoubtOK, ImportInv
  <1>10. KnownOK'
    BY <1>1, <1>3, <1>5, ReadyFields DEF KnownOK, ImportInv
  <1>11. UrlsOnce'
    <2>1. /\ \A s, t \in table.sources : s.url = t.url => s = t
          /\ \A s \in table.sources : Item(s.by, s.row) \in table.items
      BY DEF ImportInv, UrlsOnce, AllSources
    <2>2. QED
      BY <1>1, <1>5, <2>1 DEF UrlsOnce
  <1>12. QED
    BY <1>6, <1>7, <1>8, <1>9, <1>10, <1>11 DEF ImportInv

\* A row is written with its name and its source, beside what is there.
LEMMA WriteKeeps ==
    ASSUME ImportInv, NEW r \in Request, NEW n, NEW row, NEW new, NEW x,
           n = NextRow(r), row = given[r][n], new = NewSource(r, n, row.url),
           imp[r].pc \in {"known", "writing"}, LockFree(r),
           \E k \in ValidRows(r) : Item(r, k) \notin staged.items,
           \A s \in new : \A t \in AllSources : t.url # s.url,
           staged' = [items |-> staged.items \cup {Item(r, n)},
                      names |-> staged.names \cup GetOrCreate(row.name),
                      sources |-> staged.sources \cup new],
           imp' = [imp EXCEPT ![r] = x], DOMAIN x = {"pc", "known", "gone"}, x.pc = "writing",
           x.known = imp[r].known \cup {s.url : s \in new}, x.gone = imp[r].gone,
           UNCHANGED <<given, table, answer, doubtful>>
    PROVE  ImportInv'
  <1>1. /\ \A q \in Request : imp'[q] = IF q = r THEN x ELSE imp[q]
        /\ DOMAIN imp' = Request
    BY DEF ImportInv, ImportTypes
  <1>2. /\ imp'[r].pc = "writing" /\ imp'[r].known = imp[r].known \cup {s.url : s \in new}
        /\ \A q \in Request : imp'[q].gone = imp[q].gone
    BY <1>1
  <1>3. /\ staged'.items = staged.items \cup {Item(r, n)}
        /\ staged'.names = staged.names \cup GetOrCreate(row.name)
        /\ staged'.sources = staged.sources \cup new
    OBVIOUS
  <1>4. /\ AllItems' = AllItems \cup {Item(r, n)}
        /\ AllNames' = AllNames \cup {row.name}
        /\ AllSources' = AllSources \cup new
    BY <1>3, SeenFields DEF AllItems, AllNames, AllSources, GetOrCreate
  <1>5. n \in ValidRows(r)
    BY NextRowIsThere DEF ImportInv
  <1>6. \A q \in Request \ {r} : imp[q].pc # "writing"
    BY DEF LockFree
  <1>7. \A q \in Request : ValidRows(q)' = ValidRows(q)
    BY DEF ValidRows
  <1>8. new = {} \/ new = {[url |-> row.url, by |-> r, row |-> n]}
    BY DEF NewSource
  <1>9. \A u \in imp[r].known : u \in imp[r].gone \/ \E s \in AllSources : s.url = u
    BY DEF ImportInv, KnownOK, AllSources
  <1>10. row.url # NoUrl => row.url \in imp[r].gone \/ \E s \in AllSources' : s.url = row.url
    <2>1. CASE row.url \in imp[r].known
      BY <1>4, <1>9, <2>1
    <2>2. CASE row.url # NoUrl /\ row.url \notin imp[r].known
      <3>1. new = {[url |-> row.url, by |-> r, row |-> n]}
        BY <2>2 DEF NewSource
      <3>2. QED
        BY <1>4, <3>1
    <2>3. QED
      BY <2>1, <2>2
  <1>11. ImportTypes' /\ AnswerEnds'
    BY <1>1, <1>2 DEF ImportTypes, AnswerEnds, ImportInv
  <1>12. OneWriter'
    BY <1>1, <1>2, <1>6 DEF OneWriter
  <1>13. StagedOK'
    <2> SUFFICES ASSUME NEW i \in staged'.items
                 PROVE  /\ ItemOK(i)' /\ imp'[i.by].pc = "writing"
                        /\ Filed(i, AllNames, AllSources)'
      BY DEF StagedOK
    <2>1. CASE i \in staged.items
      <3>1. ItemOK(i) /\ imp[i.by].pc = "writing" /\ Filed(i, AllNames, AllSources)
        BY <2>1 DEF StagedOK, ImportInv
      <3>2. ItemOK(i)' /\ imp'[i.by].pc = "writing" /\ i.by \in Request
        BY <1>1, <1>2, <1>7, <3>1 DEF ItemOK
      <3>3. Filed(i, AllNames, AllSources)'
        BY <1>2, <1>4, <3>1, <3>2 DEF Filed
      <3>4. QED
        BY <3>2, <3>3
    <2>2. CASE i = Item(r, n)
      <3>1. i.by = r /\ i.row = n
        BY <2>2 DEF Item
      <3>2. ItemOK(i)' /\ imp'[i.by].pc = "writing"
        BY <1>2, <1>5, <1>7, <2>2, <3>1 DEF ItemOK
      <3>3. Filed(i, AllNames, AllSources)'
        BY <1>2, <1>4, <1>10, <3>1 DEF Filed
      <3>4. QED
        BY <3>2, <3>3
    <2>3. QED
      BY <1>3, <2>1, <2>2
  <1>14. TableOK' /\ DoubtOK'
    BY <1>7 DEF TableOK, DoubtOK, ImportInv, ItemOK, Imported
  <1>15. KnownOK'
    <2> SUFFICES ASSUME NEW q \in Request, NEW u \in imp'[q].known
                 PROVE  /\ imp'[q].pc = "known" =>
                               u \in imp'[q].gone \/ \E s \in table.sources : s.url = u
                        /\ imp'[q].pc = "writing" =>
                               u \in imp'[q].gone \/ \E s \in AllSources' : s.url = u
      BY DEF KnownOK
    <2>1. CASE q = r
      BY <1>2, <1>4, <1>9, <2>1
    <2>2. CASE q # r
      BY <1>1, <1>6, <2>2 DEF ImportInv, KnownOK
    <2>3. QED
      BY <2>1, <2>2
  <1>16. UrlsOnce'
    <2>1. \A s, t \in AllSources \cup new : s.url = t.url => s = t
      BY <1>8 DEF ImportInv, UrlsOnce
    <2>2. \A s \in AllSources \cup new : Item(s.by, s.row) \in AllItems \cup {Item(r, n)}
      BY <1>8 DEF ImportInv, UrlsOnce
    <2>3. \A s \in table.sources : Item(s.by, s.row) \in table.items
      BY DEF ImportInv, UrlsOnce
    <2>4. QED
      BY <1>4, <2>1, <2>2, <2>3 DEF UrlsOnce
  <1>17. QED
    BY <1>11, <1>12, <1>13, <1>14, <1>15, <1>16 DEF ImportInv

\* The commit takes effect: all the request's rows are in the table at once.
LEMMA CommittedKeeps ==
    ASSUME ImportInv, NEW r \in Request, NEW told, imp[r].pc = "writing",
           imp' = [imp EXCEPT ![r] = Ready("idle")], staged' = Empty, table' = Seen,
           answer' = [answer EXCEPT ![r] = told], UNCHANGED given,
           \/ told = "imported" /\ UNCHANGED doubtful
           \/ told = "import_failed" /\ doubtful' = doubtful \cup {r}
    PROVE  ImportInv'
  <1>1. /\ \A q \in Request : imp'[q] = IF q = r THEN Ready("idle") ELSE imp[q]
        /\ \A q \in Request : answer'[q] = IF q = r THEN told ELSE answer[q]
        /\ DOMAIN imp' = Request /\ DOMAIN answer' = Request
    BY DEF ImportInv, ImportTypes
  <1>2. answer[r] = "none" /\ ~Imported(r) /\ r \notin doubtful /\ Imported(r)'
    BY <1>1 DEF ImportInv, AnswerEnds, Imported, DoubtOK
  <1>3. \A q \in Request : imp'[q].pc # "writing"
    BY <1>1, ReadyFields DEF ImportInv, OneWriter
  <1>4. \A q \in Request : ValidRows(q)' = ValidRows(q)
    BY DEF ValidRows
  <1>5. /\ table'.items = AllItems /\ table'.names = AllNames /\ table'.sources = AllSources
        /\ AllItems' = AllItems /\ AllNames' = AllNames /\ AllSources' = AllSources
        /\ staged'.items = {}
    BY SeenFields, EmptyFields DEF AllItems, AllNames, AllSources
  <1>6. ImportTypes' /\ OneWriter' /\ AnswerEnds' /\ StagedOK'
    BY <1>1, <1>2, <1>3, <1>5, ReadyFields
       DEF ImportTypes, OneWriter, AnswerEnds, StagedOK, ImportInv
  <1>7. TableOK'
    <2> SUFFICES ASSUME NEW i \in AllItems PROVE ItemOK(i)' /\ Imported(i.by)'
      BY <1>5 DEF TableOK
    <2>1. ItemOK(i) /\ ItemOK(i)' /\ i.by \in Request
      BY <1>4 DEF ImportInv, TableOK, StagedOK, AllItems, ItemOK
    <2>2. CASE i \in table.items
      <3>1. Imported(i.by)
        BY <2>2 DEF ImportInv, TableOK
      <3>2. QED
        BY <1>1, <1>2, <2>1, <3>1 DEF Imported
    <2>3. CASE i \in staged.items
      <3>1. i.by = r
        BY <2>1, <2>3 DEF ImportInv, StagedOK, OneWriter
      <3>2. QED
        BY <1>2, <2>1, <3>1
    <2>4. QED
      BY <2>2, <2>3 DEF AllItems
  <1>8. DoubtOK'
    BY <1>1, <1>2 DEF DoubtOK, ImportInv
  <1>9. KnownOK'
    BY <1>1, <1>2, <1>3, <1>5, ReadyFields DEF KnownOK, ImportInv, AllSources
  <1>10. UrlsOnce'
    BY <1>5 DEF UrlsOnce, ImportInv
  <1>11. QED
    BY <1>6, <1>7, <1>8, <1>9, <1>10 DEF ImportInv

\* A page deletes rows, and with an item its sources, while nobody writes.
LEMMA DeleteKeeps ==
    ASSUME ImportInv, NEW items, NEW names, NEW sources, Delete(items, names, sources),
           \A s \in table.sources : Item(s.by, s.row) \in items => s \in sources
    PROVE  ImportInv'
  <1> DEFINE More(r) == imp[r].gone \cup (imp[r].known \cap {s.url : s \in sources})
  <1>1. /\ staged = Empty /\ staged' = Empty /\ UNCHANGED <<given, answer, doubtful>>
        /\ \A r \in Request : imp[r].pc # "writing"
    BY DEF Delete, ImportInv, OneWriter
  <1>2. /\ table'.items = table.items \ items /\ table'.names = table.names \ names
        /\ table'.sources = table.sources \ sources
    BY DEF Delete
  <1>3. /\ DOMAIN imp' = Request
        /\ \A r \in Request : imp'[r] = [imp[r] EXCEPT !.gone = More(r)]
    BY DEF Delete
  <1>4. \A r \in Request : /\ imp'[r].pc = imp[r].pc /\ imp'[r].known = imp[r].known
                           /\ imp'[r].gone = More(r) /\ DOMAIN imp'[r] = {"pc", "known", "gone"}
    BY <1>3 DEF ImportInv, ImportTypes
  <1>5. /\ AllItems' = table'.items /\ AllNames' = table'.names /\ AllSources' = table'.sources
        /\ AllItems = table.items /\ AllSources = table.sources /\ staged'.items = {}
    BY <1>1, EmptyFields DEF AllItems, AllNames, AllSources
  <1> HIDE DEF More
  <1>6. \A r \in Request : ValidRows(r)' = ValidRows(r)
    BY <1>1 DEF ValidRows
  <1>7. ImportTypes'
    BY <1>1, <1>3, <1>4 DEF ImportTypes, ImportInv
  <1>8. OneWriter' /\ AnswerEnds' /\ StagedOK'
    BY <1>1, <1>4, <1>5 DEF OneWriter, AnswerEnds, ImportInv, StagedOK
  <1>9. TableOK' /\ DoubtOK'
    BY <1>1, <1>2, <1>6 DEF TableOK, DoubtOK, ImportInv, ItemOK, Imported
  <1>10. KnownOK'
    <2> SUFFICES ASSUME NEW r \in Request, NEW u \in imp[r].known, imp[r].pc = "known"
                 PROVE  u \in More(r) \/ \E s \in table.sources \ sources : s.url = u
      BY <1>1, <1>2, <1>4 DEF KnownOK
    <2>1. u \in imp[r].gone \/ \E s \in table.sources : s.url = u
      BY DEF KnownOK, ImportInv
    <2>2. QED
      BY <2>1 DEF More
  <1>11. UrlsOnce'
    <2>1. /\ \A s, t \in table.sources : s.url = t.url => s = t
          /\ \A s \in table.sources : Item(s.by, s.row) \in table.items
      BY <1>5 DEF ImportInv, UrlsOnce
    <2>2. QED
      BY <1>2, <1>5, <2>1 DEF UrlsOnce
  <1>12. QED
    BY <1>7, <1>8, <1>9, <1>10, <1>11 DEF ImportInv

LEMMA CrashKeepsImports == ImportInv /\ CrashImports => ImportInv'
  <1> SUFFICES ASSUME ImportInv, CrashImports PROVE ImportInv'
    OBVIOUS
  <1>1. /\ \A q \in Request : imp'[q].pc = "idle" /\ DOMAIN imp'[q] = {"pc", "known", "gone"}
        /\ \A q \in Request : answer'[q] = IF imp[q].pc # "idle" THEN "lost" ELSE answer[q]
        /\ DOMAIN imp' = Request /\ DOMAIN answer' = Request
        /\ UNCHANGED <<given, table, doubtful>> /\ staged' = Empty
    BY ReadyFields DEF CrashImports
  <1>2. \A q \in Request : Imported(q) \/ q \in doubtful => answer'[q] = answer[q]
    BY <1>1 DEF Imported, ImportInv, AnswerEnds, DoubtOK
  <1>3. \A q \in Request : ValidRows(q)' = ValidRows(q)
    BY <1>1 DEF ValidRows
  <1>4. /\ AllItems' = table.items /\ AllNames' = table.names /\ AllSources' = table.sources
        /\ staged'.items = {}
    BY <1>1, EmptyFields DEF AllItems, AllNames, AllSources
  <1>5. ImportTypes' /\ OneWriter' /\ AnswerEnds' /\ StagedOK' /\ KnownOK'
    BY <1>1, <1>4 DEF ImportTypes, OneWriter, AnswerEnds, StagedOK, KnownOK, ImportInv
  <1>6. TableOK'
    BY <1>1, <1>2, <1>3 DEF TableOK, ImportInv, ItemOK, Imported
  <1>7. DoubtOK'
    BY <1>1, <1>2 DEF DoubtOK, ImportInv
  <1>8. UrlsOnce'
    <2>1. /\ \A s, t \in table.sources : s.url = t.url => s = t
          /\ \A s \in table.sources : Item(s.by, s.row) \in table.items
      BY DEF ImportInv, UrlsOnce, AllSources
    <2>2. QED
      BY <1>1, <1>4, <2>1 DEF UrlsOnce
  <1>9. QED
    BY <1>5, <1>6, <1>7, <1>8 DEF ImportInv

LEMMA NextImportInv == ImportInv /\ [ImportNext]_importVars => ImportInv'
  <1> SUFFICES ASSUME ImportInv, [ImportNext]_importVars PROVE ImportInv'
    OBVIOUS
  <1>1. CASE UNCHANGED importVars
    <2>1. UNCHANGED <<given, imp, staged, table, answer, doubtful>>
      BY <1>1 DEF importVars
    <2>2. ImportTypes' /\ OneWriter' /\ AnswerEnds' /\ DoubtOK'
      BY <2>1 DEF ImportInv, ImportTypes, OneWriter, AnswerEnds, DoubtOK
    <2>3. StagedOK'
      BY <2>1 DEF ImportInv, StagedOK, ItemOK, ValidRows, Filed, AllNames, AllSources
    <2>4. TableOK'
      BY <2>1 DEF ImportInv, TableOK, ItemOK, ValidRows, Imported
    <2>5. KnownOK' /\ UrlsOnce'
      BY <2>1 DEF ImportInv, KnownOK, UrlsOnce, AllItems, AllSources
    <2>6. QED
      BY <2>2, <2>3, <2>4, <2>5 DEF ImportInv
  <1>2. ASSUME NEW r \in Request, PreviewRows(r) PROVE ImportInv'
    <2>1. imp[r].pc = "idle" /\ answer[r] = "none" /\ DOMAIN imp[r] = {"pc", "known", "gone"}
      BY <1>2 DEF PreviewRows, ImportInv, ImportTypes
    <2>2. /\ DOMAIN imp = Request /\ DOMAIN answer = Request
          /\ UNCHANGED <<given, staged, table, doubtful>>
      BY <1>2 DEF ImportInv, ImportTypes, PreviewRows
    <2>3. Ready("previewed").pc = "previewed" /\ DOMAIN Ready("previewed") = {"pc", "known", "gone"}
      BY ReadyFields
    <2>4. CASE answer' = [answer EXCEPT ![r] = "nothing"] /\ UNCHANGED imp
      BY <2>1, <2>2, <2>4, QuietStepKeeps
    <2>5. CASE imp' = [imp EXCEPT ![r] = Ready("previewed")] /\ UNCHANGED answer
      BY <2>1, <2>2, <2>3, <2>5, QuietStepKeeps
    <2>6. QED
      BY <1>2, <2>4, <2>5 DEF PreviewRows
  <1>3. ASSUME NEW r \in Request, ReadKnown(r) PROVE ImportInv'
    <2> PICK x : x = [Ready("known") EXCEPT !.known = {s.url : s \in table.sources}]
      OBVIOUS
    <2>1. imp[r].pc = "previewed" /\ answer[r] = "none"
      BY <1>3 DEF ReadKnown, ImportInv, AnswerEnds
    <2>2. DOMAIN imp = Request /\ DOMAIN answer = Request
      BY DEF ImportInv, ImportTypes
    <2>3. /\ imp' = [imp EXCEPT ![r] = x] /\ UNCHANGED <<given, staged, table, answer, doubtful>>
      BY <1>3 DEF ReadKnown
    <2>4. /\ x.pc = "known" /\ x.known = {s.url : s \in table.sources}
          /\ DOMAIN x = {"pc", "known", "gone"}
      BY ReadyFields
    <2>5. \A u \in x.known : \E s \in table.sources : s.url = u
      BY <2>4
    <2>6. PICK told : told = answer[r]
      OBVIOUS
    <2>7. DOMAIN imp' = Request /\ \A q \in Request : imp'[q] = IF q = r THEN x ELSE imp[q]
      BY <2>2, <2>3
    <2>8. DOMAIN answer' = Request /\ \A q \in Request : answer'[q] = IF q = r THEN told ELSE answer[q]
      BY <2>2, <2>3, <2>6
    <2>9. /\ x.pc \in {"idle", "previewed", "known"} /\ told = "none" /\ answer[r] = "none"
          /\ imp[r].pc # "writing" /\ DOMAIN x = {"pc", "known", "gone"}
          /\ UNCHANGED <<given, staged, table, doubtful>>
      BY <2>1, <2>3, <2>4, <2>6
    <2>10. QED
      BY <2>5, <2>7, <2>8, <2>9, QuietStepKeeps
  <1>4. ASSUME NEW r \in Request, WriteRow(r) PROVE ImportInv'
    <2> PICK n, row, new : n = NextRow(r) /\ row = given[r][n] /\ new = NewSource(r, n, row.url)
      OBVIOUS
    <2>1. /\ imp[r].pc \in {"known", "writing"} /\ answer[r] = "none"
          /\ \E k \in ValidRows(r) : Item(r, k) \notin staged.items
      BY <1>4 DEF WriteRow, Item, ImportInv, AnswerEnds
    <2>2. CASE LockFree(r) /\ \A s \in new : \A t \in AllSources : t.url # s.url
      <3> PICK x : x = [pc |-> "writing", known |-> imp[r].known \cup {s.url : s \in new},
                        gone |-> imp[r].gone]
        OBVIOUS
      <3>1. /\ staged' = [items |-> staged.items \cup {Item(r, n)},
                          names |-> staged.names \cup GetOrCreate(row.name),
                          sources |-> staged.sources \cup new]
            /\ imp' = [imp EXCEPT ![r] = [pc |-> "writing",
                                          known |-> imp[r].known \cup {s.url : s \in new},
                                          gone |-> imp[r].gone]]
            /\ UNCHANGED <<given, table, answer, doubtful>>
        BY <1>4, <2>2, SeenFields DEF WriteRow, Item
      <3>2. imp' = [imp EXCEPT ![r] = x]
        BY <3>1
      <3>3. /\ DOMAIN x = {"pc", "known", "gone"} /\ x.pc = "writing"
            /\ x.known = imp[r].known \cup {s.url : s \in new} /\ x.gone = imp[r].gone
        OBVIOUS
      <3>4. /\ staged' = [items |-> staged.items \cup {Item(r, n)},
                          names |-> staged.names \cup GetOrCreate(row.name),
                          sources |-> staged.sources \cup new]
            /\ UNCHANGED <<given, table, answer, doubtful>>
        BY <3>1, Zenon
      <3>5. QED
        BY <2>1, <2>2, <3>2, <3>3, <3>4, WriteKeeps
    <2>3. CASE ~(LockFree(r) /\ \A s \in new : \A t \in AllSources : t.url # s.url)
      <3>1. FailImport(r) /\ staged' = IF LockFree(r) THEN Empty ELSE staged
        BY <1>4, <2>3, SeenFields DEF WriteRow
      <3>2. CASE imp[r].pc = "writing"
        <4>1. LockFree(r)
          BY <3>2 DEF LockFree, ImportInv, OneWriter
        <4>2. QED
          BY <3>1, <3>2, <4>1, AbortKeeps
      <3>3. CASE imp[r].pc # "writing"
        <4>1. LockFree(r) => staged = Empty
          BY <3>3 DEF LockFree, ImportInv, OneWriter
        <4>2. /\ imp' = [imp EXCEPT ![r] = Ready("idle")]
              /\ answer' = [answer EXCEPT ![r] = "import_failed"]
              /\ UNCHANGED <<given, staged, table, doubtful>>
          BY <3>1, <4>1 DEF FailImport
        <4>3. /\ DOMAIN imp = Request /\ DOMAIN answer = Request
              /\ Ready("idle").pc = "idle" /\ DOMAIN Ready("idle") = {"pc", "known", "gone"}
          BY ReadyFields DEF ImportInv, ImportTypes
        <4>4. QED
          BY <2>1, <3>3, <4>2, <4>3, QuietStepKeeps
      <3>4. QED
        BY <3>2, <3>3
    <2>4. QED
      BY <2>2, <2>3
  <1>5. ASSUME NEW r \in Request, BreakImport(r) PROVE ImportInv'
    BY <1>5, AbortKeeps DEF BreakImport
  <1>6. ASSUME NEW r \in Request, CommitImport(r) PROVE ImportInv'
    <2>1. /\ imp[r].pc = "writing" /\ UNCHANGED given /\ staged' = Empty
          /\ imp' = [imp EXCEPT ![r] = Ready("idle")]
      BY <1>6 DEF CommitImport
    <2>2. CASE answer' = [answer EXCEPT ![r] = "imported"] /\ UNCHANGED doubtful /\ table' = Seen
      BY <2>1, <2>2, CommittedKeeps
    <2>3. CASE /\ answer' = [answer EXCEPT ![r] = "import_failed"] /\ doubtful' = doubtful \cup {r}
               /\ table' = Seen
      BY <2>1, <2>3, CommittedKeeps
    <2>4. CASE /\ answer' = [answer EXCEPT ![r] = "import_failed"] /\ UNCHANGED <<table, doubtful>>
      <3>1. FailImport(r)
        BY <2>1, <2>4 DEF FailImport
      <3>2. QED
        BY <2>1, <3>1, AbortKeeps
    <2>5. QED
      BY <1>6, <2>2, <2>3, <2>4 DEF CommitImport
  <1>7. ASSUME DeleteSource PROVE ImportInv'
    <2>1. PICK s \in table.sources : Delete({}, {}, {s})
      BY <1>7 DEF DeleteSource
    <2>2. QED
      BY <2>1, DeleteKeeps
  <1>8. ASSUME DeleteItem PROVE ImportInv'
    <2>1. PICK i \in table.items :
              Delete({i}, {}, {s \in table.sources : s.by = i.by /\ s.row = i.row})
      BY <1>8 DEF DeleteItem
    <2>2. \A s \in table.sources : Item(s.by, s.row) \in {i} => s.by = i.by /\ s.row = i.row
      BY DEF Item
    <2>3. QED
      BY <2>1, <2>2, DeleteKeeps
  <1>9. ASSUME DeleteName PROVE ImportInv'
    <2>1. PICK name \in table.names : Delete({}, {name}, {})
      BY <1>9 DEF DeleteName
    <2>2. QED
      BY <2>1, DeleteKeeps
  <1>10. QED
    BY <1>1, <1>2, <1>3, <1>4, <1>5, <1>6, <1>7, <1>8, <1>9, CrashKeepsImports DEF ImportNext

\* A step that adds no item and tells nobody imported: whoever is told
\* import_failed had not been told anything before.
LEMMA NothingImported ==
    ASSUME ImportInv, table'.items \subseteq table.items, UNCHANGED <<given, doubtful>>,
           \A r \in Request : answer'[r] # answer[r] =>
               answer'[r] # "imported" /\ (answer'[r] = "import_failed" => answer[r] = "none")
    PROVE  ImportIsWhole /\ ImportTold
  <1>1. ImportIsWhole
    <2> SUFFICES ASSUME NEW r \in Request
                 PROVE  {i.row : i \in {j \in table'.items \ table.items : j.by = r}} = {}
      BY DEF ImportIsWhole
    <2>1. {j \in table'.items \ table.items : j.by = r} = {}
      OBVIOUS
    <2>2. QED
      BY <2>1
  <1>2. ASSUME NEW r \in Request, answer[r] = "none"
        PROVE  \A i \in table.items : i.by # r
    BY <1>2 DEF ImportInv, TableOK, DoubtOK, Imported
  <1>3. ImportTold
    BY <1>2 DEF ImportTold
  <1>4. QED
    BY <1>1, <1>3

\* A commit that takes effect brings in all the request's rows, with what they refer to.
LEMMA CommitIsWhole ==
    ASSUME ImportInv, NEW r \in Request, NEW told, imp[r].pc = "writing",
           \A n \in ValidRows(r) : Item(r, n) \in staged.items, table' = Seen, UNCHANGED given,
           answer' = [answer EXCEPT ![r] = told],
           told = "imported" \/ (told = "import_failed" /\ r \in doubtful')
    PROVE  ImportIsWhole /\ ImportTold
  <1>1. answer[r] = "none" /\ \A q \in Request : q # r => answer'[q] = answer[q]
    BY DEF ImportInv, AnswerEnds, ImportTypes
  <1>2. answer'[r] = told
    BY DEF ImportInv, ImportTypes
  <1>3. /\ table'.items = table.items \cup staged.items /\ table'.names = AllNames
        /\ table'.sources = AllSources
    BY SeenFields DEF AllItems
  <1>4. \A i \in staged.items : i.by = r /\ i.row \in ValidRows(r) /\ i \notin table.items
    <2> SUFFICES ASSUME NEW i \in staged.items
                 PROVE  i.by = r /\ i.row \in ValidRows(r) /\ i \notin table.items
      OBVIOUS
    <2>1. i.by = r /\ i.row \in ValidRows(r)
      BY DEF ImportInv, StagedOK, OneWriter, ItemOK
    <2>2. i \notin table.items
      BY <1>1, <2>1 DEF ImportInv, TableOK, Imported
    <2>3. QED
      BY <2>1, <2>2
  <1>5. ImportIsWhole
    <2> SUFFICES ASSUME NEW q \in Request
                 PROVE  {i.row : i \in {j \in table'.items \ table.items : j.by = q}}
                            \in {{}, ValidRows(q)}
      BY DEF ImportIsWhole
    <2>1. table'.items \ table.items = staged.items
      BY <1>3, <1>4
    <2>2. CASE q # r
      <3>1. {j \in staged.items : j.by = q} = {}
        BY <1>4, <2>2
      <3>2. QED
        BY <2>1, <3>1
    <2>3. CASE q = r
      <3>1. {j \in staged.items : j.by = q} = staged.items
        BY <1>4, <2>3
      <3>2. \A n \in ValidRows(r) : \E i \in staged.items : i.row = n
        BY DEF Item
      <3>3. {i.row : i \in staged.items} = ValidRows(r)
        BY <1>4, <3>2
      <3>4. QED
        BY <2>1, <2>3, <3>1, <3>3
    <2>4. QED
      BY <2>2, <2>3
  <1>6. ASSUME NEW n \in ValidRows(r)
        PROVE  /\ Item(r, n) \in table'.items
               /\ given[r][n].name \in table'.names
               /\ given[r][n].url # NoUrl =>
                      \/ \E s \in table'.sources : s.url = given[r][n].url
                      \/ given[r][n].url \in imp[r].gone
    <2>1. Item(r, n) \in staged.items
      OBVIOUS
    <2>2. Filed(Item(r, n), AllNames, AllSources)
      BY <2>1 DEF ImportInv, StagedOK
    <2>3. Item(r, n).by = r /\ Item(r, n).row = n
      BY DEF Item
    <2>4. QED
      BY <1>3, <2>1, <2>2, <2>3 DEF Filed
  <1>7. ImportTold
    <2> SUFFICES ASSUME NEW q \in Request, answer'[q] # answer[q]
                 PROVE  q = r /\ (answer'[q] = "imported" \/ r \in doubtful')
      BY <1>6 DEF ImportTold, Item
    <2>1. QED
      BY <1>1, <1>2
  <1>8. QED
    BY <1>5, <1>7

\* An import becomes durable as a whole or not at all, and its answer says which,
\* whatever fails and whoever imports or deletes meanwhile, but for a URL deleted
\* after it was read as known and a commit that raised after its effect
\* (import_valid_rows: one commit, the write lock from the first insert), for any
\* number of requests and rows.
THEOREM ImportsAreTruthful == ImportSpec => ImportTruthful
  <1>1. ImportSpec => []ImportInv
    BY InitImportInv, NextImportInv, PTL DEF ImportSpec
  <1>2. ImportInv /\ [ImportNext]_importVars => [ImportIsWhole /\ ImportTold]_importVars
    <2> SUFFICES ASSUME ImportInv, ImportNext PROVE ImportIsWhole /\ ImportTold
      OBVIOUS
    <2>1. DOMAIN answer = Request
      BY DEF ImportInv, ImportTypes
    <2>2. ASSUME NEW r \in Request, PreviewRows(r) PROVE ImportIsWhole /\ ImportTold
      BY <2>1, <2>2, NothingImported DEF PreviewRows
    <2>3. ASSUME NEW r \in Request, ReadKnown(r) PROVE ImportIsWhole /\ ImportTold
      BY <2>3, NothingImported DEF ReadKnown
    <2>4. ASSUME NEW r \in Request, imp[r].pc # "idle", FailImport(r)
          PROVE  ImportIsWhole /\ ImportTold
      <3>1. answer[r] = "none"
        BY <2>4 DEF ImportInv, AnswerEnds
      <3>2. QED
        BY <2>1, <2>4, <3>1, NothingImported DEF FailImport
    <2>5. ASSUME NEW r \in Request, WriteRow(r) PROVE ImportIsWhole /\ ImportTold
      <3>1. CASE FailImport(r)
        BY <2>4, <2>5, <3>1 DEF WriteRow
      <3>2. CASE UNCHANGED <<given, table, answer, doubtful>>
        BY <3>2, NothingImported
      <3>3. QED
        BY <2>5, <3>1, <3>2 DEF WriteRow
    <2>6. ASSUME NEW r \in Request, BreakImport(r) PROVE ImportIsWhole /\ ImportTold
      BY <2>4, <2>6 DEF BreakImport
    <2>7. ASSUME NEW r \in Request, CommitImport(r) PROVE ImportIsWhole /\ ImportTold
      <3>1. /\ imp[r].pc = "writing" /\ UNCHANGED given
            /\ \A n \in ValidRows(r) : Item(r, n) \in staged.items
            /\ imp' = [imp EXCEPT ![r] = Ready("idle")]
        BY <2>7 DEF CommitImport, Item
      <3>2. CASE table' = Seen /\ answer' = [answer EXCEPT ![r] = "imported"]
        BY <3>1, <3>2, CommitIsWhole
      <3>3. CASE /\ table' = Seen /\ answer' = [answer EXCEPT ![r] = "import_failed"]
                 /\ doubtful' = doubtful \cup {r}
        BY <3>1, <3>3, CommitIsWhole
      <3>4. CASE answer' = [answer EXCEPT ![r] = "import_failed"] /\ UNCHANGED <<table, doubtful>>
        BY <2>4, <3>1, <3>4 DEF FailImport
      <3>5. QED
        BY <2>7, <3>2, <3>3, <3>4 DEF CommitImport
    <2>8. ASSUME NEW items, NEW names, NEW sources, Delete(items, names, sources)
          PROVE  ImportIsWhole /\ ImportTold
      <3>1. table'.items \subseteq table.items /\ UNCHANGED <<given, answer, doubtful>>
        BY <2>8 DEF Delete
      <3>2. QED
        BY <3>1, NothingImported
    <2>9. CASE CrashImports
      <3>1. \A r \in Request : answer'[r] # answer[r] => answer'[r] = "lost"
        BY <2>9 DEF CrashImports
      <3>2. UNCHANGED <<given, table, doubtful>>
        BY <2>9 DEF CrashImports
      <3>3. QED
        BY <3>1, <3>2, NothingImported
    <2>10. QED
      BY <2>2, <2>3, <2>5, <2>6, <2>7, <2>8, <2>9
         DEF ImportNext, DeleteSource, DeleteItem, DeleteName
  <1>3. QED
    BY <1>1, <1>2, PTL DEF ImportSpec, ImportTruthful

(***************************************************************************)
(* Schema                                                                  *)
(*                                                                         *)
(* The recorded versions are a chain without a gap, and the structure is   *)
(* the newest one's unless someone dropped a part (RecordOK).  A running   *)
(* upgrade is such a chain too, longer by the steps it has done            *)
(* (UpgradeOK), and nothing else writes meanwhile: an empty database is    *)
(* filled only while no older version is recorded (BootOK).                *)
(***************************************************************************)
Chain(versions, v) == v \in 1..6 /\ \E w \in 1..v : versions = w..v
Built(parts, v) == parts \subseteq Structure(v) /\ (~damaged => parts = Structure(v))

RecordOK ==
    \/ recorded = {}
    \/ recorded = {7}
    \/ \E v \in 1..6 : Chain(recorded, v) /\ Built(schema, v)

PartsOK == schema \subseteq Parts /\ (recorded # {} => "versions" \in schema)

BootOK ==
    /\ DOMAIN boot = Starter
    /\ \A p \in Starter :
        /\ {"pc", "todo"} \subseteq DOMAIN boot[p]
        /\ boot[p].pc = "create" =>
              /\ recorded \in {{}, {6}}
              /\ boot[p].todo \subseteq Parts
              /\ ~damaged => Parts \ boot[p].todo \subseteq schema

\* An upgrade that began at v and has come to k.
UpgradeAt(v, k) ==
    /\ v <= k /\ Chain(recorded, v) /\ Chain(upgrade.versions, k)
    /\ schema \subseteq upgrade.parts /\ Built(upgrade.parts, k)
    /\ \A x \in 1..5 : v <= x /\ x < k => AddedBy[x] \in upgrade.parts
    /\ v = k => upgrade.parts = schema /\ upgrade.versions = recorded

UpgradeOK ==
    \/ upgrade.pc = "idle"
    \/ /\ upgrade.pc = "step" /\ {"pc", "parts", "versions"} \subseteq DOMAIN upgrade
       /\ toldUpgrade = "none"
       /\ \E v \in 1..5, k \in 1..6 : UpgradeAt(v, k)

SchemaInv == RecordOK /\ PartsOK /\ BootOK /\ UpgradeOK

LEMMA NewestOfChain ==
    ASSUME NEW w \in Nat, NEW v \in Nat, w <= v
    PROVE  Newest(w..v) = v
  <1>1. v \in w..v /\ \A x \in w..v : v >= x
    OBVIOUS
  <1>2. \A m \in w..v : (\A x \in w..v : m >= x) => m = v
    BY <1>1
  <1>3. Max(w..v) = v
    BY <1>1, <1>2 DEF Max
  <1>4. QED
    BY <1>1, <1>3 DEF Newest

LEMMA ChainFacts ==
    ASSUME NEW versions, NEW v, Chain(versions, v)
    PROVE  /\ v \in 1..6 /\ versions # {} /\ v \in versions /\ Newest(versions) = v
           /\ \A x \in versions : \A y \in x..v : y \in versions
           /\ versions # {7}
  <1>1. PICK w \in 1..v : versions = w..v
    BY DEF Chain
  <1>2. v \in 1..6 /\ w \in Nat /\ v \in Nat /\ w <= v
    BY <1>1 DEF Chain
  <1>3. Newest(versions) = v
    BY <1>1, <1>2, NewestOfChain
  <1>4. QED
    BY <1>1, <1>2, <1>3

LEMMA ChainGrows ==
    ASSUME NEW versions, NEW v, Chain(versions, v), v <= 5
    PROVE  Chain(versions \cup {v + 1}, v + 1)
  <1>1. PICK w \in 1..v : versions = w..v
    BY DEF Chain
  <1>2. v \in 1..5 /\ versions \cup {v + 1} = w..(v + 1)
    BY <1>1 DEF Chain
  <1>3. QED
    BY <1>2 DEF Chain

LEMMA NewestSeven == Newest({7}) = 7
  <1>1. \A m : m \in {7} /\ (\A x \in {7} : m >= x) <=> m = 7
    OBVIOUS
  <1>2. Max({7}) = 7
    BY <1>1 DEF Max
  <1>3. QED
    BY <1>2 DEF Newest

LEMMA Steps ==
    /\ AddedBy[1] = "sources" /\ AddedBy[2] = "index" /\ AddedBy[3] = "tracking"
    /\ AddedBy[4] = "tasks" /\ AddedBy[5] = "runtime"
    /\ NeededBy[1] = {"items"} /\ NeededBy[2] = {"items", "catalogue", "sources", "versions"}
    /\ NeededBy[3] = {"sources"}
    /\ NeededBy[4] = {"sources", "tracking"} /\ NeededBy[5] = {"tasks"}
  BY DEF AddedBy, NeededBy

LEMMA StructureGrows ==
    ASSUME NEW v \in 1..5
    PROVE  Structure(v + 1) = Structure(v) \cup {AddedBy[v]} /\ AddedBy[v] \notin Structure(v)
  <1>1. 1..((v + 1) - 1) = (1..(v - 1)) \cup {v}
    OBVIOUS
  <1>2. Structure(v + 1) = Structure(v) \cup {AddedBy[v]}
    BY <1>1 DEF Structure
  <1>3. \A w \in 1..(v - 1) : AddedBy[w] # AddedBy[v]
    BY Steps
  <1>4. AddedBy[v] \notin {"items", "catalogue", "versions"}
    BY Steps
  <1>5. QED
    BY <1>2, <1>3, <1>4 DEF Structure

\* A step asks for nothing that its version does not have.
LEMMA StructureSuffices ==
    ASSUME NEW v \in 1..5
    PROVE  NeededBy[v] \subseteq Structure(v)
  <1>1. {"items", "catalogue", "versions"} \subseteq Structure(v)
    BY DEF Structure
  <1>2. \A w \in 1..(v - 1) : AddedBy[w] \in Structure(v)
    BY DEF Structure
  <1>3. v >= 2 => "sources" \in Structure(v)
    BY <1>2, Steps
  <1>4. v >= 4 => "tracking" \in Structure(v)
    BY <1>2, Steps
  <1>5. v >= 5 => "tasks" \in Structure(v)
    BY <1>2, Steps
  <1>6. v \in {1, 2, 3, 4, 5}
    OBVIOUS
  <1>7. QED
    BY <1>1, <1>3, <1>4, <1>5, <1>6, Steps

LEMMA WholeIsAll ==
    /\ WholeSchema = Parts /\ Structure(6) = Parts
    /\ \A v \in 1..6 : Structure(v) \subseteq Parts /\ "versions" \in Structure(v)
  <1>1. Structure(6) = {"items", "catalogue", "versions"} \cup {AddedBy[w] : w \in {1, 2, 3, 4, 5}}
    BY 1..(6 - 1) = {1, 2, 3, 4, 5} DEF Structure
  <1>2. {AddedBy[w] : w \in {1, 2, 3, 4, 5}} = {"sources", "index", "tracking", "tasks", "runtime"}
    BY Steps
  <1>3. Structure(6) = Parts
    BY <1>1, <1>2 DEF Parts
  <1>4. WholeSchema = Parts
    BY <1>3 DEF WholeSchema, CURRENT_SCHEMA_VERSION
  <1>5. ASSUME NEW v \in 1..6 PROVE Structure(v) \subseteq Parts /\ "versions" \in Structure(v)
    <2>1. \A w \in 1..(v - 1) : AddedBy[w] \in Parts
      BY Steps DEF Parts
    <2>2. QED
      BY <2>1 DEF Structure, Parts
  <1>6. QED
    BY <1>3, <1>4, <1>5

LEMMA InitSchemaInv == SchemaInit => SchemaInv
  <1> SUFFICES ASSUME SchemaInit PROVE SchemaInv
    OBVIOUS
  <1>1. BootOK /\ UpgradeOK
    <2>1. \A p \in Starter : boot[p] = Boot("down")
      BY DEF SchemaInit
    <2>2. DOMAIN boot = Starter /\ upgrade.pc = "idle"
      BY DEF SchemaInit, NoUpgrade
    <2>3. {"pc", "todo"} \subseteq DOMAIN Boot("down") /\ Boot("down").pc = "down"
      BY DEF Boot
    <2>4. QED
      BY <2>1, <2>2, <2>3 DEF BootOK, UpgradeOK
  <1>2. ~damaged
    BY DEF SchemaInit
  <1>3. schema = {} /\ recorded = {} => RecordOK /\ PartsOK
    BY DEF RecordOK, PartsOK
  <1>4. ASSUME NEW v \in 1..6, schema = Structure(v), \E w \in 1..v : recorded = w..v
        PROVE  RecordOK /\ PartsOK
    <2>1. Chain(recorded, v) /\ Built(schema, v)
      BY <1>4 DEF Chain, Built
    <2>2. QED
      BY <1>4, <2>1, WholeIsAll DEF RecordOK, PartsOK
  <1>5. ASSUME NEW v \in 1..6, schema = Structure(v) \ {"versions"}, recorded = {}
        PROVE  RecordOK /\ PartsOK
    BY <1>5, WholeIsAll DEF RecordOK, PartsOK
  <1>6. schema = WholeSchema /\ recorded = {7} => RecordOK /\ PartsOK
    BY WholeIsAll DEF RecordOK, PartsOK, Parts
  <1>7. RecordOK /\ PartsOK
    <2>1. CURRENT_SCHEMA_VERSION = 6 /\ 6 + 1 = 7
      BY DEF CURRENT_SCHEMA_VERSION
    <2>2. CASE schema = {} /\ recorded = {}
      BY <1>3, <2>2
    <2>3. CASE \E v \in 1..6 : schema = Structure(v) /\ \E w \in 1..v : recorded = w..v
      BY <1>4, <2>3
    <2>4. CASE \E v \in 1..6 : schema = Structure(v) \ {"versions"} /\ recorded = {}
      BY <1>5, <2>4
    <2>5. CASE schema = WholeSchema /\ recorded = {7}
      BY <1>6, <2>5
    <2>6. QED
      BY <2>1, <2>2, <2>3, <2>4, <2>5 DEF SchemaInit
  <1>8. QED
    BY <1>1, <1>7 DEF SchemaInv

LEMMA StatusValues ==
    ASSUME NEW parts, NEW versions, NEW n \in Nat, n = Newest(versions)
    PROVE  /\ StatusOf(parts, versions) = "unknown" <=> "versions" \notin parts \/ versions = {}
           /\ StatusOf(parts, versions) = "current" <=>
                  "versions" \in parts /\ versions # {} /\ n = 6
           /\ StatusOf(parts, versions) = "upgrade_required" <=>
                  "versions" \in parts /\ versions # {} /\ n < 6
  <1>1. CASE "versions" \notin parts \/ versions = {}
    <2>1. StatusOf(parts, versions) = "unknown"
      BY <1>1 DEF StatusOf
    <2>2. QED
      BY <1>1, <2>1
  <1>2. CASE "versions" \in parts /\ versions # {} /\ n = 6
    <2>1. StatusOf(parts, versions) = "current"
      BY <1>2 DEF StatusOf, CURRENT_SCHEMA_VERSION
    <2>2. QED
      BY <1>2, <2>1
  <1>3. CASE "versions" \in parts /\ versions # {} /\ n < 6
    <2>1. StatusOf(parts, versions) = "upgrade_required"
      BY <1>3 DEF StatusOf, CURRENT_SCHEMA_VERSION
    <2>2. QED
      BY <1>3, <2>1
  <1>4. CASE "versions" \in parts /\ versions # {} /\ n > 6
    <2>1. StatusOf(parts, versions) = "application_outdated"
      BY <1>4 DEF StatusOf, CURRENT_SCHEMA_VERSION
    <2>2. QED
      BY <1>4, <2>1
  <1>5. QED
    BY <1>1, <1>2, <1>3, <1>4

\* What the status says of the record.
LEMMA StatusFacts ==
    ASSUME SchemaInv
    PROVE  /\ StatusOf(schema, recorded) = "upgrade_required" =>
                  /\ \E v \in 1..5 : Chain(recorded, v)
                  /\ upgrade.pc = "idle" \/ toldUpgrade = "none"
                  /\ recorded \notin {{}, {6}}
           /\ StatusOf(schema, recorded) = "current" => \E v \in {6} : Chain(recorded, v) /\ Built(schema, v)
           /\ StatusOf(schema, recorded) # "unknown" => "versions" \in schema
  <1>1. \A v : Chain(recorded, v) => v \in 1..6 /\ Newest(recorded) = v /\ recorded # {}
    BY ChainFacts
  <1>2. CASE recorded = {}
    <2>1. StatusOf(schema, recorded) = "unknown"
      BY <1>2 DEF StatusOf
    <2>2. QED
      BY <2>1
  <1>3. CASE recorded = {7}
    <2>1. StatusOf(schema, recorded) # "upgrade_required" /\ StatusOf(schema, recorded) # "current"
      BY <1>3, NewestSeven, StatusValues
    <2>2. "versions" \in schema
      BY <1>3 DEF SchemaInv, PartsOK
    <2>3. QED
      BY <2>1, <2>2
  <1>4. ASSUME NEW v \in 1..6, Chain(recorded, v), Built(schema, v)
        PROVE  /\ StatusOf(schema, recorded) = "upgrade_required" =>
                  /\ \E x \in 1..5 : Chain(recorded, x)
                  /\ upgrade.pc = "idle" \/ toldUpgrade = "none"
                  /\ recorded \notin {{}, {6}}
               /\ StatusOf(schema, recorded) = "current" => \E x \in {6} : Chain(recorded, x) /\ Built(schema, x)
               /\ StatusOf(schema, recorded) # "unknown" => "versions" \in schema
    <2>1. Newest(recorded) = v /\ recorded # {} /\ v \in recorded
      BY <1>4, ChainFacts
    <2>2. /\ StatusOf(schema, recorded) = "upgrade_required" => v < 6
          /\ StatusOf(schema, recorded) = "current" => v = 6
          /\ StatusOf(schema, recorded) # "unknown" => "versions" \in schema
      BY <2>1, StatusValues
    <2>3. v < 6 => v \in 1..5
      OBVIOUS
    <2>4. upgrade.pc = "idle" \/ toldUpgrade = "none"
      BY DEF SchemaInv, UpgradeOK
    <2>5. v < 6 => recorded # {6}
      BY <2>1
    <2>6. QED
      BY <1>4, <2>1, <2>2, <2>3, <2>4, <2>5
  <1>5. QED
    BY <1>2, <1>3, <1>4 DEF SchemaInv, RecordOK

\* While an upgrade runs, an older version is recorded and nothing fills the database.
LEMMA UpgradeAlone ==
    ASSUME SchemaInv, upgrade.pc = "step"
    PROVE  /\ {"pc", "parts", "versions"} \subseteq DOMAIN upgrade /\ toldUpgrade = "none"
           /\ recorded # {} /\ recorded # {6} /\ "versions" \in schema
           /\ \A p \in Starter : boot[p].pc # "create"
  <1>1. PICK v \in 1..5, k \in 1..6 : UpgradeAt(v, k)
    BY DEF SchemaInv, UpgradeOK
  <1>2. Chain(recorded, v)
    BY <1>1 DEF UpgradeAt
  <1>3. recorded # {} /\ recorded # {6}
    BY <1>2, ChainFacts
  <1>4. QED
    BY <1>3 DEF SchemaInv, UpgradeOK, BootOK, PartsOK

\* What a running upgrade knows does not depend on the processes.
LEMMA UpgradeStays ==
    ASSUME SchemaInv, UNCHANGED <<schema, recorded, upgrade, toldUpgrade, damaged>>
    PROVE  UpgradeOK'
  <1>1. \A v, k : UpgradeAt(v, k) => UpgradeAt(v, k)'
    <2>1. CanUpgrade' = CanUpgrade
      BY DEF CanUpgrade, StatusOf, Resolvable, Precheck, Newest
    <2>2. QED
      BY <2>1 DEF UpgradeAt, Chain, Built
  <1>2. QED
    BY <1>1 DEF SchemaInv, UpgradeOK

LEMMA RecordStays ==
    ASSUME SchemaInv, UNCHANGED <<schema, recorded, damaged>>
    PROVE  RecordOK' /\ PartsOK'
  BY DEF SchemaInv, RecordOK, PartsOK, Built

\* A process changes only its own state.
LEMMA BootStep ==
    ASSUME SchemaInv, NEW p \in Starter, NEW x, boot' = [boot EXCEPT ![p] = x],
           {"pc", "todo"} \subseteq DOMAIN x, x.pc # "create",
           UNCHANGED <<schema, recorded, upgrade, toldUpgrade, damaged>>
    PROVE  SchemaInv'
  <1>1. BootOK'
    BY DEF SchemaInv, BootOK
  <1>2. QED
    BY <1>1, UpgradeStays, RecordStays DEF SchemaInv

LEMMA BootFields ==
    ASSUME NEW pc
    PROVE  {"pc", "todo"} \subseteq DOMAIN Boot(pc) /\ Boot(pc).pc = pc
  BY DEF Boot

LEMMA StartKeeps ==
    ASSUME SchemaInv, NEW p \in Starter, StartProcess(p)
    PROVE  SchemaInv'
  <1>1. CASE ~MayFill
    <2>1. boot' = [boot EXCEPT ![p] = Boot(Judged)] /\ Judged # "create"
      BY <1>1 DEF StartProcess, Judged
    <2>2. {"pc", "todo"} \subseteq DOMAIN Boot(Judged) /\ Boot(Judged).pc # "create"
      BY <2>1, BootFields
    <2>3. UNCHANGED <<schema, recorded, upgrade, toldUpgrade, damaged>>
      BY DEF StartProcess
    <2>4. QED
      BY <2>1, <2>2, <2>3, BootStep
  <1>2. CASE MayFill
    <2> PICK todo : todo = Creatable
      OBVIOUS
    <2>1. /\ boot' = [boot EXCEPT ![p] = [pc |-> "create", todo |-> todo]]
          /\ UNCHANGED <<schema, recorded, upgrade, toldUpgrade, damaged>>
      BY <1>2 DEF StartProcess
    <2>2. recorded = {}
      BY <1>2 DEF MayFill, SchemaInv, PartsOK
    <2>3. todo \subseteq Parts /\ Parts \ todo \subseteq schema
      BY <1>2, WholeIsAll DEF Creatable, MayFill, StructureSound, Parts
    <2>4. BootOK'
      BY <2>1, <2>2, <2>3 DEF SchemaInv, BootOK
    <2>5. QED
      BY <2>1, <2>4, UpgradeStays, RecordStays DEF SchemaInv
  <1>3. QED
    BY <1>1, <1>2

LEMMA CreateKeeps ==
    ASSUME SchemaInv, NEW p \in Starter, CreateTable(p)
    PROVE  SchemaInv'
  <1>1. PICK part \in boot[p].todo :
           IF part \in schema \/ upgrade.pc # "idle"
           THEN boot' = [boot EXCEPT ![p] = Boot("refused")] /\ UNCHANGED schema
           ELSE schema' = schema \cup {part} /\ boot' = [boot EXCEPT ![p].todo = @ \ {part}]
    BY DEF CreateTable
  <1>2. UNCHANGED <<recorded, upgrade, toldUpgrade, damaged>> /\ boot[p].pc = "create"
    BY DEF CreateTable
  <1>3. CASE part \in schema \/ upgrade.pc # "idle"
    BY <1>1, <1>2, <1>3, BootFields, BootStep
  <1>4. CASE part \notin schema /\ upgrade.pc = "idle"
    <2>1. schema' = schema \cup {part} /\ boot' = [boot EXCEPT ![p].todo = @ \ {part}]
      BY <1>1, <1>4
    <2>2. /\ recorded \in {{}, {6}} /\ part \in Parts /\ {"pc", "todo"} \subseteq DOMAIN boot[p]
          /\ ~damaged => Parts \ boot[p].todo \subseteq schema
      BY <1>2 DEF SchemaInv, BootOK
    <2>3. PartsOK'
      BY <1>2, <2>1, <2>2 DEF SchemaInv, PartsOK
    <2>4. RecordOK'
      <3>1. CASE recorded = {}
        BY <1>2, <3>1 DEF RecordOK
      <3>2. CASE recorded = {6}
        <4>1. PICK v \in 1..6 : Chain(recorded, v) /\ Built(schema, v)
          BY <3>2 DEF SchemaInv, RecordOK
        <4>2. v = 6
          BY <3>2, <4>1, ChainFacts
        <4>3. Built(schema, 6)'
          BY <1>2, <1>4, <2>1, <2>2, <4>1, <4>2, WholeIsAll DEF Built
        <4>4. Chain(recorded, 6)' /\ 6 \in 1..6
          BY <1>2, <4>1, <4>2
        <4>5. QED
          BY <4>3, <4>4 DEF RecordOK
      <3>3. QED
        BY <2>2, <3>1, <3>2
    <2>5. BootOK'
      <3>1. /\ DOMAIN boot' = Starter /\ \A q \in Starter \ {p} : boot'[q] = boot[q]
            /\ boot'[p].pc = "create" /\ boot'[p].todo = boot[p].todo \ {part}
            /\ {"pc", "todo"} \subseteq DOMAIN boot'[p]
        BY <1>2, <2>1, <2>2 DEF SchemaInv, BootOK
      <3>2. QED
        BY <1>2, <2>1, <2>2, <3>1 DEF SchemaInv, BootOK
    <2>6. UpgradeOK'
      BY <1>2, <1>4 DEF UpgradeOK
    <2>7. QED
      BY <2>3, <2>4, <2>5, <2>6 DEF SchemaInv
  <1>5. QED
    BY <1>3, <1>4

LEMMA RegisterKeeps ==
    ASSUME SchemaInv, NEW p \in Starter, RegisterBaseline(p)
    PROVE  SchemaInv'
  <1>1. CASE boot' = [boot EXCEPT ![p] = Boot("refused")] /\ UNCHANGED recorded
    BY <1>1, BootFields, BootStep DEF RegisterBaseline
  <1>2. CASE /\ 6 \notin recorded /\ upgrade.pc = "idle" /\ "versions" \in schema
             /\ recorded' = recorded \cup {6}
             /\ boot' = [boot EXCEPT ![p] = Boot("running")]
    <2>1. UNCHANGED <<schema, upgrade, damaged>> /\ boot[p].pc = "create" /\ boot[p].todo = {}
      BY DEF RegisterBaseline
    <2>2. recorded = {} /\ (~damaged => Parts \subseteq schema) /\ schema \subseteq Parts
      BY <1>2, <2>1 DEF SchemaInv, BootOK, PartsOK
    <2>3. recorded' = 6..6
      BY <1>2, <2>2
    <2>4. Chain(recorded, 6)' /\ Built(schema, 6)' /\ 6 \in 1..6
      BY <2>1, <2>2, <2>3, WholeIsAll DEF Chain, Built
    <2>5. RecordOK' /\ PartsOK'
      BY <1>2, <2>1, <2>2, <2>4 DEF RecordOK, PartsOK
    <2>6. BootOK'
      BY <1>2, <2>1, <2>2, BootFields DEF SchemaInv, BootOK
    <2>7. UpgradeOK'
      BY <1>2, <2>1 DEF UpgradeOK
    <2>8. QED
      BY <2>5, <2>6, <2>7 DEF SchemaInv
  <1>3. QED
    BY <1>1, <1>2 DEF RegisterBaseline, CURRENT_SCHEMA_VERSION

\* The transaction of an upgrade, step by step.
LEMMA CursorIs ==
    ASSUME NEW v, NEW k, UpgradeAt(v, k)
    PROVE  Cursor = k
  BY ChainFacts DEF UpgradeAt, Cursor

LEMMA ConfirmUpgradeKeeps == SchemaInv /\ ConfirmUpgrade => SchemaInv'
  <1> SUFFICES ASSUME SchemaInv, ConfirmUpgrade PROVE SchemaInv'
    OBVIOUS
  <1>1. UNCHANGED <<schema, recorded, boot, damaged>> /\ upgrade.pc = "idle"
    BY DEF ConfirmUpgrade
  <1>2. RecordOK' /\ PartsOK' /\ BootOK'
    BY <1>1, RecordStays DEF SchemaInv, BootOK
  <1>3. CASE UNCHANGED upgrade
    BY <1>1, <1>2, <1>3 DEF SchemaInv, UpgradeOK
  <1>4. CASE /\ StatusOf(schema, recorded) = "upgrade_required"
             /\ upgrade' = [pc |-> "step", parts |-> schema, versions |-> recorded]
             /\ toldUpgrade' = "none"
    <2>1. PICK v \in 1..5 : Chain(recorded, v)
      BY <1>4, StatusFacts
    <2>2. PICK x \in 1..6 : Chain(recorded, x) /\ Built(schema, x)
      BY <1>4, StatusFacts, ChainFacts, NewestSeven, StatusValues DEF SchemaInv, RecordOK
    <2>3. x = v /\ Newest(recorded) = v
      BY <2>1, <2>2, ChainFacts
    <2>4. /\ upgrade'.pc = "step" /\ {"pc", "parts", "versions"} \subseteq DOMAIN upgrade'
          /\ upgrade'.parts = schema /\ upgrade'.versions = recorded
      BY <1>4
    <2>5. UpgradeAt(v, v)'
      <3>1. Chain(recorded, v)' /\ Chain(upgrade.versions, v)'
        BY <1>1, <2>1, <2>4 DEF Chain
      <3>2. Built(upgrade.parts, v)' /\ (schema \subseteq upgrade.parts)'
        BY <1>1, <2>2, <2>3, <2>4 DEF Built
      <3>3. QED
        BY <1>1, <2>4, <3>1, <3>2 DEF UpgradeAt
    <2>6. UpgradeOK'
      BY <1>4, <2>4, <2>5 DEF UpgradeOK
    <2>7. QED
      BY <1>2, <2>6 DEF SchemaInv
  <1>5. QED
    BY <1>3, <1>4 DEF ConfirmUpgrade

\* A check passes on an undamaged database, and at the step the dry run checked.
LEMMA CheckPasses ==
    ASSUME NEW v \in 1..5, NEW k \in 1..5, UpgradeAt(v, k), CanUpgrade, ~damaged \/ v = k
    PROVE  /\ Precheck(Cursor, upgrade.parts, upgrade.versions)
           /\ Postcheck(Cursor, upgrade.parts \cup {AddedBy[Cursor]}, upgrade.versions \cup {Cursor + 1})
  <1>1. Cursor = k /\ Newest(upgrade.versions) = k /\ Newest(recorded) = v
    BY CursorIs, ChainFacts DEF Cursor, UpgradeAt
  <1>2. NeededBy[k] \subseteq upgrade.parts
    <2>1. CASE ~damaged
      BY <2>1, StructureSuffices DEF UpgradeAt, Built
    <2>2. CASE v = k
      BY <1>1, <2>2 DEF UpgradeAt, CanUpgrade, Precheck
    <2>3. QED
      BY <2>1, <2>2
  <1>3. AddedBy[k] \notin upgrade.parts
    BY StructureGrows DEF UpgradeAt, Built
  <1>4. Chain(upgrade.versions \cup {k + 1}, k + 1)
    BY ChainGrows DEF UpgradeAt
  <1>5. Newest(upgrade.versions \cup {k + 1}) = k + 1
    BY <1>4, ChainFacts
  <1>6. QED
    BY <1>1, <1>2, <1>3, <1>5 DEF Precheck, Postcheck

LEMMA MigrateKeeps == SchemaInv /\ MigrateStep => SchemaInv'
  <1> SUFFICES ASSUME SchemaInv, MigrateStep PROVE SchemaInv'
    OBVIOUS
  <1>1. UNCHANGED <<schema, recorded, boot, damaged>> /\ upgrade.pc = "step" /\ Cursor < 6
    BY DEF MigrateStep, CURRENT_SCHEMA_VERSION
  <1>2. RecordOK' /\ PartsOK' /\ BootOK'
    BY <1>1, RecordStays DEF SchemaInv, BootOK
  <1>3. CASE upgrade' = NoUpgrade
    BY <1>2, <1>3 DEF SchemaInv, UpgradeOK, NoUpgrade
  <1>4. CASE /\ Precheck(Cursor, upgrade.parts, upgrade.versions)
             /\ upgrade' = [upgrade EXCEPT !.parts = upgrade.parts \cup {AddedBy[Cursor]},
                                           !.versions = upgrade.versions \cup {Cursor + 1}]
             /\ UNCHANGED toldUpgrade
    <2>1. PICK v \in 1..5, k \in 1..6 : UpgradeAt(v, k)
      BY <1>1 DEF SchemaInv, UpgradeOK
    <2>2. Cursor = k /\ k \in 1..5
      BY <1>1, <2>1, CursorIs
    <2>3. {"pc", "parts", "versions"} \subseteq DOMAIN upgrade /\ toldUpgrade = "none"
      BY <1>1, UpgradeAlone
    <2>4. /\ upgrade'.pc = "step" /\ {"pc", "parts", "versions"} \subseteq DOMAIN upgrade'
          /\ upgrade'.parts = upgrade.parts \cup {AddedBy[k]}
          /\ upgrade'.versions = upgrade.versions \cup {k + 1}
      BY <1>1, <1>4, <2>2, <2>3
    <2>5. v <= k + 1 /\ Chain(recorded, v)' /\ Chain(upgrade.versions, k + 1)'
      BY <1>1, <2>1, <2>2, <2>4, ChainGrows DEF UpgradeAt
    <2>6. Built(upgrade.parts, k + 1)' /\ (schema \subseteq upgrade.parts)'
      BY <1>1, <2>1, <2>2, <2>4, StructureGrows DEF UpgradeAt, Built
    <2>7. \A x \in 1..5 : v <= x /\ x < k + 1 => AddedBy[x] \in upgrade'.parts
      BY <2>1, <2>2, <2>4 DEF UpgradeAt
    <2>8. v # k + 1
      BY <2>1, <2>2 DEF UpgradeAt
    <2>9. UpgradeAt(v, k + 1)'
      BY <2>5, <2>6, <2>7, <2>8 DEF UpgradeAt
    <2>10. UpgradeOK'
      BY <1>4, <2>2, <2>3, <2>4, <2>9 DEF UpgradeOK
    <2>11. QED
      BY <1>2, <2>10 DEF SchemaInv
  <1>5. QED
    BY <1>3, <1>4 DEF MigrateStep, EndUpgrade

LEMMA CommitUpgradeKeeps == SchemaInv /\ CommitUpgrade => SchemaInv'
  <1> SUFFICES ASSUME SchemaInv, CommitUpgrade PROVE SchemaInv'
    OBVIOUS
  <1>1. /\ UNCHANGED <<boot, damaged>> /\ upgrade.pc = "step" /\ Cursor = 6 /\ upgrade' = NoUpgrade
    BY DEF CommitUpgrade, EndUpgrade, CURRENT_SCHEMA_VERSION
  <1>2. UpgradeOK'
    BY <1>1 DEF UpgradeOK, NoUpgrade
  <1>3. CASE UNCHANGED <<schema, recorded>>
    <2>1. BootOK'
      BY <1>1, <1>3 DEF SchemaInv, BootOK
    <2>2. QED
      BY <1>1, <1>2, <1>3, <2>1, RecordStays DEF SchemaInv
  <1>4. CASE schema' = upgrade.parts /\ recorded' = upgrade.versions
    <2>1. PICK v \in 1..5, k \in 1..6 : UpgradeAt(v, k)
      BY <1>1 DEF SchemaInv, UpgradeOK
    <2>2. k = 6
      BY <1>1, <2>1, CursorIs
    <2>3. Chain(recorded, 6)' /\ Built(schema, 6)' /\ 6 \in 1..6
      BY <1>1, <1>4, <2>1, <2>2 DEF UpgradeAt, Built, Chain
    <2>4. RecordOK'
      BY <2>3 DEF RecordOK
    <2>5. schema' \subseteq Parts /\ "versions" \in schema'
      BY <1>1, <1>4, <2>1, <2>2, WholeIsAll, UpgradeAlone DEF UpgradeAt, Built
    <2>6. BootOK'
      BY <1>1, UpgradeAlone DEF SchemaInv, BootOK
    <2>7. QED
      BY <1>2, <2>4, <2>5, <2>6 DEF SchemaInv, PartsOK
  <1>5. QED
    BY <1>3, <1>4 DEF CommitUpgrade, Committed

LEMMA CrashUpgradeKeeps == SchemaInv /\ CrashUpgrade => SchemaInv'
  <1> SUFFICES ASSUME SchemaInv, CrashUpgrade PROVE SchemaInv'
    OBVIOUS
  <1>1. UNCHANGED <<schema, recorded, damaged>> /\ upgrade' = NoUpgrade
    BY DEF CrashUpgrade, EndUpgrade
  <1>2. DOMAIN boot' = Starter /\ \A p \in Starter : boot'[p] = Boot("down")
    BY DEF CrashUpgrade
  <1>3. BootOK'
    BY <1>2, BootFields DEF BootOK
  <1>4. UpgradeOK'
    BY <1>1 DEF UpgradeOK, NoUpgrade
  <1>5. QED
    BY <1>1, <1>3, <1>4, RecordStays DEF SchemaInv

LEMMA DropKeeps ==
    ASSUME SchemaInv, NEW part \in Parts, DropPart(part)
    PROVE  SchemaInv'
  <1>1. /\ UNCHANGED <<boot, upgrade>> /\ upgrade.pc = "idle" /\ damaged' = TRUE
        /\ schema' \subseteq schema /\ (part # "versions" /\ "versions" \in schema => "versions" \in schema')
        /\ recorded' = IF part = "versions" THEN {} ELSE recorded
    BY DEF DropPart
  <1>2. RecordOK'
    <2>1. CASE part = "versions" \/ recorded = {} \/ recorded = {7}
      BY <1>1, <2>1 DEF RecordOK
    <2>2. ASSUME part # "versions", NEW v \in 1..6, Chain(recorded, v), Built(schema, v)
          PROVE  RecordOK'
      <3>1. Chain(recorded, v)' /\ Built(schema, v)'
        BY <1>1, <2>2 DEF Built
      <3>2. QED
        BY <3>1 DEF RecordOK
    <2>3. QED
      BY <2>1, <2>2 DEF SchemaInv, RecordOK
  <1>3. PartsOK' /\ BootOK' /\ UpgradeOK'
    BY <1>1 DEF SchemaInv, PartsOK, BootOK, UpgradeOK
  <1>4. QED
    BY <1>2, <1>3 DEF SchemaInv

LEMMA NextSchemaInv == SchemaInv /\ [SchemaNext]_schemaVars => SchemaInv'
  <1> SUFFICES ASSUME SchemaInv, [SchemaNext]_schemaVars PROVE SchemaInv'
    OBVIOUS
  <1>1. CASE UNCHANGED schemaVars
    <2>1. UNCHANGED <<schema, recorded, boot, upgrade, toldUpgrade, damaged>>
      BY <1>1 DEF schemaVars
    <2>2. BootOK'
      BY <2>1 DEF SchemaInv, BootOK
    <2>3. QED
      BY <2>1, <2>2, UpgradeStays, RecordStays DEF SchemaInv
  <1>2. ASSUME NEW p \in Starter, StopProcess(p) PROVE SchemaInv'
    BY <1>2, BootFields, BootStep DEF StopProcess
  <1>3. QED
    BY <1>1, <1>2, StartKeeps, CreateKeeps, RegisterKeeps, ConfirmUpgradeKeeps, MigrateKeeps,
       CommitUpgradeKeeps, CrashUpgradeKeeps, DropKeeps DEF SchemaNext

LEMMA SchemaInvHolds == SchemaSpec => []SchemaInv
  BY InitSchemaInv, NextSchemaInv, PTL DEF SchemaSpec

\* The recorded versions and the tables agree, as a chain without a gap, after any
\* failed step, raising commit or crash (apply_upgrade, initialize_database), for
\* any number of processes and upgrades.
THEOREM RecordsAreTruthful == SchemaSpec => []RecordTruthful
  <1>1. SchemaInv => RecordedIsBuilt
    <2> SUFFICES ASSUME SchemaInv, ~damaged, recorded # {},
                        Newest(recorded) <= CURRENT_SCHEMA_VERSION
                 PROVE  schema = Structure(Newest(recorded))
      BY DEF RecordedIsBuilt
    <2>1. recorded # {7}
      BY NewestSeven DEF CURRENT_SCHEMA_VERSION
    <2>2. PICK v \in 1..6 : Chain(recorded, v) /\ Built(schema, v)
      BY <2>1 DEF SchemaInv, RecordOK
    <2>3. QED
      BY <2>2, ChainFacts DEF Built
  <1>2. SchemaInv => RecordedChain
    <2> SUFFICES ASSUME SchemaInv PROVE RecordedChain
      OBVIOUS
    <2>1. CASE recorded = {}
      BY <2>1 DEF RecordedChain
    <2>2. CASE recorded = {7}
      BY <2>2, NewestSeven DEF RecordedChain
    <2>3. ASSUME NEW v \in 1..6, Chain(recorded, v) PROVE RecordedChain
      BY <2>3, ChainFacts DEF RecordedChain
    <2>4. QED
      BY <2>1, <2>2, <2>3 DEF SchemaInv, RecordOK
  <1>3. SchemaInv => RecordTruthful
    BY <1>1, <1>2 DEF RecordTruthful
  <1>4. QED
    BY SchemaInvHolds, <1>3, PTL

LEMMA PreviewIsKept == SchemaInv /\ SchemaInv' /\ [SchemaNext]_schemaVars => PreviewKeepsWord
  <1> SUFFICES ASSUME SchemaInv, [SchemaNext]_schemaVars, CanUpgrade, upgrade.pc = "step",
                      ~(damaged /\ Cursor > Newest(recorded))
               PROVE  toldUpgrade' # "refused"
    BY DEF PreviewKeepsWord
  <1>1. toldUpgrade = "none" /\ \A p \in Starter : boot[p].pc # "create"
    BY UpgradeAlone
  <1>2. CASE UNCHANGED toldUpgrade
    BY <1>1, <1>2
  <1>3. CASE MigrateStep
    <2>1. PICK v \in 1..5, k \in 1..6 : UpgradeAt(v, k)
      BY DEF SchemaInv, UpgradeOK
    <2>2. k \in 1..5 /\ Cursor = k
      BY <1>3, <2>1, CursorIs DEF MigrateStep, CURRENT_SCHEMA_VERSION
    <2>3. ~damaged \/ v = k
      <3>1. Newest(recorded) = v /\ v <= k
        BY <2>1, ChainFacts DEF UpgradeAt
      <3>2. QED
        BY <2>2, <3>1
    <2>4. /\ Precheck(Cursor, upgrade.parts, upgrade.versions)
          /\ Postcheck(Cursor, upgrade.parts \cup {AddedBy[Cursor]}, upgrade.versions \cup {Cursor + 1})
      BY <2>1, <2>2, <2>3, CheckPasses
    <2>5. UNCHANGED toldUpgrade \/ toldUpgrade' = "apply_failed"
      BY <1>3, <2>4 DEF MigrateStep, EndUpgrade
    <2>6. QED
      BY <1>2, <2>5
  <1>4. CASE CommitUpgrade \/ CrashUpgrade
    BY <1>4 DEF CommitUpgrade, CrashUpgrade, EndUpgrade
  <1>5. ~ConfirmUpgrade /\ \A part \in Parts : ~DropPart(part)
    BY DEF ConfirmUpgrade, DropPart
  <1>6. (UNCHANGED schemaVars \/ \E p \in Starter : StartProcess(p) \/ CreateTable(p) \/ RegisterBaseline(p) \/ StopProcess(p))
        => UNCHANGED toldUpgrade
    BY DEF schemaVars, StartProcess, CreateTable, RegisterBaseline, StopProcess
  <1>7. QED
    BY <1>2, <1>3, <1>4, <1>5, <1>6 DEF SchemaNext

LEMMA UpgradeIsTold == SchemaInv /\ [SchemaNext]_schemaVars => UpgradeTold
  <1> SUFFICES ASSUME SchemaInv, [SchemaNext]_schemaVars, toldUpgrade' # toldUpgrade
               PROVE  /\ toldUpgrade' = "applied" =>
                            /\ Newest(recorded') = CURRENT_SCHEMA_VERSION
                            /\ {AddedBy[v] : v \in Newest(recorded)..(CURRENT_SCHEMA_VERSION - 1)} \subseteq schema'
                      /\ toldUpgrade' = "refused" => UNCHANGED <<schema, recorded>>
    BY DEF UpgradeTold
  <1>1. ConfirmUpgrade \/ MigrateStep \/ CommitUpgrade \/ CrashUpgrade
    BY DEF schemaVars, SchemaNext, StartProcess, CreateTable, RegisterBaseline, StopProcess, DropPart
  <1>2. CASE ConfirmUpgrade
    BY <1>2 DEF ConfirmUpgrade
  <1>3. CASE MigrateStep
    BY <1>3 DEF MigrateStep, EndUpgrade
  <1>4. CASE CrashUpgrade
    BY <1>4 DEF CrashUpgrade, EndUpgrade
  <1>5. CASE CommitUpgrade
    <2>1. toldUpgrade' # "refused"
      BY <1>5 DEF CommitUpgrade, EndUpgrade
    <2>2. ASSUME toldUpgrade' = "applied"
          PROVE  /\ Newest(recorded') = CURRENT_SCHEMA_VERSION
                 /\ {AddedBy[v] : v \in Newest(recorded)..(CURRENT_SCHEMA_VERSION - 1)} \subseteq schema'
      <3>1. schema' = upgrade.parts /\ recorded' = upgrade.versions /\ Cursor = 6 /\ upgrade.pc = "step"
        BY <1>5, <2>2 DEF CommitUpgrade, EndUpgrade, Committed, CURRENT_SCHEMA_VERSION
      <3>2. PICK v \in 1..5, k \in 1..6 : UpgradeAt(v, k)
        BY <3>1 DEF SchemaInv, UpgradeOK
      <3>3. k = 6 /\ Newest(recorded) = v
        BY <3>1, <3>2, CursorIs, ChainFacts DEF UpgradeAt
      <3>4. \A x \in v..5 : AddedBy[x] \in schema'
        BY <3>1, <3>2, <3>3 DEF UpgradeAt
      <3>5. QED
        BY <3>1, <3>3, <3>4 DEF Cursor, CURRENT_SCHEMA_VERSION
    <2>3. QED
      BY <2>1, <2>2
  <1>6. QED
    BY <1>1, <1>2, <1>3, <1>4, <1>5

LEMMA RunningIsWhole == SchemaInv /\ [SchemaNext]_schemaVars => RunsOnWholeSchema
  <1> SUFFICES ASSUME SchemaInv, [SchemaNext]_schemaVars, NEW p \in Starter,
                      boot'[p].pc = "running", boot[p].pc # "running",
                      damaged => boot[p].pc = "down"
               PROVE  WholeSchema = schema' /\ CURRENT_SCHEMA_VERSION \in recorded'
    BY DEF RunsOnWholeSchema
  <1>1. DOMAIN boot = Starter
    BY DEF SchemaInv, BootOK
  <1>2. PICK q \in Starter : StartProcess(q) \/ CreateTable(q) \/ RegisterBaseline(q) \/ StopProcess(q)
    BY BootFields DEF SchemaNext, schemaVars, ConfirmUpgrade, MigrateStep, CommitUpgrade, CrashUpgrade, DropPart
  <1>3. ~CreateTable(q) /\ ~StopProcess(q)
    <2>1. CASE CreateTable(q)
      <3>1. PICK part : \/ boot' = [boot EXCEPT ![q] = Boot("refused")]
                        \/ boot' = [boot EXCEPT ![q].todo = @ \ {part}]
        BY <2>1 DEF CreateTable
      <3>2. {"pc", "todo"} \subseteq DOMAIN boot[q]
        BY DEF SchemaInv, BootOK
      <3>3. boot'[p].pc # "running"
        BY <1>1, <3>1, <3>2, BootFields
      <3>4. QED
        BY <3>3
    <2>2. CASE StopProcess(q)
      BY <1>1, <2>2, BootFields DEF StopProcess
    <2>3. QED
      BY <2>1, <2>2
  <1>4. CASE StartProcess(q)
    <2>1. p = q /\ ~MayFill /\ Judged = "running"
      BY <1>1, <1>4, BootFields DEF StartProcess
    <2>2. StatusOf(schema, recorded) = "current" /\ StructureSound(schema)
      BY <2>1 DEF Judged
    <2>3. Chain(recorded, 6) /\ schema \subseteq Parts /\ "versions" \in schema
      BY <2>2, StatusFacts DEF SchemaInv, PartsOK
    <2>4. 6 \in recorded
      BY <2>3, ChainFacts
    <2>5. schema = WholeSchema
      BY <2>2, <2>3, WholeIsAll DEF StructureSound
    <2>6. UNCHANGED <<schema, recorded>>
      BY <1>4 DEF StartProcess
    <2>7. QED
      BY <2>4, <2>5, <2>6 DEF CURRENT_SCHEMA_VERSION
  <1>5. CASE RegisterBaseline(q)
    <2>1. p = q /\ recorded' = recorded \cup {6} /\ boot[p].pc = "create" /\ boot[p].todo = {}
      BY <1>1, <1>5, BootFields DEF RegisterBaseline, CURRENT_SCHEMA_VERSION
    <2>2. ~damaged /\ schema' = schema
      BY <1>5, <2>1 DEF RegisterBaseline
    <2>3. schema = Parts
      BY <2>1, <2>2 DEF SchemaInv, BootOK, PartsOK
    <2>4. QED
      BY <2>1, <2>2, <2>3, WholeIsAll DEF CURRENT_SCHEMA_VERSION
  <1>6. QED
    BY <1>2, <1>3, <1>4, <1>5

\* What is said of a database holds, whatever failed and whoever dropped a part of
\* it: the dry run's word (preview_upgrade), which for a damaged one reaches no
\* further than the step it checked, the upgrade's answer (apply_upgrade) and a
\* normal start (initialize_database).
THEOREM UpgradesAreTruthful == SchemaSpec => UpgradesTruthful
  <1>1. SchemaInv /\ SchemaInv' /\ [SchemaNext]_schemaVars
            => [PreviewKeepsWord /\ UpgradeTold /\ RunsOnWholeSchema]_schemaVars
    BY PreviewIsKept, UpgradeIsTold, RunningIsWhole
  <1>2. QED
    BY SchemaInvHolds, <1>1, PTL DEF SchemaSpec, UpgradesTruthful

----------------------------------------------------------------------------
(* Restore.  The merge always leaves the media index invalid and finds it    *)
(* valid, so the library a commit would leave is none the restore started    *)
(* from: the state it reads after an error tells it what happened.           *)

Invalidates(after) == \E merged, time : after = <<merged, FALSE, time>>

RestoreInv ==
    /\ indexed \in BOOLEAN /\ effect \in BOOLEAN /\ (indexed \/ effect)
    /\ restoring.pc \in {"idle", "digested", "merged", "inspect"}
    /\ restoring.pc # "idle" => toldRestore = "none"
    /\ effect => restoring.pc = "inspect" \/ toldRestore # "none"
    /\ restoring.pc = "merged" => Invalidates(restoring.after)
    /\ restoring.pc = "inspect" =>
           /\ restoring.after = <<>> \/ Invalidates(restoring.after)
           /\ restoring.error \in {"refused", "rolled_back"}

LEMMA InitRestoreInv == BackupInit => RestoreInv
  <1> SUFFICES ASSUME BackupInit PROVE RestoreInv
    OBVIOUS
  <1>1. indexed = TRUE /\ effect = FALSE /\ restoring = Idle
    BY DEF BackupInit
  <1>2. restoring.pc = "idle"
    BY <1>1 DEF Idle
  <1>3. QED
    BY <1>1, <1>2 DEF RestoreInv

LEMMA NextRestoreInv == RestoreInv /\ [BackupNext]_backupVars => RestoreInv'
  <1> SUFFICES ASSUME RestoreInv, [BackupNext]_backupVars PROVE RestoreInv'
    OBVIOUS
  <1>1. CASE UNCHANGED <<indexed, effect, restoring, toldRestore>>
    BY <1>1 DEF RestoreInv
  <1>2. CASE StartRestore
    <2>1. CASE SourcePayloadErrors(file)
      <3>1. effect' = FALSE /\ toldRestore' = "refused" /\ UNCHANGED <<indexed, restoring>>
        BY <1>2, <2>1 DEF StartRestore
      <3>2. restoring.pc = "idle" /\ ~effect
        BY <1>2 DEF StartRestore, RestoreInv
      <3>3. QED
        BY <3>1, <3>2 DEF RestoreInv
    <2>2. CASE ~SourcePayloadErrors(file)
      <3>1. effect' = FALSE /\ UNCHANGED <<indexed, toldRestore>>
        BY <1>2, <2>2 DEF StartRestore
      <3>2. toldRestore = "none" /\ ~effect
        BY <1>2 DEF StartRestore, RestoreInv
      <3>3. restoring'.pc = "digested"
        BY <1>2, <2>2 DEF StartRestore
      <3>4. QED
        BY <3>1, <3>2, <3>3 DEF RestoreInv
    <2>3. QED
      BY <2>1, <2>2
  <1>3. CASE MergeFile
    <2>1. UNCHANGED <<indexed, effect, toldRestore>> /\ restoring.pc = "digested"
      BY <1>3 DEF MergeFile
    <2>2. CASE \E error \in {"refused", "rolled_back"} : Inspect(<<>>, error)
      <3>1. PICK error \in {"refused", "rolled_back"} : Inspect(<<>>, error)
        BY <2>2
      <3>2. restoring'.pc = "inspect" /\ restoring'.after = <<>> /\ restoring'.error = error
        BY <3>1 DEF Inspect
      <3>3. QED
        BY <2>1, <3>2 DEF RestoreInv
    <2>3. CASE restoring' = [pc |-> "merged", before |-> restoring.before,
                             after |-> <<Merged(lib, file), FALSE, stamp>>]
      <3>1. Invalidates(restoring'.after)
        BY <2>3 DEF Invalidates
      <3>2. QED
        BY <2>1, <2>3, <3>1 DEF RestoreInv
    <2>4. QED
      BY <1>3, <2>2, <2>3 DEF MergeFile
  <1>4. CASE CommitRestore
    <2>1. restoring.pc = "merged" /\ Invalidates(restoring.after) /\ toldRestore = "none"
      BY <1>4 DEF CommitRestore, RestoreInv
    <2>2. CASE Inspect(restoring.after, "rolled_back") /\ UNCHANGED toldRestore
      <3>1. (indexed' = FALSE /\ effect' = TRUE) \/ UNCHANGED <<indexed, effect>>
        BY <1>4 DEF CommitRestore
      <3>2. /\ restoring'.pc = "inspect" /\ restoring'.after = restoring.after
            /\ restoring'.error = "rolled_back"
        BY <2>2 DEF Inspect
      <3>3. QED
        BY <2>1, <2>2, <3>1, <3>2 DEF RestoreInv
    <2>3. CASE indexed' = FALSE /\ effect' = TRUE /\ restoring' = Idle /\ toldRestore' = "committed"
      BY <2>3 DEF RestoreInv, Idle
    <2>4. QED
      BY <1>4, <2>2, <2>3 DEF CommitRestore
  <1>5. CASE InspectRestore
    <2>1. toldRestore' # "none"
      BY <1>5 DEF InspectRestore, Verdict, RestoreInv
    <2>2. QED
      BY <1>5, <2>1 DEF InspectRestore, RestoreInv, Idle
  <1>6. QED
    BY <1>1, <1>2, <1>3, <1>4, <1>5
       DEF BackupNext, backupVars, StartExport, ReadTable, EditLibrary

LEMMA RestoreInvHolds == BackupSpec => []RestoreInv
  BY InitRestoreInv, NextRestoreInv, PTL DEF BackupSpec

RestoreToldRight ==
    toldRestore' # toldRestore =>
        /\ toldRestore' \in {"committed", "committed_after_error"} => effect' \/ restoring.after = restoring.before
        /\ toldRestore' \in {"refused", "rolled_back"} =>
               ~effect' \/ restoring.before = <<lib', indexed', stamp'>>

LEMMA RestoreIsTold == RestoreInv /\ [BackupNext]_backupVars => RestoreToldRight
  <1> SUFFICES ASSUME RestoreInv, [BackupNext]_backupVars, toldRestore' # toldRestore
               PROVE  RestoreToldRight
    BY DEF RestoreToldRight
  <1>1. StartRestore \/ CommitRestore \/ InspectRestore
    BY DEF BackupNext, backupVars, StartExport, ReadTable, EditLibrary, MergeFile
  <1>2. CASE StartRestore
    <2>1. toldRestore' = "refused" /\ effect' = FALSE
      BY <1>2 DEF StartRestore
    <2>2. QED
      BY <2>1 DEF RestoreToldRight
  <1>3. CASE CommitRestore
    <2>1. toldRestore' = "committed" /\ effect' = TRUE
      BY <1>3 DEF CommitRestore
    <2>2. QED
      BY <2>1 DEF RestoreToldRight
  <1>4. CASE InspectRestore
    <2>1. UNCHANGED <<lib, indexed, stamp, effect>> /\ restoring.pc = "inspect"
      BY <1>4 DEF InspectRestore
    <2>2. CASE toldRestore' = "committed_after_error"
      <3>1. <<lib, indexed, stamp>> = restoring.after
        BY <1>4, <2>2 DEF InspectRestore, Verdict, RestoreInv
      <3>2. PICK merged, time : <<lib, indexed, stamp>> = <<merged, FALSE, time>>
        <4>1. restoring.after # <<>>
          BY <3>1
        <4>2. Invalidates(restoring.after)
          BY <2>1, <4>1 DEF RestoreInv
        <4>3. QED
          BY <3>1, <4>2 DEF Invalidates
      <3>3. indexed = FALSE
        BY <3>2
      <3>4. QED
        BY <2>1, <2>2, <3>3 DEF RestoreInv, RestoreToldRight
    <2>3. CASE toldRestore' = "unknown"
      BY <2>3 DEF RestoreToldRight
    <2>4. CASE toldRestore' \notin {"committed_after_error", "unknown"}
      <3>1. toldRestore' = restoring.error /\ <<lib, indexed, stamp>> = restoring.before
        BY <1>4, <2>4 DEF InspectRestore, Verdict
      <3>2. toldRestore' \in {"refused", "rolled_back"}
        BY <2>1, <3>1 DEF RestoreInv
      <3>3. restoring.before = <<lib', indexed', stamp'>>
        BY <2>1, <3>1
      <3>4. QED
        BY <3>2, <3>3 DEF RestoreToldRight
    <2>5. QED
      BY <2>2, <2>3, <2>4
  <1>5. QED
    BY <1>1, <1>2, <1>3, <1>4

\* What the page says of a restore is so: committed only of one that is in the
\* library, refused or rolled back only of one that is not, whatever the merge,
\* the commit or the pages did in between (restore_backup_data's digests).
THEOREM RestoresAreTruthful == BackupSpec => RestoreTruthful
  <1>1. RestoreInv /\ [BackupNext]_backupVars => [RestoreToldRight]_backupVars
    BY RestoreIsTold
  <1>2. QED
    BY RestoreInvHolds, <1>1, PTL DEF BackupSpec, RestoreTruthful, RestoreToldRight

----------------------------------------------------------------------------
(* What a merge leaves.  Its steps are those of a recursive function: what     *)
(* holds at first and is kept by a step holds of all of them.                  *)

LEMMA EachUpTo ==
    ASSUME NEW n \in Nat, NEW S, 0 \in S, \A m \in 0..n : m \in S /\ m < n => m + 1 \in S
    PROVE  0..n \subseteq S
  <1> SUFFICES ASSUME NEW x \in 0..n, x \notin S PROVE FALSE
    OBVIOUS
  <1> DEFINE Missing == {k \in Nat : k \in 0..n /\ k \notin S}
  <1>1. x \in Missing
    OBVIOUS
  <1>2. PICK k \in Missing : \A j \in Missing : <<j, k>> \notin OpToRel(<, Nat)
    BY <1>1, WFMin, NatLessThanWellFounded, Zenon
  <1>3. \A j \in Missing : ~(j < k)
    BY <1>2, Zenon DEF OpToRel
  <1>4. k # 0 /\ k - 1 \in 0..n /\ k - 1 < n /\ k - 1 \notin Missing
    BY <1>3
  <1>5. k - 1 \in S /\ (k - 1) + 1 = k
    BY <1>4
  <1>6. QED
    BY <1>4, <1>5

MergeStart(local) == [rows |-> local, ids |-> <<>>]
MergeStep(acc, n, rows, byId) == IF n \in DOMAIN rows THEN MergeRow(acc, n, rows[n], byId) ELSE acc

LEMMA MergeSteps ==
    ASSUME NEW local, NEW rows, NEW byId
    PROVE  LET t == MergeUpTo(local, rows, byId)
           IN  t[0] = MergeStart(local) /\ \A n \in 1..MaxRow : t[n] = MergeStep(t[n - 1], n, rows, byId)
  <1> DEFINE S == {m \in Nat : \E g : g = [n \in 0..m |-> IF n = 0 THEN MergeStart(local)
                                                       ELSE MergeStep(g[n - 1], n, rows, byId)]}
  <1>1. 0 \in S
    <2>1. PICK g : g = [n \in 0..0 |-> MergeStart(local)]
      OBVIOUS
    <2>2. g = [n \in 0..0 |-> IF n = 0 THEN MergeStart(local) ELSE MergeStep(g[n - 1], n, rows, byId)]
      BY <2>1
    <2>3. QED
      BY <2>2
  <1>2. ASSUME NEW m \in 0..MaxRow, m \in S, m < MaxRow PROVE m + 1 \in S
    <2>1. PICK g : g = [n \in 0..m |-> IF n = 0 THEN MergeStart(local)
                                        ELSE MergeStep(g[n - 1], n, rows, byId)]
      BY <1>2
    <2>2. PICK h : h = [n \in 0..m + 1 |-> IF n = m + 1 THEN MergeStep(g[m], m + 1, rows, byId) ELSE g[n]]
      OBVIOUS
    <2>3. m \in Nat /\ \A n \in 0..m : h[n] = g[n]
      BY <2>2, BackupAssumption
    <2>4. ASSUME NEW n \in 0..m + 1
          PROVE  h[n] = IF n = 0 THEN MergeStart(local) ELSE MergeStep(h[n - 1], n, rows, byId)
      <3>1. CASE n = m + 1
        BY <2>2, <2>3, <3>1
      <3>2. CASE n # m + 1
        <4>1. n \in 0..m /\ (n # 0 => n - 1 \in 0..m)
          BY <2>3, <3>2
        <4>2. QED
          BY <2>1, <2>3, <4>1
      <3>3. QED
        BY <3>1, <3>2
    <2>5. h = [n \in 0..m + 1 |-> IF n = 0 THEN MergeStart(local) ELSE MergeStep(h[n - 1], n, rows, byId)]
      BY <2>2, <2>4
    <2>6. QED
      BY <2>3, <2>5
  <1>3. MaxRow \in S
    <2>1. 0..MaxRow \subseteq S
      BY <1>1, <1>2, EachUpTo, BackupAssumption
    <2>2. QED
      BY <2>1, BackupAssumption
  <1> PICK t : t = MergeUpTo(local, rows, byId)
    OBVIOUS
  <1>4. t = CHOOSE g : g = [n \in 0..MaxRow |-> IF n = 0 THEN MergeStart(local)
                                                ELSE MergeStep(g[n - 1], n, rows, byId)]
    BY DEF MergeUpTo, MergeStart, MergeStep
  <1>5. t = [n \in 0..MaxRow |-> IF n = 0 THEN MergeStart(local) ELSE MergeStep(t[n - 1], n, rows, byId)]
    BY <1>3, <1>4
  <1>6. QED
    BY <1>5, BackupAssumption

LEMMA PartialIs ==
    ASSUME NEW ids, NEW values, NEW f
    PROVE  f \in Partial(ids, values) <=> DOMAIN f \subseteq ids /\ f \in [DOMAIN f -> values]
  BY DEF Partial

LEMMA FirstIsOne ==
    ASSUME NEW rows, DOMAIN rows \subseteq RowId, NEW word, Has(rows, word)
    PROVE  /\ FirstWith(rows, word) \in DOMAIN rows /\ rows[FirstWith(rows, word)] = word
           /\ \A j \in DOMAIN rows : rows[j] = word => FirstWith(rows, word) <= j
  <1> DEFINE S == {k \in Nat : k \in DOMAIN rows /\ rows[k] = word}
  <1>0. \A k \in DOMAIN rows : k \in Nat
    BY BackupAssumption DEF RowId
  <1>1. PICK x : x \in S
    BY <1>0 DEF Has
  <1>2. PICK k \in S : \A j \in S : <<j, k>> \notin OpToRel(<, Nat)
    BY <1>1, WFMin, NatLessThanWellFounded, Zenon
  <1>3. \A j \in S : ~(j < k)
    BY <1>2, Zenon DEF OpToRel
  <1>4. \A j \in DOMAIN rows : rows[j] = word => k <= j
    BY <1>0, <1>3
  <1>5. k \in {j \in DOMAIN rows : rows[j] = word}
    OBVIOUS
  <1>6. QED
    BY <1>4, <1>5 DEF FirstWith

LEMMA SameFirst ==
    ASSUME NEW a, DOMAIN a \subseteq RowId, NEW b, DOMAIN b \subseteq RowId, NEW word, Has(a, word),
           \A j : (j \in DOMAIN a /\ a[j] = word) <=> (j \in DOMAIN b /\ b[j] = word)
    PROVE  FirstWith(a, word) = FirstWith(b, word)
  <1> PICK x, y : x = FirstWith(a, word) /\ y = FirstWith(b, word)
    OBVIOUS
  <1>1. Has(b, word)
    BY DEF Has
  <1>2. x \in DOMAIN a /\ a[x] = word /\ \A j \in DOMAIN a : a[j] = word => x <= j
    BY FirstIsOne
  <1>3. y \in DOMAIN b /\ b[y] = word /\ \A j \in DOMAIN b : b[j] = word => y <= j
    BY <1>1, FirstIsOne
  <1>4. x <= y /\ y <= x
    BY <1>2, <1>3
  <1>5. x \in Nat /\ y \in Nat
    BY <1>2, <1>3, BackupAssumption DEF RowId
  <1>6. QED
    BY <1>4, <1>5

Target(rows, id, word, byId) == IF byId THEN IdFirst(rows, id, word) ELSE NameFirst(rows, id, word)

LEMMA TargetIs ==
    ASSUME NEW rows, DOMAIN rows \subseteq RowId, NEW id, NEW word, NEW byId
    PROVE  LET at == Target(rows, id, word, byId)
           IN  /\ at \in {id} \cup DOMAIN rows
               /\ at # id => rows[at] = word
               /\ id \in DOMAIN rows /\ byId => at = id
               /\ ~Has(rows, word) => at = id
               /\ ~(id \in DOMAIN rows /\ byId) /\ Has(rows, word) =>
                      at = FirstWith(rows, word) /\ at \in DOMAIN rows /\ rows[at] = word
  <1>1. Has(rows, word) => FirstWith(rows, word) \in DOMAIN rows /\ rows[FirstWith(rows, word)] = word
    BY FirstIsOne
  <1>2. CASE byId /\ id \in DOMAIN rows
    BY <1>2 DEF Target, IdFirst
  <1>3. CASE ~(byId /\ id \in DOMAIN rows) /\ Has(rows, word)
    <2>1. Target(rows, id, word, byId) = FirstWith(rows, word)
      BY <1>3 DEF Target, IdFirst, NameFirst
    <2>2. QED
      BY <1>1, <1>3, <2>1
  <1>4. CASE ~(byId /\ id \in DOMAIN rows) /\ ~Has(rows, word)
    <2>1. Target(rows, id, word, byId) = id
      BY <1>4 DEF Target, IdFirst, NameFirst
    <2>2. QED
      BY <1>4, <2>1
  <1>5. QED
    BY <1>2, <1>3, <1>4

LEMMA MergeRowIs ==
    ASSUME NEW acc, NEW id, NEW word, NEW byId
    PROVE  LET at == Target(acc.rows, id, word, byId)
               new == MergeRow(acc, id, word, byId)
           IN  /\ new.rows = WithRow(acc.rows, at, word)
               /\ new.ids = WithRow(acc.ids, id, at)
  BY DEF MergeRow, Target

----------------------------------------------------------------------------
\* Whatever the rows are: nothing is lost but what is overwritten, and every row of
\* the backup so far has its place.
Placed(acc, n, local, rows) ==
    /\ acc.rows \in Partial(RowId, Word)
    /\ DOMAIN local \subseteq DOMAIN acc.rows
    /\ \A i \in DOMAIN local : acc.rows[i] = local[i] \/ (i \in DOMAIN rows /\ acc.rows[i] = rows[i])
    /\ acc.ids = [i \in DOMAIN rows \cap (1..n) |-> acc.ids[i]]
    /\ \A i \in DOMAIN rows \cap (1..n) : acc.ids[i] \in DOMAIN acc.rows

LEMMA PlacedNext ==
    ASSUME NEW local, NEW rows \in Partial(RowId, Word), NEW byId, NEW n \in 1..MaxRow,
           NEW acc, Placed(acc, n - 1, local, rows)
    PROVE  Placed(MergeStep(acc, n, rows, byId), n, local, rows)
  <1>0. n \in Nat /\ n \in RowId /\ n - 1 \in Nat
    BY BackupAssumption DEF RowId
  <1>1. CASE n \notin DOMAIN rows
    <2>1. DOMAIN rows \cap (1..n) = DOMAIN rows \cap (1..n - 1)
      BY <1>0, <1>1
    <2>2. QED
      BY <1>1, <2>1 DEF MergeStep, Placed
  <1>2. CASE n \in DOMAIN rows
    <2> PICK word, at, new : /\ word = rows[n] /\ at = Target(acc.rows, n, word, byId)
                             /\ new = MergeStep(acc, n, rows, byId)
      OBVIOUS
    <2>1. new.rows = WithRow(acc.rows, at, word) /\ new.ids = WithRow(acc.ids, n, at)
      BY <1>2, MergeRowIs DEF MergeStep
    <2>2. DOMAIN acc.rows \subseteq RowId /\ acc.rows \in [DOMAIN acc.rows -> Word] /\ word \in Word
      BY <1>2, PartialIs DEF Placed
    <2>3. at \in {n} \cup DOMAIN acc.rows
      BY <2>2, TargetIs
    <2>4. new.rows \in Partial(RowId, Word) /\ DOMAIN new.rows = {at} \cup DOMAIN acc.rows
      <3>1. DOMAIN new.rows = {at} \cup DOMAIN acc.rows /\ new.rows \in [{at} \cup DOMAIN acc.rows -> Word]
        BY <2>1, <2>2 DEF WithRow
      <3>2. QED
        BY <1>0, <2>2, <2>3, <3>1, PartialIs
    <2>5. DOMAIN rows \cap (1..n) = {n} \cup (DOMAIN rows \cap (1..n - 1))
      BY <1>0, <1>2
    <2>6. /\ DOMAIN acc.ids = DOMAIN rows \cap (1..n - 1)
          /\ \A i \in DOMAIN acc.ids : acc.ids[i] \in DOMAIN acc.rows
      BY DEF Placed
    <2>7. /\ new.ids = [i \in {n} \cup DOMAIN acc.ids |-> new.ids[i]]
          /\ new.ids[n] = at /\ \A i \in DOMAIN acc.ids : i # n => new.ids[i] = acc.ids[i]
      BY <2>1 DEF WithRow
    <2>8. \A i \in DOMAIN acc.rows : new.rows[i] = acc.rows[i] \/ (i = n /\ new.rows[i] = word)
      <3>1. at # n => acc.rows[at] = word
        BY <2>2, TargetIs
      <3>2. \A i \in DOMAIN acc.rows : new.rows[i] = IF i = at THEN word ELSE acc.rows[i]
        BY <2>1 DEF WithRow
      <3>3. QED
        BY <3>1, <3>2
    <2>9. \A i \in DOMAIN local : new.rows[i] = local[i] \/ (i \in DOMAIN rows /\ new.rows[i] = rows[i])
      BY <1>2, <2>8 DEF Placed
    <2>10. QED
      BY <2>4, <2>5, <2>6, <2>7, <2>9 DEF Placed
  <1>3. QED
    BY <1>1, <1>2

LEMMA MergePlaces ==
    ASSUME NEW local \in Partial(RowId, Word), NEW rows \in Partial(RowId, Word), NEW byId
    PROVE  LET m == MergeRows(local, rows, byId)
           IN  /\ m.rows \in Partial(RowId, Word)
               /\ DOMAIN local \subseteq DOMAIN m.rows
               /\ \A i \in DOMAIN local : m.rows[i] = local[i] \/ (i \in DOMAIN rows /\ m.rows[i] = rows[i])
               /\ m.ids = [i \in DOMAIN rows |-> m.ids[i]]
               /\ \A i \in DOMAIN rows : m.ids[i] \in DOMAIN m.rows
  <1> PICK t : t = MergeUpTo(local, rows, byId)
    OBVIOUS
  <1>1. t[0] = MergeStart(local) /\ \A n \in 1..MaxRow : t[n] = MergeStep(t[n - 1], n, rows, byId)
    BY MergeSteps
  <1> DEFINE S == {n \in Nat : Placed(t[n], n, local, rows)}
  <1>2. 0 \in S
    <2>1. t[0].rows = local /\ t[0].ids = <<>> /\ 1..0 = {}
      BY <1>1 DEF MergeStart
    <2>2. QED
      BY <2>1 DEF Placed
  <1>3. ASSUME NEW n \in 0..MaxRow, n \in S, n < MaxRow PROVE n + 1 \in S
    <2>1. n + 1 \in 1..MaxRow /\ (n + 1) - 1 = n /\ n + 1 \in Nat
      BY <1>3, BackupAssumption
    <2>2. t[n + 1] = MergeStep(t[n], n + 1, rows, byId)
      BY <1>1, <2>1
    <2>3. QED
      BY <1>3, <2>1, <2>2, PlacedNext
  <1>4. MaxRow \in S
    <2>1. 0..MaxRow \subseteq S
      BY <1>2, <1>3, EachUpTo, BackupAssumption
    <2>2. QED
      BY <2>1, BackupAssumption
  <1>5. MergeRows(local, rows, byId) = t[MaxRow]
    BY DEF MergeRows
  <1>6. DOMAIN rows \cap (1..MaxRow) = DOMAIN rows
    BY PartialIs DEF RowId
  <1>7. QED
    BY <1>4, <1>5, <1>6 DEF Placed
----------------------------------------------------------------------------
(* Rows that agree where they have one id                                    *)

Agree(local, rows) == \A i \in DOMAIN local \cap DOMAIN rows : local[i] = rows[i]

\* Where a row of the backup goes once all of them are in.
LandsAt(local, all, i, word, byId) == IF byId /\ i \in DOMAIN local THEN i ELSE FirstWith(all, word)

\* The row is there already, or it is new under its own id.
LEMMA AgreedTarget ==
    ASSUME NEW local, NEW rows, Agree(local, rows), NEW byId, NEW n \in DOMAIN rows, n \in Nat,
           NEW old, DOMAIN old \subseteq RowId,
           \A i \in DOMAIN local : i \in DOMAIN old /\ old[i] = local[i],
           n \in DOMAIN old => n \in DOMAIN local
    PROVE  LET at == Target(old, n, rows[n], byId)
           IN  \/ at \in DOMAIN old /\ old[at] = rows[n] /\ at = LandsAt(local, old, n, rows[n], byId)
               \/ at = n /\ n \notin DOMAIN old /\ ~Has(old, rows[n])
  <1> PICK at, word : at = Target(old, n, word, byId) /\ word = rows[n]
    OBVIOUS
  <1>1. /\ n \in DOMAIN old /\ byId => at = n
        /\ ~Has(old, word) => at = n
        /\ ~(n \in DOMAIN old /\ byId) /\ Has(old, word) =>
               at = FirstWith(old, word) /\ at \in DOMAIN old /\ old[at] = word
    BY TargetIs
  <1>2. CASE n \in DOMAIN old
    <2>1. old[n] = word /\ Has(old, word) /\ n \in DOMAIN local
      BY <1>2 DEF Agree, Has
    <2>2. QED
      BY <1>1, <1>2, <2>1 DEF LandsAt
  <1>3. CASE n \notin DOMAIN old
    <2>1. n \notin DOMAIN local
      BY <1>3
    <2>2. QED
      BY <1>1, <1>3, <2>1 DEF LandsAt
  <1>4. QED
    BY <1>2, <1>3

LEMMA RowKept ==
    ASSUME NEW old, old = [i \in DOMAIN old |-> old[i]], NEW at \in DOMAIN old, NEW word, old[at] = word
    PROVE  WithRow(old, at, word) = old
  BY DEF WithRow

\* The rows of the library as they were, those of the backup in done where their ids
\* say, and no others: a new one keeps its id and has a word of its own.
AgreedRows(local, rows, done, all, ids, byId) ==
    /\ \A i \in DOMAIN local : all[i] = local[i]
    /\ \A i \in done : all[ids[i]] = rows[i] /\ ids[i] = LandsAt(local, all, i, rows[i], byId)
    /\ \A x \in DOMAIN all \ DOMAIN local : x \in done /\ ids[x] = x /\ ~Has(local, all[x])

Agreed(acc, n, local, rows, byId) ==
    /\ Placed(acc, n, local, rows)
    /\ AgreedRows(local, rows, DOMAIN rows \cap (1..n), acc.rows, acc.ids, byId)

LEMMA AgreedNext ==
    ASSUME NEW local, NEW rows \in Partial(RowId, Word), Agree(local, rows), NEW byId, NEW n \in 1..MaxRow,
           NEW acc, Agreed(acc, n - 1, local, rows, byId)
    PROVE  Agreed(MergeStep(acc, n, rows, byId), n, local, rows, byId)
  <1> PICK new, done, old : /\ new = MergeStep(acc, n, rows, byId)
                            /\ done = DOMAIN rows \cap (1..n - 1) /\ old = acc.rows
    OBVIOUS
  <1>0. n \in Nat /\ n - 1 \in Nat /\ n \notin 1..n - 1 /\ 1..n = {n} \cup (1..n - 1)
    BY BackupAssumption
  <1>1. Placed(new, n, local, rows)
    BY PlacedNext DEF Agreed
  <1>2. AgreedRows(local, rows, done, old, acc.ids, byId)
    BY DEF Agreed
  <1>3. CASE n \notin DOMAIN rows
    <2>1. DOMAIN rows \cap (1..n) = done /\ new = acc
      BY <1>0, <1>3 DEF MergeStep
    <2>2. QED
      BY <1>1, <1>2, <2>1 DEF Agreed
  <1>4. CASE n \in DOMAIN rows
    <2> PICK word, at : word = rows[n] /\ at = Target(old, n, word, byId)
      OBVIOUS
    <2>1. new.rows = WithRow(old, at, word) /\ new.ids = WithRow(acc.ids, n, at)
      BY <1>4, MergeRowIs DEF MergeStep
    <2>2. /\ DOMAIN old \subseteq RowId /\ old = [i \in DOMAIN old |-> old[i]]
          /\ DOMAIN local \subseteq DOMAIN old /\ DOMAIN acc.ids = done
          /\ \A i \in done : acc.ids[i] \in DOMAIN old
      BY PartialIs DEF Agreed, Placed
    <2>3. n \notin done /\ DOMAIN rows \cap (1..n) = {n} \cup done
      BY <1>0, <1>4
    <2>4. new.ids[n] = at /\ \A i \in done : new.ids[i] = acc.ids[i]
      BY <2>1, <2>2, <2>3 DEF WithRow
    <2>5. \/ at \in DOMAIN old /\ old[at] = word /\ at = LandsAt(local, old, n, word, byId)
          \/ at = n /\ n \notin DOMAIN old /\ ~Has(old, word)
      <3>1. \A i \in DOMAIN local : i \in DOMAIN old /\ old[i] = local[i]
        BY <1>2, <2>2 DEF AgreedRows
      <3>2. n \in DOMAIN old => n \in DOMAIN local
        BY <1>2, <2>3 DEF AgreedRows
      <3>3. QED
        BY <1>0, <1>4, <2>2, <3>1, <3>2, AgreedTarget
    <2>6. CASE at \in DOMAIN old /\ old[at] = word /\ at = LandsAt(local, old, n, word, byId)
      <3>1. new.rows = old
        BY <2>1, <2>2, <2>6, RowKept
      <3>2. AgreedRows(local, rows, {n} \cup done, old, new.ids, byId)
        BY <1>2, <2>4, <2>6 DEF AgreedRows
      <3>3. QED
        BY <1>1, <2>3, <3>1, <3>2 DEF Agreed
    <2>7. CASE at = n /\ n \notin DOMAIN old /\ ~Has(old, word)
      <3> PICK all : all = new.rows
        OBVIOUS
      <3>1. /\ DOMAIN all = {n} \cup DOMAIN old /\ all[n] = word
            /\ \A i \in DOMAIN old : all[i] = old[i] /\ old[i] # word
        BY <2>1, <2>7 DEF WithRow, Has
      <3>2. n \notin DOMAIN local /\ DOMAIN all \subseteq RowId
        BY <2>2, <2>7, <3>1, PartialIs, <1>1 DEF Placed
      <3>3. \A i \in DOMAIN local : all[i] = local[i]
        BY <1>2, <2>2, <3>1 DEF AgreedRows
      <3>4. FirstWith(all, word) = n /\ ~Has(local, word)
        <4>1. Has(all, word)
          BY <3>1 DEF Has
        <4>2. FirstWith(all, word) \in DOMAIN all /\ all[FirstWith(all, word)] = word
          BY <3>2, <4>1, FirstIsOne
        <4>3. ~Has(local, word)
          BY <2>2, <3>1, <3>3 DEF Has
        <4>4. QED
          BY <3>1, <4>2, <4>3
      <3>5. ASSUME NEW i \in done PROVE all[new.ids[i]] = rows[i] /\ new.ids[i] = LandsAt(local, all, i, rows[i], byId)
        <4>1. acc.ids[i] \in DOMAIN old /\ old[acc.ids[i]] = rows[i] /\ rows[i] # word
          BY <1>2, <2>2, <3>1 DEF AgreedRows
        <4>2. Has(old, rows[i])
          BY <4>1 DEF Has
        <4>3. FirstWith(old, rows[i]) = FirstWith(all, rows[i])
          BY <2>2, <3>1, <3>2, <4>1, <4>2, SameFirst
        <4>4. acc.ids[i] = LandsAt(local, old, i, rows[i], byId)
          BY <1>2 DEF AgreedRows
        <4>5. acc.ids[i] = LandsAt(local, all, i, rows[i], byId)
          BY <4>3, <4>4 DEF LandsAt
        <4>6. QED
          BY <2>4, <3>1, <4>1, <4>5
      <3>6. all[new.ids[n]] = rows[n] /\ new.ids[n] = LandsAt(local, all, n, rows[n], byId)
        BY <2>4, <2>7, <3>1, <3>2, <3>4 DEF LandsAt
      <3>7. ASSUME NEW x \in DOMAIN all \ DOMAIN local
            PROVE  x \in {n} \cup done /\ new.ids[x] = x /\ ~Has(local, all[x])
        <4>1. CASE x = n
          BY <2>4, <2>7, <3>1, <3>4, <4>1
        <4>2. CASE x # n
          BY <1>2, <2>4, <3>1, <4>2 DEF AgreedRows
        <4>3. QED
          BY <4>1, <4>2
      <3>8. AgreedRows(local, rows, {n} \cup done, all, new.ids, byId)
        BY <3>3, <3>5, <3>6, <3>7 DEF AgreedRows
      <3>9. QED
        BY <1>1, <2>3, <3>8 DEF Agreed
    <2>8. QED
      BY <2>5, <2>6, <2>7
  <1>5. QED
    BY <1>3, <1>4

LEMMA MergeAgrees ==
    ASSUME NEW local \in Partial(RowId, Word), NEW rows \in Partial(RowId, Word), NEW byId, Agree(local, rows),
           NEW m, m = MergeRows(local, rows, byId)
    PROVE  AgreedRows(local, rows, DOMAIN rows, m.rows, m.ids, byId)
  <1> PICK t : t = MergeUpTo(local, rows, byId)
    OBVIOUS
  <1>1. t[0] = MergeStart(local) /\ \A n \in 1..MaxRow : t[n] = MergeStep(t[n - 1], n, rows, byId)
    BY MergeSteps
  <1> DEFINE S == {n \in Nat : Agreed(t[n], n, local, rows, byId)}
  <1>2. 0 \in S
    <2>1. t[0].rows = local /\ t[0].ids = <<>> /\ 1..0 = {}
      BY <1>1 DEF MergeStart
    <2>2. QED
      BY <2>1 DEF Agreed, AgreedRows, Placed
  <1>3. ASSUME NEW n \in 0..MaxRow, n \in S, n < MaxRow PROVE n + 1 \in S
    <2>1. n + 1 \in 1..MaxRow /\ (n + 1) - 1 = n /\ n + 1 \in Nat
      BY <1>3, BackupAssumption
    <2>2. t[n + 1] = MergeStep(t[n], n + 1, rows, byId)
      BY <1>1, <2>1
    <2>3. QED
      BY <1>3, <2>1, <2>2, AgreedNext
  <1>4. MaxRow \in S
    <2>1. 0..MaxRow \subseteq S
      BY <1>2, <1>3, EachUpTo, BackupAssumption
    <2>2. QED
      BY <2>1, BackupAssumption
  <1>5. m = t[MaxRow]
    BY DEF MergeRows
  <1>6. DOMAIN rows \cap (1..MaxRow) = DOMAIN rows
    BY PartialIs DEF RowId
  <1>7. QED
    BY <1>4, <1>5, <1>6 DEF Agreed

----------------------------------------------------------------------------
(* Rows that are all there already: a library's own, and those of a file       *)
(* restored before; and rows for an empty library                              *)

Itself(rows) == [i \in DOMAIN rows |-> i]

LEMMA NoRows ==
    ASSUME NEW f, f = [i \in DOMAIN f |-> f[i]], DOMAIN f = {}
    PROVE  f = <<>>
  OBVIOUS

Unmoved(m, old, rows, g) == m.rows = old /\ m.ids = [i \in DOMAIN rows |-> g[i]]

LEMMA MergeStays ==
    ASSUME NEW old \in Partial(RowId, Word), NEW rows, DOMAIN rows \subseteq RowId, NEW byId, NEW g,
           \A i \in DOMAIN rows :
               Target(old, i, rows[i], byId) = g[i] /\ g[i] \in DOMAIN old /\ old[g[i]] = rows[i]
    PROVE  Unmoved(MergeRows(old, rows, byId), old, rows, g)
  <1> PICK t : t = MergeUpTo(old, rows, byId)
    OBVIOUS
  <1>1. t[0] = MergeStart(old) /\ \A n \in 1..MaxRow : t[n] = MergeStep(t[n - 1], n, rows, byId)
    BY MergeSteps
  <1>2. old = [i \in DOMAIN old |-> old[i]]
    BY PartialIs
  <1> DEFINE S == {n \in Nat : t[n].rows = old /\ t[n].ids = [i \in DOMAIN rows \cap (1..n) |-> g[i]]}
  <1>3. 0 \in S
    <2> PICK none : none = [i \in DOMAIN rows \cap (1..0) |-> g[i]]
      OBVIOUS
    <2>1. none = <<>>
      BY NoRows
    <2>2. t[0].rows = old /\ t[0].ids = none
      BY <1>1, <2>1 DEF MergeStart
    <2>3. QED
      BY <2>2
  <1>4. ASSUME NEW n \in 0..MaxRow, n \in S, n < MaxRow PROVE n + 1 \in S
    <2> PICK k, acc, new : k = n + 1 /\ acc = t[n] /\ new = t[n + 1]
      OBVIOUS
    <2>1. k \in 1..MaxRow /\ k - 1 = n /\ k \in Nat /\ 1..k = {k} \cup (1..n) /\ k \notin 1..n
      BY <1>4, BackupAssumption
    <2>2. new = MergeStep(acc, k, rows, byId) /\ acc.rows = old /\ acc.ids = [i \in DOMAIN rows \cap (1..n) |-> g[i]]
      BY <1>1, <1>4, <2>1
    <2>3. CASE k \notin DOMAIN rows
      <3>1. DOMAIN rows \cap (1..k) = DOMAIN rows \cap (1..n) /\ new = acc
        BY <2>1, <2>2, <2>3 DEF MergeStep
      <3>2. QED
        BY <2>1, <2>2, <3>1
    <2>4. CASE k \in DOMAIN rows
      <3>1. new.rows = WithRow(old, g[k], rows[k]) /\ new.ids = WithRow(acc.ids, k, g[k])
        BY <2>2, <2>4, MergeRowIs DEF MergeStep
      <3>2. new.rows = old
        BY <1>2, <2>4, <3>1, RowKept
      <3>3. new.ids = [i \in DOMAIN rows \cap (1..k) |-> g[i]]
        <4>1. DOMAIN rows \cap (1..k) = {k} \cup (DOMAIN rows \cap (1..n))
          BY <2>1, <2>4
        <4>2. new.ids = [i \in {k} \cup DOMAIN acc.ids |-> IF i = k THEN g[k] ELSE acc.ids[i]]
          BY <3>1 DEF WithRow
        <4>3. PICK D : D = DOMAIN rows \cap (1..n)
          OBVIOUS
        <4>4. k \notin D /\ acc.ids = [i \in D |-> g[i]]
          BY <2>1, <2>2, <4>3
        <4>5. DOMAIN acc.ids = D
          BY <4>4
        <4>6. [i \in {k} \cup D |-> IF i = k THEN g[k] ELSE acc.ids[i]] = [i \in {k} \cup D |-> g[i]]
          BY <4>4
        <4>7. new.ids = [i \in {k} \cup D |-> g[i]]
          BY <4>2, <4>5, <4>6
        <4>8. QED
          BY <4>1, <4>3, <4>7
      <3>4. QED
        BY <2>1, <3>2, <3>3
    <2>5. QED
      BY <2>3, <2>4
  <1>5. MaxRow \in S
    <2>1. 0..MaxRow \subseteq S
      BY <1>3, <1>4, EachUpTo, BackupAssumption
    <2>2. QED
      BY <2>1, BackupAssumption
  <1>6. DOMAIN rows \cap (1..MaxRow) = DOMAIN rows
    BY DEF RowId
  <1>7. QED
    BY <1>5, <1>6 DEF MergeRows, Unmoved

LEMMA MergeOfItself ==
    ASSUME NEW local \in Partial(RowId, Word), NEW byId, byId \/ IsInjective(local)
    PROVE  LET m == MergeRows(local, local, byId) IN m.rows = local /\ m.ids = Itself(local)
  <1> PICK g : g = Itself(local)
    OBVIOUS
  <1>1. DOMAIN local \subseteq RowId
    BY PartialIs
  <1>2. ASSUME NEW k \in DOMAIN local PROVE Target(local, k, local[k], byId) = k
    <2>1. Has(local, local[k])
      BY DEF Has
    <2>2. CASE byId
      BY <2>2 DEF Target, IdFirst
    <2>3. CASE ~byId
      <3> PICK at : at = Target(local, k, local[k], byId)
        OBVIOUS
      <3>1. at \in DOMAIN local /\ local[at] = local[k]
        BY <1>1, <2>1, <2>3, TargetIs
      <3>2. QED
        BY <2>3, <3>1 DEF IsInjective
    <2>4. QED
      BY <2>2, <2>3
  <1>3. \A k \in DOMAIN local :
            Target(local, k, local[k], byId) = g[k] /\ g[k] \in DOMAIN local /\ local[g[k]] = local[k]
    BY <1>2 DEF Itself
  <1>4. Itself(local) = [i \in DOMAIN local |-> g[i]]
    BY DEF Itself
  <1>5. Unmoved(MergeRows(local, local, byId), local, local, g)
    BY <1>1, <1>3, MergeStays
  <1>6. QED
    BY <1>4, <1>5 DEF Unmoved

\* The rows of a file find themselves in what its merge has left.
LEMMA MergesAgain ==
    ASSUME NEW local \in Partial(RowId, Word), NEW rows \in Partial(RowId, Word), NEW byId, Agree(local, rows),
           NEW m, m = MergeRows(local, rows, byId), NEW i \in DOMAIN rows
    PROVE  Target(m.rows, i, rows[i], byId) = m.ids[i] /\ m.ids[i] \in DOMAIN m.rows /\ m.rows[m.ids[i]] = rows[i]
  <1> PICK all, ids, word, at : /\ all = m.rows /\ ids = m.ids /\ word = rows[i]
                                /\ at = Target(all, i, word, byId)
    OBVIOUS
  <1>1. DOMAIN all \subseteq RowId /\ DOMAIN local \subseteq DOMAIN all /\ ids[i] \in DOMAIN all
    BY MergePlaces, PartialIs
  <1>2. AgreedRows(local, rows, DOMAIN rows, all, ids, byId)
    <2>1. AgreedRows(local, rows, DOMAIN rows, m.rows, m.ids, byId)
      BY MergeAgrees, Zenon
    <2>2. QED
      BY <2>1
  <1>3. all[ids[i]] = word /\ ids[i] = LandsAt(local, all, i, word, byId)
    BY <1>2 DEF AgreedRows
  <1>4. Has(all, word)
    BY <1>1, <1>3 DEF Has
  <1>t. /\ i \in DOMAIN all /\ byId => at = i
        /\ ~(i \in DOMAIN all /\ byId) /\ Has(all, word) => at = FirstWith(all, word)
    BY <1>1, TargetIs
  <1>5. CASE byId /\ i \in DOMAIN all
    <2>1. at = i
      BY <1>5, <1>t
    <2>2. i \notin DOMAIN local => ids[i] = i
      BY <1>2, <1>5 DEF AgreedRows
    <2>3. QED
      BY <1>1, <1>3, <1>5, <2>1, <2>2 DEF LandsAt
  <1>6. CASE ~(byId /\ i \in DOMAIN all)
    <2>1. at = FirstWith(all, word)
      BY <1>4, <1>6, <1>t
    <2>2. QED
      BY <1>1, <1>3, <1>6, <2>1 DEF LandsAt
  <1>7. QED
    BY <1>5, <1>6

LEMMA MergeIntoNothing ==
    ASSUME NEW rows \in Partial(RowId, Word), IsInjective(rows), NEW byId
    PROVE  LET m == MergeRows(<<>>, rows, byId) IN m.rows = rows /\ m.ids = Itself(rows)
  <1> PICK t : t = MergeUpTo(<<>>, rows, byId)
    OBVIOUS
  <1>1. t[0] = MergeStart(<<>>) /\ \A n \in 1..MaxRow : t[n] = MergeStep(t[n - 1], n, rows, byId)
    BY MergeSteps
  <1>2. DOMAIN rows \subseteq RowId /\ rows = [i \in DOMAIN rows |-> rows[i]]
    BY PartialIs
  <1> DEFINE S == {n \in Nat : /\ t[n].rows = [i \in DOMAIN rows \cap (1..n) |-> rows[i]]
                               /\ t[n].ids = [i \in DOMAIN rows \cap (1..n) |-> i]}
  <1>3. 0 \in S
    <2> PICK none, zero : /\ none = [i \in DOMAIN rows \cap (1..0) |-> rows[i]]
                          /\ zero = [i \in DOMAIN rows \cap (1..0) |-> i]
      OBVIOUS
    <2>1. none = <<>> /\ zero = <<>>
      BY NoRows
    <2>2. t[0].rows = none /\ t[0].ids = zero
      BY <1>1, <2>1 DEF MergeStart
    <2>3. QED
      BY <2>2
  <1>4. ASSUME NEW n \in 0..MaxRow, n \in S, n < MaxRow PROVE n + 1 \in S
    <2> PICK k, acc, new : k = n + 1 /\ acc = t[n] /\ new = t[n + 1]
      OBVIOUS
    <2>1. k \in 1..MaxRow /\ k - 1 = n /\ k \in Nat /\ 1..k = {k} \cup (1..n) /\ k \notin 1..n
      BY <1>4, BackupAssumption
    <2>2. /\ new = MergeStep(acc, k, rows, byId)
          /\ acc.rows = [i \in DOMAIN rows \cap (1..n) |-> rows[i]]
          /\ acc.ids = [i \in DOMAIN rows \cap (1..n) |-> i]
      BY <1>1, <1>4, <2>1
    <2>3. CASE k \notin DOMAIN rows
      <3>1. DOMAIN rows \cap (1..k) = DOMAIN rows \cap (1..n) /\ new = acc
        BY <2>1, <2>2, <2>3 DEF MergeStep
      <3>2. QED
        BY <2>1, <2>2, <3>1
    <2>4. CASE k \in DOMAIN rows
      <3>1. new.rows = WithRow(acc.rows, Target(acc.rows, k, rows[k], byId), rows[k])
            /\ new.ids = WithRow(acc.ids, k, Target(acc.rows, k, rows[k], byId))
        BY <2>2, <2>4, MergeRowIs DEF MergeStep
      <3>2. Target(acc.rows, k, rows[k], byId) = k
        <4>1. ~Has(acc.rows, rows[k])
          BY <2>1, <2>2, <2>4 DEF Has, IsInjective
        <4>2. DOMAIN acc.rows \subseteq RowId
          BY <1>2, <2>2
        <4>3. QED
          BY <4>1, <4>2, TargetIs
      <3>3. DOMAIN rows \cap (1..k) = {k} \cup (DOMAIN rows \cap (1..n))
        BY <2>1, <2>4
      <3>4. new.rows = [i \in DOMAIN rows \cap (1..k) |-> rows[i]]
        BY <2>1, <2>2, <3>1, <3>2, <3>3 DEF WithRow
      <3>5. new.ids = [i \in DOMAIN rows \cap (1..k) |-> i]
        <4> PICK old : old = acc.ids
          OBVIOUS
        <4>1. old = [i \in DOMAIN rows \cap (1..n) |-> i] /\ new.ids = WithRow(old, k, k)
          BY <2>2, <3>1, <3>2
        <4>2. new.ids = [i \in {k} \cup (DOMAIN rows \cap (1..n)) |-> i]
          BY <4>1 DEF WithRow
        <4>3. QED
          BY <3>3, <4>2
      <3>6. QED
        BY <2>1, <3>4, <3>5
    <2>5. QED
      BY <2>3, <2>4
  <1>5. MaxRow \in S
    <2>1. 0..MaxRow \subseteq S
      BY <1>3, <1>4, EachUpTo, BackupAssumption
    <2>2. MaxRow \in 0..MaxRow
      BY BackupAssumption
    <2>3. QED
      BY <2>1, <2>2
  <1>6. DOMAIN rows \cap (1..MaxRow) = DOMAIN rows
    BY <1>2 DEF RowId
  <1>7. QED
    BY <1>2, <1>5, <1>6 DEF MergeRows, Itself

----------------------------------------------------------------------------
(* The library a merge leaves                                                *)

LEMMA LargestIsOne ==
    ASSUME NEW S \in SUBSET RowId, S # {}
    PROVE  Max(S) \in S /\ \A x \in S : x <= Max(S)
  <1> DEFINE T == {k \in Nat : \E i \in S : k = MaxRow - i}
  <1>0. \A i \in S : i \in Nat /\ MaxRow - i \in Nat /\ MaxRow \in Nat
    BY BackupAssumption DEF RowId
  <1>1. PICK z : z \in T
    BY <1>0
  <1>2. PICK k \in T : \A j \in T : <<j, k>> \notin OpToRel(<, Nat)
    BY <1>1, WFMin, NatLessThanWellFounded, Zenon
  <1>3. \A j \in T : ~(j < k)
    BY <1>2, Zenon DEF OpToRel
  <1>4. PICK i \in S : k = MaxRow - i
    OBVIOUS
  <1>5. \A j \in S : i >= j
    BY <1>0, <1>3, <1>4
  <1>6. Max(S) \in S /\ \A j \in S : Max(S) >= j
    BY <1>4, <1>5 DEF Max
  <1>7. QED
    BY <1>0, <1>6

LEMMA SmallestIsOne ==
    ASSUME NEW S \in SUBSET RowId, S # {}
    PROVE  Min(S) \in S
  <1>0. \A i \in S : i \in Nat
    BY BackupAssumption DEF RowId
  <1>1. PICK k \in S : \A j \in S : <<j, k>> \notin OpToRel(<, Nat)
    BY <1>0, WFMin, NatLessThanWellFounded, Zenon
  <1>2. \A j \in S : ~(j < k)
    BY <1>0, <1>1, Zenon DEF OpToRel
  <1>3. \A j \in S : k <= j
    BY <1>0, <1>2
  <1>4. QED
    BY <1>3 DEF Min

Backup == [items : Partial(RowId, Word), names : Partial(RowId, Word), links : SUBSET Link,
           marks : Partial(RowId, 1..2), sources : SUBSET Source]

LEMMA NamesStayUnique ==
    ASSUME NEW local \in Partial(RowId, Word), IsInjective(local), NEW rows \in Partial(RowId, Word),
           ~NamesCollide(local, rows)
    PROVE  IsInjective(MergeNames(local, rows).rows)
  <1>1. CASE DOMAIN rows = {}
    <2>1. PICK byId, m : m = MergeNames(local, rows) /\ m = MergeRows(local, rows, byId)
      BY Zenon DEF MergeNames
    <2>2. AgreedRows(local, rows, DOMAIN rows, m.rows, m.ids, byId) /\ DOMAIN local \subseteq DOMAIN m.rows
      BY <1>1, <2>1, MergeAgrees, MergePlaces DEF Agree
    <2>3. QED
      BY <1>1, <2>1, <2>2 DEF AgreedRows, IsInjective
  <1>2. CASE DOMAIN rows # {}
    <2>1. DOMAIN rows \in SUBSET RowId /\ rows = [i \in DOMAIN rows |-> rows[i]]
      BY PartialIs
    <2>2. PICK id \in DOMAIN rows : \A i \in DOMAIN rows : i <= id
      BY <1>2, <2>1, LargestIsOne
    <2>3. [i \in {j \in DOMAIN rows : j <= id} |-> rows[i]] = rows
      BY <2>1, <2>2
    <2>4. QED
      BY <2>2, <2>3 DEF NamesCollide
  <1>3. QED
    BY <1>1, <1>2

LEMMA MarksTyped ==
    ASSUME NEW local \in Backup, NEW f \in Backup, NEW ids, NEW to \in SUBSET RowId,
           DOMAIN local.marks \subseteq to, \A i \in DOMAIN ids : ids[i] \in to
    PROVE  MergeMarks(local, f, ids) \in Partial(RowId, 1..2) /\ DOMAIN MergeMarks(local, f, ids) \subseteq to
  <1> PICK new : new = MergeMarks(local, f, ids)
    OBVIOUS
  <1> PICK old, theirs : old = local.marks /\ theirs = f.marks
    OBVIOUS
  <1>1. /\ DOMAIN old \subseteq RowId /\ old \in [DOMAIN old -> 1..2]
        /\ DOMAIN theirs \subseteq RowId /\ theirs \in [DOMAIN theirs -> 1..2]
    BY PartialIs DEF Backup
  <1> DEFINE Given(x) == {i \in MarkRows(f, ids) : ids[i] = x}
             Old(x) == IF x \in DOMAIN old THEN old[x] ELSE 0
  <1>2. /\ DOMAIN new = DOMAIN old \cup {ids[i] : i \in MarkRows(f, ids)}
        /\ new = [x \in DOMAIN new |-> new[x]]
        /\ \A x \in DOMAIN new :
               new[x] = IF Given(x) = {} THEN Old(x)
                        ELSE IF form = "tags" THEN theirs[Max(Given(x))]
                             ELSE Max({Old(x), theirs[Min(Given(x))]})
    BY DEF MergeMarks
  <1>3. ASSUME NEW x \in DOMAIN new PROVE new[x] \in 1..2
    <2>1. CASE Given(x) = {}
      <3>1. x \in DOMAIN old
        BY <1>2, <1>3, <2>1
      <3>2. QED
        BY <1>1, <1>2, <2>1, <3>1
    <2>2. CASE Given(x) # {}
      <3>1. Given(x) \in SUBSET RowId /\ Given(x) \subseteq DOMAIN theirs
        BY <1>1 DEF MarkRows
      <3>2. Max(Given(x)) \in DOMAIN theirs /\ Min(Given(x)) \in DOMAIN theirs
        BY <2>2, <3>1, LargestIsOne, SmallestIsOne
      <3>3. Old(x) \in 0..2
        BY <1>1
      <3> HIDE DEF Given, Old
      <3>4. PICK a, b : a = Old(x) /\ b = theirs[Min(Given(x))]
        OBVIOUS
      <3>5. a \in 0..2 /\ b \in 1..2
        BY <1>1, <3>2, <3>3, <3>4
      <3>6. Max({a, b}) \in 1..2
        BY <3>5 DEF Max
      <3>7. new[x] = IF form = "tags" THEN theirs[Max(Given(x))] ELSE Max({a, b})
        BY <1>2, <1>3, <2>2, <3>4
      <3>8. theirs[Max(Given(x))] \in 1..2
        BY <1>1, <3>2
      <3>9. QED
        BY <3>6, <3>7, <3>8
    <2>3. QED
      BY <2>1, <2>2
  <1>4. DOMAIN new \subseteq to
    BY <1>2 DEF MarkRows
  <1>5. QED
    BY <1>2, <1>3, <1>4, PartialIs

LinksAfter(local, f, ids, rowIds) ==
    local.links \cup {Landed(l, ids, rowIds) : l \in LinkTargets(f, ids, rowIds)}

LEMMA MergedIs ==
    ASSUME NEW local, NEW f, NEW items, items = MergeItems(local.items, f.items),
           NEW names, names = MergeNames(local.names, f.names)
    PROVE  Merged(local, f) =
               [items |-> items.rows, names |-> names.rows,
                links |-> LinksAfter(local, f, items.ids, names.ids),
                marks |-> MergeMarks(local, f, items.ids),
                sources |-> local.sources \cup NewSources(local, f, items.ids)]
  BY DEF Merged, LinksAfter

\* Where the rows of a merge are.
RowsPlaced(local, f, items, names) ==
    /\ items.rows \in Partial(RowId, Word) /\ names.rows \in Partial(RowId, Word)
    /\ DOMAIN items.rows \subseteq RowId /\ DOMAIN names.rows \subseteq RowId
    /\ DOMAIN local.items \subseteq DOMAIN items.rows /\ DOMAIN local.names \subseteq DOMAIN names.rows
    /\ DOMAIN items.ids = DOMAIN f.items /\ DOMAIN names.ids = DOMAIN f.names
    /\ \A i \in DOMAIN items.ids : items.ids[i] \in DOMAIN items.rows
    /\ \A i \in DOMAIN names.ids : names.ids[i] \in DOMAIN names.rows
    /\ \A i \in DOMAIN local.items :
           items.rows[i] = local.items[i] \/ (i \in DOMAIN f.items /\ items.rows[i] = f.items[i])
    /\ \A i \in DOMAIN local.names :
           names.rows[i] = local.names[i] \/ (i \in DOMAIN f.names /\ names.rows[i] = f.names[i])

LEMMA MergedPlaces ==
    ASSUME NEW local \in Backup, NEW f \in Backup, NEW items, items = MergeItems(local.items, f.items),
           NEW names, names = MergeNames(local.names, f.names)
    PROVE  RowsPlaced(local, f, items, names)
  <1>1. /\ local.items \in Partial(RowId, Word) /\ f.items \in Partial(RowId, Word)
        /\ local.names \in Partial(RowId, Word) /\ f.names \in Partial(RowId, Word)
    BY DEF Backup
  <1>2. /\ items.rows \in Partial(RowId, Word) /\ DOMAIN local.items \subseteq DOMAIN items.rows
        /\ DOMAIN items.ids = DOMAIN f.items
        /\ \A i \in DOMAIN f.items : items.ids[i] \in DOMAIN items.rows
        /\ \A i \in DOMAIN local.items :
               items.rows[i] = local.items[i] \/ (i \in DOMAIN f.items /\ items.rows[i] = f.items[i])
    <2>1. PICK byId : items = MergeRows(local.items, f.items, byId)
      BY Zenon DEF MergeItems
    <2>2. /\ items.rows \in Partial(RowId, Word) /\ DOMAIN local.items \subseteq DOMAIN items.rows
          /\ items.ids = [i \in DOMAIN f.items |-> items.ids[i]]
          /\ \A i \in DOMAIN local.items :
                 items.rows[i] = local.items[i] \/ (i \in DOMAIN f.items /\ items.rows[i] = f.items[i])
          /\ \A i \in DOMAIN f.items : items.ids[i] \in DOMAIN items.rows
      BY <1>1, <2>1, MergePlaces
    <2>3. QED
      BY <2>2, Zenon
  <1>3. /\ names.rows \in Partial(RowId, Word) /\ DOMAIN local.names \subseteq DOMAIN names.rows
        /\ DOMAIN names.ids = DOMAIN f.names
        /\ \A i \in DOMAIN f.names : names.ids[i] \in DOMAIN names.rows
        /\ \A i \in DOMAIN local.names :
               names.rows[i] = local.names[i] \/ (i \in DOMAIN f.names /\ names.rows[i] = f.names[i])
    <2>1. PICK byId : names = MergeRows(local.names, f.names, byId)
      BY Zenon DEF MergeNames
    <2>2. /\ names.rows \in Partial(RowId, Word) /\ DOMAIN local.names \subseteq DOMAIN names.rows
          /\ names.ids = [i \in DOMAIN f.names |-> names.ids[i]]
          /\ \A i \in DOMAIN local.names :
                 names.rows[i] = local.names[i] \/ (i \in DOMAIN f.names /\ names.rows[i] = f.names[i])
          /\ \A i \in DOMAIN f.names : names.ids[i] \in DOMAIN names.rows
      BY <1>1, <2>1, MergePlaces
    <2>3. QED
      BY <2>2, Zenon
  <1>4. DOMAIN items.rows \subseteq RowId /\ DOMAIN names.rows \subseteq RowId
    BY <1>2, <1>3, PartialIs
  <1>5. QED
    BY <1>2, <1>3, <1>4 DEF RowsPlaced

\* A source of the backup the library does not have joins it under the local item.
At(s, ids) == [s EXCEPT !.item = ids[s.item]]

LEMMA SourceAt ==
    ASSUME NEW s \in Source, NEW ids, ids[s.item] \in RowId
    PROVE  At(s, ids) \in Source /\ At(s, ids).item = ids[s.item] /\ At(s, ids).url = s.url /\ At(s, ids).key = s.key
  BY DEF At, Source

LEMMA SourcesJoin ==
    ASSUME NEW local \in Backup, NEW f \in Backup, NEW ids, NEW to \in SUBSET RowId,
           \A i \in DOMAIN ids : ids[i] \in to, \A s \in local.sources : s.item \in to,
           ~SourcePayloadErrors(f), ~ClassifyConflicts(local, f, ids),
           \A s, t \in local.sources : s # t => s.url # t.url /\ (s.key = t.key => s.key = 0)
    PROVE  LET new == local.sources \cup NewSources(local, f, ids)
           IN  /\ new \subseteq Source
               /\ \A s \in new : s.item \in to
               /\ \A s, t \in new : s # t => s.url # t.url /\ (s.key = t.key => s.key = 0)
  <1> DEFINE New == NewSources(local, f, ids)
  <1>1. local.sources \subseteq Source /\ f.sources \subseteq Source
    BY DEF Backup
  <1>2. ASSUME NEW n \in New
        PROVE  \E t \in f.sources : /\ Candidates(local, t) = {} /\ n = At(t, ids)
                                    /\ n \in Source /\ n.item \in to /\ n.url = t.url /\ n.key = t.key
    <2>1. PICK t \in f.sources : Candidates(local, t) = {} /\ n = At(t, ids)
      BY DEF NewSources, At
    <2>2. ids[t.item] \in to
      BY DEF ClassifyConflicts
    <2>3. QED
      BY <1>1, <2>1, <2>2, SourceAt
  <1>3. ASSUME NEW s \in local.sources, NEW n \in New
        PROVE  s.url # n.url /\ (s.key = n.key => s.key = 0)
    BY <1>2 DEF Candidates
  <1>4. ASSUME NEW m \in New, NEW n \in New, m # n
        PROVE  m.url # n.url /\ (m.key = n.key => m.key = 0)
    <2>1. PICK s \in f.sources : m = At(s, ids) /\ m.url = s.url /\ m.key = s.key
      BY <1>2
    <2>2. PICK t \in f.sources : n = At(t, ids) /\ n.url = t.url /\ n.key = t.key
      BY <1>2
    <2>3. s # t
      BY <1>4, <2>1, <2>2
    <2>4. QED
      BY <2>1, <2>2, <2>3 DEF SourcePayloadErrors
  <1> HIDE DEF New
  <1>5. QED
    BY <1>1, <1>2, <1>3, <1>4 DEF New

LEMMA MergedSound ==
    ASSUME NEW local \in Backup, NEW f \in Backup, Sound(local), ~SourcePayloadErrors(f),
           ~Refused(local, f), ~Collides(local, f)
    PROVE  Merged(local, f) \in Backup /\ Sound(Merged(local, f))
  <1>a. PICK items, names : /\ items = MergeItems(local.items, f.items)
                            /\ names = MergeNames(local.names, f.names)
    OBVIOUS
  <1>b. PICK links, marks, sources :
          /\ links = LinksAfter(local, f, items.ids, names.ids)
          /\ marks = MergeMarks(local, f, items.ids)
          /\ sources = local.sources \cup NewSources(local, f, items.ids)
    OBVIOUS
  <1>1. Merged(local, f) = [items |-> items.rows, names |-> names.rows, links |-> links, marks |-> marks, sources |-> sources]
    BY <1>a, <1>b, MergedIs
  <1>2. /\ items.rows \in Partial(RowId, Word) /\ names.rows \in Partial(RowId, Word)
        /\ DOMAIN items.rows \subseteq RowId /\ DOMAIN names.rows \subseteq RowId
        /\ DOMAIN local.items \subseteq DOMAIN items.rows /\ DOMAIN local.names \subseteq DOMAIN names.rows
        /\ \A i \in DOMAIN items.ids : items.ids[i] \in DOMAIN items.rows
        /\ \A i \in DOMAIN names.ids : names.ids[i] \in DOMAIN names.rows
    <2>1. RowsPlaced(local, f, items, names)
      BY <1>a, MergedPlaces, Zenon
    <2>2. QED
      BY <2>1, Zenon DEF RowsPlaced
  <1>3. IsInjective(names.rows)
    <2>1. local.names \in Partial(RowId, Word) /\ f.names \in Partial(RowId, Word)
      BY DEF Backup
    <2>2. IsInjective(local.names) /\ ~NamesCollide(local.names, f.names)
      BY DEF Sound, Collides
    <2>3. QED
      BY <1>a, <2>1, <2>2, NamesStayUnique
  <1>4. links \subseteq Link /\ \A l \in links : l.item \in DOMAIN items.rows /\ l.row \in DOMAIN names.rows
    <2>1. \A l \in local.links : l \in Link /\ l.item \in DOMAIN items.rows /\ l.row \in DOMAIN names.rows
      BY <1>2 DEF Backup, Sound
    <2>2. ASSUME NEW l \in LinkTargets(f, items.ids, names.ids)
          PROVE  LET to == Landed(l, items.ids, names.ids)
                 IN  to \in Link /\ to.item \in DOMAIN items.rows /\ to.row \in DOMAIN names.rows
      BY <1>2 DEF LinkTargets, Landed, Link
    <2>3. QED
      BY <1>b, <2>1, <2>2 DEF LinksAfter
  <1>5. marks \in Partial(RowId, 1..2) /\ DOMAIN marks \subseteq DOMAIN items.rows
    <2>1. DOMAIN local.marks \subseteq DOMAIN items.rows
      BY <1>2 DEF Sound
    <2>2. PICK to, ids : to = DOMAIN items.rows /\ ids = items.ids
      OBVIOUS
    <2>3. to \in SUBSET RowId /\ DOMAIN local.marks \subseteq to /\ \A i \in DOMAIN ids : ids[i] \in to
      BY <1>2, <2>1, <2>2
    <2>4. MergeMarks(local, f, ids) \in Partial(RowId, 1..2) /\ DOMAIN MergeMarks(local, f, ids) \subseteq to
      BY <2>3, MarksTyped, Zenon
    <2>5. QED
      BY <1>b, <2>2, <2>4
  <1>6. /\ sources \subseteq Source /\ \A s \in sources : s.item \in DOMAIN items.rows
        /\ \A s, t \in sources : s # t => s.url # t.url /\ (s.key = t.key => s.key = 0)
    <2>1. ~ClassifyConflicts(local, f, items.ids)
      BY <1>a DEF Refused
    <2>2. /\ \A s \in local.sources : s.item \in DOMAIN items.rows
          /\ \A s, t \in local.sources : s # t => s.url # t.url /\ (s.key = t.key => s.key = 0)
      BY <1>2 DEF Sound
    <2>3. PICK to, ids : to = DOMAIN items.rows /\ ids = items.ids
      OBVIOUS
    <2>4. /\ to \in SUBSET RowId /\ \A i \in DOMAIN ids : ids[i] \in to
          /\ \A s \in local.sources : s.item \in to
      BY <1>2, <2>2, <2>3
    <2>5. sources = local.sources \cup NewSources(local, f, ids) /\ ~ClassifyConflicts(local, f, ids)
      BY <1>b, <2>1, <2>3
    <2>6. /\ sources \subseteq Source /\ \A s \in sources : s.item \in to
          /\ \A s, t \in sources : s # t => s.url # t.url /\ (s.key = t.key => s.key = 0)
      BY <2>2, <2>4, <2>5, SourcesJoin
    <2>7. QED
      BY <2>3, <2>6
  <1>7. QED
    BY <1>1, <1>2, <1>3, <1>4, <1>5, <1>6 DEF Backup, Sound

----------------------------------------------------------------------------
(* The library and the file, whatever is done                                *)

\* What was checked before the lock and under it still holds at the commit: no page
\* and no export changes the file or, once it is merged, the library.
BackupInv ==
    /\ lib \in Backup /\ Sound(lib) /\ file \in Backup
    /\ exporting \in Seq({"items", "names", "links", "marks", "sources"})
    /\ exporting = <<>> \/ restoring.pc = "idle"
    /\ restoring.pc \in {"digested", "merged"} => ~SourcePayloadErrors(file)
    /\ restoring.pc = "merged" => /\ restoring.after = <<Merged(lib, file), FALSE, stamp>>
                                  /\ ~Refused(lib, file) /\ ~Collides(lib, file)

LEMMA WholeIsTyped ==
    ASSUME NEW size, NEW f \in Whole(size)
    PROVE  f \in Backup
  <1>1. PICK i \in Partial(RowId, Word), n \in Partial(RowId, Word) :
            f \in [items : {i}, names : {n}, links : UpToTwo([item : DOMAIN i, row : DOMAIN n]),
                  marks : Partial(DOMAIN i, 1..2),
                  sources : UpToTwo([item : DOMAIN i, url : Word, key : Key])]
    BY DEF Whole
  <1>2. DOMAIN i \subseteq RowId /\ DOMAIN n \subseteq RowId
    BY PartialIs
  <1> PICK l, m, s : l = f.links /\ m = f.marks /\ s = f.sources
    OBVIOUS
  <1>3. l \subseteq Link
    <2>1. l \in UpToTwo([item : DOMAIN i, row : DOMAIN n])
      BY <1>1
    <2>2. QED
      BY <1>2, <2>1 DEF UpToTwo, Link
  <1>4. s \subseteq Source
    <2>1. s \in UpToTwo([item : DOMAIN i, url : Word, key : Key])
      BY <1>1
    <2>2. QED
      BY <1>2, <2>1 DEF UpToTwo, Source
  <1>5. m \in Partial(RowId, 1..2)
    <2>1. DOMAIN m \subseteq DOMAIN i /\ m \in [DOMAIN m -> 1..2]
      BY <1>1, PartialIs
    <2>2. QED
      BY <1>2, <2>1, PartialIs
  <1>6. QED
    BY <1>1, <1>3, <1>4, <1>5 DEF Backup

LEMMA BackupStarts == BackupInit => BackupInv
  <1> SUFFICES ASSUME BackupInit PROVE BackupInv
    OBVIOUS
  <1>1. lib \in Backup /\ Sound(lib) /\ file \in Backup
    BY WholeIsTyped DEF BackupInit, Libraries, Files
  <1>2. exporting = <<>> /\ restoring.pc = "idle"
    BY DEF BackupInit, Idle
  <1>3. QED
    BY <1>1, <1>2 DEF BackupInv

LEMMA NothingIsTyped == NoFile \in Backup
  <1> PICK none : none = [x \in {} |-> 0]
    OBVIOUS
  <1>1. none = <<>>
    OBVIOUS
  <1>2. DOMAIN none = {} /\ none \in Partial(RowId, Word) /\ none \in Partial(RowId, 1..2)
    BY PartialIs
  <1>3. QED
    BY <1>1, <1>2 DEF NoFile, Backup

\* An export that starts, a table it reads.
LEMMA ExportKeepsBackups == BackupInv /\ (StartExport \/ ReadTable) => BackupInv'
  <1> SUFFICES ASSUME BackupInv, StartExport \/ ReadTable PROVE BackupInv'
    OBVIOUS
  <1>0. lib' = lib /\ restoring' = restoring /\ restoring.pc = "idle"
    BY Zenon DEF StartExport, ReadTable, BackupInv
  <1>1. Sound(lib)' /\ (lib \in Backup)'
    BY <1>0 DEF BackupInv
  <1>2. CASE StartExport
    <2>1. (file \in Backup)'
      BY <1>2, NothingIsTyped DEF StartExport
    <2>2. exporting' \in Seq({"items", "names", "links", "marks", "sources"})
      BY <1>2 DEF StartExport, Tables
    <2>3. QED
      BY <1>0, <1>1, <2>1, <2>2 DEF BackupInv
  <1>3. CASE ReadTable
    <2> PICK part, old, now : part = Head(exporting) /\ old = file /\ now = file'
      OBVIOUS
    <2>1. now = [old EXCEPT ![part] = lib[part]] /\ old \in Backup /\ lib \in Backup
      BY <1>3 DEF ReadTable, BackupInv
    <2>2. part \in {"items", "names", "links", "marks", "sources"}
      BY <1>3 DEF ReadTable, BackupInv
    <2>3. now \in Backup
      BY <2>1, <2>2 DEF Backup
    <2>4. exporting' \in Seq({"items", "names", "links", "marks", "sources"})
      BY <1>3 DEF ReadTable, BackupInv
    <2>5. QED
      BY <1>0, <1>1, <2>3, <2>4 DEF BackupInv
  <1>4. QED
    BY <1>2, <1>3

LEMMA MergesStay ==
    lib' = lib /\ file' = file /\ form' = form =>
        /\ Refused(lib, file)' = Refused(lib, file) /\ Collides(lib, file)' = Collides(lib, file)
        /\ Merged(lib, file)' = Merged(lib, file)
  <1> SUFFICES ASSUME lib' = lib, file' = file, form' = form
               PROVE  /\ Refused(lib, file)' = Refused(lib, file) /\ Collides(lib, file)' = Collides(lib, file)
                      /\ Merged(lib, file)' = Merged(lib, file)
    OBVIOUS
  <1>1. Refused(lib, file)' = Refused(lib, file)
    OBVIOUS
  <1>2. Collides(lib, file)' = Collides(lib, file)
    BY DEF Collides, NamesCollide, LinksCollide, MarksCollide, MergeNames
  <1>3. Merged(lib, file)' = Merged(lib, file)
    BY DEF Merged, MergeNames, MergeMarks
  <1>4. QED
    BY <1>1, <1>2, <1>3

\* The file and the library stay.
LEMMA RestoreKeepsBackups ==
    BackupInv /\ (StartRestore \/ MergeFile \/ InspectRestore) => BackupInv'
  <1> SUFFICES ASSUME BackupInv, StartRestore \/ MergeFile \/ InspectRestore PROVE BackupInv'
    OBVIOUS
  <1>0. lib' = lib /\ file' = file /\ exporting' = exporting /\ stamp' = stamp /\ form' = form
    BY Zenon DEF StartRestore, MergeFile, InspectRestore
  <1>1. /\ Sound(lib)' /\ (lib \in Backup)' /\ (file \in Backup)'
        /\ exporting' \in Seq({"items", "names", "links", "marks", "sources"})
    BY <1>0 DEF BackupInv
  <1>2. CASE StartRestore
    <2>1. exporting' = <<>>
      BY <1>2 DEF StartRestore
    <2>2. \/ restoring' = restoring /\ restoring.pc = "idle"
          \/ restoring'.pc = "digested" /\ ~SourcePayloadErrors(file)
      BY <1>2 DEF StartRestore
    <2>3. (restoring.pc \in {"digested", "merged"} => ~SourcePayloadErrors(file))' /\ restoring'.pc # "merged"
      BY <1>0, <2>2 DEF SourcePayloadErrors
    <2>4. QED
      BY <1>1, <2>1, <2>3 DEF BackupInv
  <1>3. CASE MergeFile
    <2>1. restoring.pc = "digested" /\ ~SourcePayloadErrors(file) /\ exporting = <<>>
      BY <1>3 DEF MergeFile, BackupInv
    <2>b. PICK after : after = <<Merged(lib, file), FALSE, stamp>>
      OBVIOUS
    <2>a. \/ Inspect(<<>>, "rolled_back") \/ Inspect(<<>>, "refused")
          \/ /\ ~Refused(lib, file) /\ ~Collides(lib, file)
             /\ restoring' = [pc |-> "merged", before |-> restoring.before,
                              after |-> after]
      BY <1>3, <2>b, Zenon DEF MergeFile
    <2>2. \/ restoring'.pc = "inspect"
          \/ /\ ~Refused(lib, file) /\ ~Collides(lib, file) /\ restoring'.pc = "merged"
             /\ restoring'.after = after
      <3> PICK new : new = restoring'
        OBVIOUS
      <3> PICK before : before = restoring.before
        OBVIOUS
      <3>1. Inspect(<<>>, "rolled_back") => new.pc = "inspect"
        BY DEF Inspect
      <3>2. Inspect(<<>>, "refused") => new.pc = "inspect"
        BY DEF Inspect
      <3>3. new = [pc |-> "merged", before |-> before, after |-> after] => new.pc = "merged" /\ new.after = after
        OBVIOUS
      <3>4. QED
        BY <2>a, <3>1, <3>2, <3>3, Zenon
    <2>3. SourcePayloadErrors(file)' = SourcePayloadErrors(file)
      BY <1>0 DEF SourcePayloadErrors
    <2>4. /\ Refused(lib, file)' = Refused(lib, file) /\ Collides(lib, file)' = Collides(lib, file)
          /\ Merged(lib, file)' = Merged(lib, file)
      BY <1>0, MergesStay, Zenon
    <2>5. QED
      BY <1>0, <1>1, <2>1, <2>b, <2>2, <2>3, <2>4 DEF BackupInv
  <1>4. CASE InspectRestore
    BY <1>0, <1>1, <1>4 DEF InspectRestore, Idle, BackupInv
  <1>5. QED
    BY <1>2, <1>3, <1>4

LEMMA AfterIs ==
    ASSUME BackupInv, restoring.pc = "merged"
    PROVE  restoring.after[1] = Merged(lib, file)
  <1>1. PICK said : said = FALSE
    OBVIOUS
  <1>2. restoring.after = <<Merged(lib, file), said, stamp>>
    BY <1>1, Zenon DEF BackupInv
  <1>3. QED
    BY <1>2

LEMMA CommitKeepsBackups == BackupInv /\ CommitRestore => BackupInv'
  <1> SUFFICES ASSUME BackupInv, CommitRestore PROVE BackupInv'
    OBVIOUS
  <1>1. /\ restoring.pc = "merged" /\ exporting' = exporting /\ file' = file
        /\ exporting \in Seq({"items", "names", "links", "marks", "sources"}) /\ exporting = <<>>
    BY Zenon DEF CommitRestore, BackupInv
  <1>2. restoring'.pc \in {"idle", "inspect"}
    <2>1. restoring' = Idle \/ Inspect(restoring.after, "rolled_back")
      BY Zenon DEF CommitRestore
    <2>2. QED
      BY <2>1 DEF Idle, Inspect
  <1>3. lib' = lib \/ lib' = Merged(lib, file)
    BY <1>1, AfterIs, Zenon DEF CommitRestore
  <1>4. Merged(lib, file) \in Backup /\ Sound(Merged(lib, file))
    BY <1>1, MergedSound DEF BackupInv
  <1>5. (lib \in Backup)' /\ Sound(lib)' /\ (file \in Backup)'
    BY <1>1, <1>3, <1>4 DEF BackupInv
  <1>6. QED
    BY <1>1, <1>2, <1>5 DEF BackupInv

LEMMA WithoutItem ==
    ASSUME NEW old \in Backup, Sound(old), NEW i, NEW new,
           new = [items |-> [j \in DOMAIN old.items \ {i} |-> old.items[j]], names |-> old.names,
                  links |-> {l \in old.links : l.item # i},
                  marks |-> [j \in DOMAIN old.marks \ {i} |-> old.marks[j]],
                  sources |-> {s \in old.sources : s.item # i}]
    PROVE  new \in Backup /\ Sound(new)
  <1>1. /\ DOMAIN old.items \subseteq RowId /\ old.items \in [DOMAIN old.items -> Word]
        /\ DOMAIN old.marks \subseteq RowId /\ old.marks \in [DOMAIN old.marks -> 1..2]
    BY PartialIs DEF Backup
  <1> PICK items, marks : items = new.items /\ marks = new.marks
    OBVIOUS
  <1>2. /\ DOMAIN items = DOMAIN old.items \ {i} /\ items \in [DOMAIN items -> Word]
        /\ DOMAIN marks = DOMAIN old.marks \ {i} /\ marks \in [DOMAIN marks -> 1..2]
    BY <1>1
  <1>3. items \in Partial(RowId, Word) /\ marks \in Partial(RowId, 1..2)
    BY <1>1, <1>2, PartialIs
  <1>4. new \in Backup
    BY <1>3 DEF Backup
  <1>5. Sound(new)
    BY <1>2 DEF Sound
  <1>6. QED
    BY <1>4, <1>5

LEMMA WithTitle ==
    ASSUME NEW old \in Backup, Sound(old), NEW i \in RowId, NEW w \in Word, NEW new,
           new = [old EXCEPT !.items = WithRow(old.items, i, w)]
    PROVE  new \in Backup /\ Sound(new)
  <1>1. DOMAIN old.items \subseteq RowId /\ old.items \in [DOMAIN old.items -> Word]
    BY PartialIs DEF Backup
  <1> PICK items : items = WithRow(old.items, i, w)
    OBVIOUS
  <1>2. DOMAIN items = {i} \cup DOMAIN old.items /\ items \in [DOMAIN items -> Word]
    BY <1>1 DEF WithRow
  <1>3. items \in Partial(RowId, Word)
    BY <1>1, <1>2, PartialIs
  <1>4. new \in Backup /\ new.items = items /\ new.names = old.names /\ new.links = old.links
        /\ new.marks = old.marks /\ new.sources = old.sources
    BY <1>3 DEF Backup
  <1>5. Sound(new)
    BY <1>2, <1>4 DEF Sound
  <1>6. QED
    BY <1>4, <1>5

\* The two edits: an item goes with its relation rows, or a title is written.
EditOf(old, new) ==
    \/ \E i \in DOMAIN old.items :
          new = [items |-> [j \in DOMAIN old.items \ {i} |-> old.items[j]], names |-> old.names,
                 links |-> {l \in old.links : l.item # i},
                 marks |-> [j \in DOMAIN old.marks \ {i} |-> old.marks[j]],
                 sources |-> {s \in old.sources : s.item # i}]
    \/ \E i \in RowId, w \in Word : new = [old EXCEPT !.items = WithRow(old.items, i, w)]

LEMMA EditIs == EditLibrary => EditOf(lib, lib')
  BY Zenon DEF EditLibrary, EditOf

LEMMA EditedLibrary ==
    ASSUME NEW old \in Backup, Sound(old), NEW new, EditOf(old, new)
    PROVE  new \in Backup /\ Sound(new)
  <1>1. CASE \E i \in DOMAIN old.items :
                 new = [items |-> [j \in DOMAIN old.items \ {i} |-> old.items[j]], names |-> old.names,
                        links |-> {l \in old.links : l.item # i},
                        marks |-> [j \in DOMAIN old.marks \ {i} |-> old.marks[j]],
                        sources |-> {s \in old.sources : s.item # i}]
    BY <1>1, WithoutItem, Zenon
  <1>2. CASE \E i \in RowId, w \in Word : new = [old EXCEPT !.items = WithRow(old.items, i, w)]
    BY <1>2, WithTitle, Zenon
  <1>3. QED
    BY <1>1, <1>2, Zenon DEF EditOf

LEMMA EditKeepsBackups == BackupInv /\ EditLibrary => BackupInv'
  <1> SUFFICES ASSUME BackupInv, EditLibrary PROVE BackupInv'
    OBVIOUS
  <1>1. /\ exporting' = exporting /\ file' = file /\ restoring' = restoring
        /\ exporting # <<>> \/ restoring.pc \in {"digested", "inspect"}
    BY Zenon DEF EditLibrary
  <1>2. restoring.pc # "merged"
    BY <1>1 DEF BackupInv
  <1> PICK old, new : old = lib /\ new = lib'
    OBVIOUS
  <1>3. old \in Backup /\ Sound(old)
    BY DEF BackupInv
  <1>4. new \in Backup /\ Sound(new)
    <2>1. EditOf(old, new)
      BY EditIs, Zenon
    <2>2. QED
      BY <1>3, <2>1, EditedLibrary, Zenon
  <1>5. (lib \in Backup)' /\ Sound(lib)'
    BY <1>4
  <1>6. SourcePayloadErrors(file)' = SourcePayloadErrors(file)
    BY <1>1 DEF SourcePayloadErrors
  <1>7. QED
    BY <1>1, <1>2, <1>5, <1>6 DEF BackupInv

LEMMA StutterKeepsBackups == BackupInv /\ UNCHANGED backupVars => BackupInv'
  <1> SUFFICES ASSUME BackupInv, UNCHANGED backupVars PROVE BackupInv'
    OBVIOUS
  <1>1. /\ lib' = lib /\ file' = file /\ form' = form /\ exporting' = exporting
        /\ restoring' = restoring /\ stamp' = stamp
    BY Zenon DEF backupVars
  <1>2. /\ Refused(lib, file)' = Refused(lib, file) /\ Collides(lib, file)' = Collides(lib, file)
        /\ Merged(lib, file)' = Merged(lib, file)
    BY <1>1, MergesStay, Zenon
  <1>3. Sound(lib)' /\ SourcePayloadErrors(file)' = SourcePayloadErrors(file)
    BY <1>1 DEF SourcePayloadErrors, BackupInv
  <1>4. QED
    BY <1>1, <1>2, <1>3 DEF BackupInv

LEMMA BackupsInvariant == BackupSpec => []BackupInv
  <1>1. BackupInv /\ [BackupNext]_backupVars => BackupInv'
    BY ExportKeepsBackups, RestoreKeepsBackups, CommitKeepsBackups, EditKeepsBackups, StutterKeepsBackups, Zenon
       DEF BackupNext
  <1>2. QED
    BY BackupStarts, <1>1, PTL DEF BackupSpec

\* No restore, whatever its file, and no page leaves a library that breaks what its
\* tables promise.
THEOREM LibrariesStaySound == BackupSpec => []BackupTypeOK
  <1>1. BackupInv => BackupTypeOK
    <2> SUFFICES ASSUME BackupInv PROVE BackupTypeOK
      OBVIOUS
    <2>1. DOMAIN lib.items \subseteq RowId
      BY PartialIs DEF BackupInv, Backup
    <2>2. QED
      BY <2>1 DEF BackupInv, BackupTypeOK, Backup
  <1>2. QED
    BY BackupsInvariant, <1>1, PTL

----------------------------------------------------------------------------
(* What a restore says                                                       *)

\* The rows of the library as they were, those of the backup where their ids say,
\* and no others.
RowsAgree(local, rows, m) ==
    /\ \A i \in DOMAIN local : i \in DOMAIN m.rows /\ m.rows[i] = local[i]
    /\ \A i \in DOMAIN rows : m.ids[i] \in DOMAIN m.rows /\ m.rows[m.ids[i]] = rows[i]
    /\ \A x \in DOMAIN m.rows : x \in DOMAIN local \/ \E i \in DOMAIN rows : m.ids[i] = x

LEMMA CompatibleRows ==
    ASSUME NEW local \in Backup, NEW f \in Backup, Sound(local), Compatible(local, f),
           NEW items, items = MergeItems(local.items, f.items),
           NEW names, names = MergeNames(local.names, f.names)
    PROVE  RowsAgree(local.items, f.items, items) /\ RowsAgree(local.names, f.names, names)
  <1>0. RowsPlaced(local, f, items, names)
    BY MergedPlaces, Zenon
  <1>1. /\ local.items \in Partial(RowId, Word) /\ f.items \in Partial(RowId, Word)
        /\ local.names \in Partial(RowId, Word) /\ f.names \in Partial(RowId, Word)
    BY DEF Backup
  <1>2. RowsAgree(local.items, f.items, items)
    <2>1. PICK byId : items = MergeRows(local.items, f.items, byId)
      BY Zenon DEF MergeItems
    <2>2. Agree(local.items, f.items)
      BY DEF Compatible, KeepsTitles, Agree
    <2>3. AgreedRows(local.items, f.items, DOMAIN f.items, items.rows, items.ids, byId)
      BY <1>1, <2>1, <2>2, MergeAgrees
    <2>4. QED
      BY <1>0, <2>3 DEF RowsAgree, RowsPlaced, AgreedRows
  <1>3. RowsAgree(local.names, f.names, names)
    <2>1. PICK byId : names = MergeRows(local.names, f.names, byId)
      BY Zenon DEF MergeNames
    <2>2. Agree(local.names, f.names)
      BY DEF Compatible, KeepsNames, Agree
    <2>3. AgreedRows(local.names, f.names, DOMAIN f.names, names.rows, names.ids, byId)
      BY <1>1, <2>1, <2>2, MergeAgrees
    <2>4. QED
      BY <1>0, <2>3 DEF RowsAgree, RowsPlaced, AgreedRows
  <1>4. QED
    BY <1>2, <1>3

SaidByRows(rows) == {rows[i] : i \in DOMAIN rows}
SaidByLinks(items, names, links) == {<<items[l.item], names[l.row]>> : l \in links}
SaidBySources(items, sources) == {<<items[s.item], s.url, s.key>> : s \in sources}

LEMMA ContentIs ==
    ASSUME NEW f
    PROVE  /\ DOMAIN Content(f) = {"items", "names", "links", "sources"}
           /\ Content(f)["items"] = SaidByRows(f.items)
           /\ Content(f)["names"] = SaidByRows(f.names)
           /\ Content(f)["links"] = SaidByLinks(f.items, f.names, f.links)
           /\ Content(f)["sources"] = SaidBySources(f.items, f.sources)
  BY DEF Content, SaidByRows, SaidByLinks, SaidBySources

LEMMA RowsSay ==
    ASSUME NEW local, NEW rows, NEW m, RowsAgree(local, rows, m)
    PROVE  SaidByRows(m.rows) = SaidByRows(local) \cup SaidByRows(rows)
  BY DEF RowsAgree, SaidByRows

LEMMA LinksSay ==
    ASSUME NEW local \in Backup, NEW f \in Backup, Sound(local), ReportClean(f),
           NEW items, RowsAgree(local.items, f.items, items), DOMAIN items.ids = DOMAIN f.items,
           NEW names, RowsAgree(local.names, f.names, names), DOMAIN names.ids = DOMAIN f.names
    PROVE  SaidByLinks(items.rows, names.rows, LinksAfter(local, f, items.ids, names.ids))
               = SaidByLinks(local.items, local.names, local.links) \cup SaidByLinks(f.items, f.names, f.links)
  <1> PICK links : links = LinksAfter(local, f, items.ids, names.ids)
    OBVIOUS
  <1> DEFINE New(l) == <<items.rows[l.item], names.rows[l.row]>>
  <1>1. \A l \in local.links : New(l) = <<local.items[l.item], local.names[l.row]>>
    BY DEF Sound, RowsAgree
  <1>2. LinkTargets(f, items.ids, names.ids) = f.links
    BY DEF LinkTargets, ReportClean
  <1>3. \A l \in f.links : New(Landed(l, items.ids, names.ids)) = <<f.items[l.item], f.names[l.row]>>
    BY DEF Landed, ReportClean, RowsAgree
  <1>4. \A l \in f.links : Landed(l, items.ids, names.ids) \in links
    BY <1>2 DEF LinksAfter
  <1>5. \A l \in links : l \in local.links \/ \E k \in f.links : l = Landed(k, items.ids, names.ids)
    BY <1>2 DEF LinksAfter
  <1>6. local.links \subseteq links
    BY DEF LinksAfter
  <1>7. ASSUME NEW x PROVE (\E l \in links : x = New(l)) <=>
              \/ \E l \in local.links : x = <<local.items[l.item], local.names[l.row]>>
              \/ \E l \in f.links : x = <<f.items[l.item], f.names[l.row]>>
    <2> HIDE DEF New
    <2>1. QED
      BY <1>1, <1>3, <1>4, <1>5, <1>6
  <1>8. QED
    BY <1>7 DEF SaidByLinks

LEMMA SourcesSay ==
    ASSUME NEW local \in Backup, NEW f \in Backup, Sound(local), ReportClean(f),
           NEW items, RowsAgree(local.items, f.items, items), DOMAIN items.ids = DOMAIN f.items,
           DOMAIN items.rows \subseteq RowId,
           ~ClassifyConflicts(local, f, items.ids)
    PROVE  SaidBySources(items.rows, local.sources \cup NewSources(local, f, items.ids))
               = SaidBySources(local.items, local.sources) \cup SaidBySources(f.items, f.sources)
  <1> PICK sources : sources = local.sources \cup NewSources(local, f, items.ids)
    OBVIOUS
  <1> DEFINE New(s) == <<items.rows[s.item], s.url, s.key>>
  <1>1. \A s \in local.sources : New(s) = <<local.items[s.item], s.url, s.key>>
    BY DEF Sound, RowsAgree
  <1>2. ASSUME NEW s \in f.sources
        PROVE  New(At(s, items.ids)) = <<f.items[s.item], s.url, s.key>>
    <2>1. s \in Source /\ s.item \in DOMAIN f.items /\ items.ids[s.item] \in RowId
      BY DEF Backup, ReportClean, RowsAgree
    <2>2. /\ At(s, items.ids).item = items.ids[s.item] /\ At(s, items.ids).url = s.url
          /\ At(s, items.ids).key = s.key
      BY <2>1, SourceAt
    <2>3. QED
      BY <2>1, <2>2 DEF RowsAgree
  <1>3. \A s \in f.sources : At(s, items.ids) \in sources
    <2> SUFFICES ASSUME NEW s \in f.sources PROVE At(s, items.ids) \in sources
      OBVIOUS
    <2>1. CASE Candidates(local, s) = {}
      BY <2>1 DEF NewSources, At
    <2>2. CASE Candidates(local, s) # {}
      <3>1. Reused(local, s, items.ids)
        BY <2>2 DEF ClassifyConflicts
      <3>2. At(s, items.ids) \in Candidates(local, s)
        BY <3>1 DEF Reused, At
      <3>3. QED
        BY <3>2 DEF Candidates
    <2>3. QED
      BY <2>1, <2>2
  <1>4. \A s \in sources : s \in local.sources \/ \E k \in f.sources : s = At(k, items.ids)
    BY DEF NewSources, At
  <1>5. local.sources \subseteq sources
    OBVIOUS
  <1>6. ASSUME NEW x PROVE (\E s \in sources : x = New(s)) <=>
              \/ \E s \in local.sources : x = <<local.items[s.item], s.url, s.key>>
              \/ \E s \in f.sources : x = <<f.items[s.item], s.url, s.key>>
    <2> HIDE DEF New
    <2>1. QED
      BY <1>1, <1>2, <1>3, <1>4, <1>5
  <1>7. QED
    BY <1>6 DEF SaidBySources

\* Nothing is lost of either and nothing added.
LEMMA ContentsJoin ==
    ASSUME NEW local \in Backup, NEW f \in Backup, Sound(local), Compatible(local, f), ReportClean(f),
           ~Refused(local, f), NEW new, new = Merged(local, f)
    PROVE  \A part \in DOMAIN Content(local) : Content(new)[part] = Content(local)[part] \cup Content(f)[part]
  <1>a. PICK items, names : /\ items = MergeItems(local.items, f.items)
                            /\ names = MergeNames(local.names, f.names)
    OBVIOUS
  <1>b. PICK links, sources :
          /\ links = LinksAfter(local, f, items.ids, names.ids)
          /\ sources = local.sources \cup NewSources(local, f, items.ids)
    OBVIOUS
  <1>1. new.items = items.rows /\ new.names = names.rows /\ new.links = links /\ new.sources = sources
    <2>1. new = [items |-> items.rows, names |-> names.rows, links |-> links,
                 marks |-> MergeMarks(local, f, items.ids), sources |-> sources]
      BY <1>a, <1>b, MergedIs
    <2>2. QED
      BY <2>1
  <1>2. RowsAgree(local.items, f.items, items) /\ RowsAgree(local.names, f.names, names)
    BY <1>a, CompatibleRows, Zenon
  <1>3. RowsPlaced(local, f, items, names)
    BY <1>a, MergedPlaces, Zenon
  <1>4. Content(new)["items"] = Content(local)["items"] \cup Content(f)["items"]
    <2>1. SaidByRows(items.rows) = SaidByRows(local.items) \cup SaidByRows(f.items)
      BY <1>2, RowsSay
    <2>2. QED
      BY <1>1, <2>1, ContentIs
  <1>5. Content(new)["names"] = Content(local)["names"] \cup Content(f)["names"]
    <2>1. SaidByRows(names.rows) = SaidByRows(local.names) \cup SaidByRows(f.names)
      BY <1>2, RowsSay
    <2>2. QED
      BY <1>1, <2>1, ContentIs
  <1>6. Content(new)["links"] = Content(local)["links"] \cup Content(f)["links"]
    <2>1. DOMAIN items.ids = DOMAIN f.items /\ DOMAIN names.ids = DOMAIN f.names
      BY <1>3 DEF RowsPlaced
    <2>2. SaidByLinks(items.rows, names.rows, LinksAfter(local, f, items.ids, names.ids))
              = SaidByLinks(local.items, local.names, local.links) \cup SaidByLinks(f.items, f.names, f.links)
      BY <1>2, <2>1, LinksSay, Zenon
    <2>3. QED
      BY <1>b, <1>1, <2>2, ContentIs
  <1>7. Content(new)["sources"] = Content(local)["sources"] \cup Content(f)["sources"]
    <2>1. DOMAIN items.ids = DOMAIN f.items /\ DOMAIN items.rows \subseteq RowId
      BY <1>3 DEF RowsPlaced
    <2>2. ~ClassifyConflicts(local, f, items.ids)
      BY <1>a DEF Refused
    <2>3. SaidBySources(items.rows, local.sources \cup NewSources(local, f, items.ids))
              = SaidBySources(local.items, local.sources) \cup SaidBySources(f.items, f.sources)
      BY <1>2, <2>1, <2>2, SourcesSay, Zenon
    <2>4. QED
      BY <1>b, <1>1, <2>3, ContentIs
  <1>8. DOMAIN Content(local) = {"items", "names", "links", "sources"}
    BY ContentIs
  <1>9. QED
    BY <1>4, <1>5, <1>6, <1>7, <1>8

LEMMA MarksAsGiven ==
    ASSUME NEW local, NEW f, f.marks \in Partial(RowId, 1..2), NEW ids, ids = Itself(f.items),
           DOMAIN f.marks \subseteq DOMAIN f.items, local.marks = f.marks \/ DOMAIN local.marks = {}
    PROVE  MergeMarks(local, f, ids) = f.marks
  <1> PICK new, theirs, old : new = MergeMarks(local, f, ids) /\ theirs = f.marks /\ old = local.marks
    OBVIOUS
  <1>1. DOMAIN theirs \subseteq RowId /\ theirs \in [DOMAIN theirs -> 1..2]
    BY PartialIs
  <1>2. MarkRows(f, ids) = DOMAIN theirs /\ \A i \in DOMAIN theirs : ids[i] = i
    BY DEF MarkRows, Itself
  <1> DEFINE Given(x) == {i \in MarkRows(f, ids) : ids[i] = x}
             Old(x) == IF x \in DOMAIN old THEN old[x] ELSE 0
  <1>3. /\ DOMAIN new = DOMAIN old \cup {ids[i] : i \in MarkRows(f, ids)}
        /\ new = [x \in DOMAIN new |-> new[x]]
        /\ \A x \in DOMAIN new :
               new[x] = IF Given(x) = {} THEN Old(x)
                        ELSE IF form = "tags" THEN theirs[Max(Given(x))]
                             ELSE Max({Old(x), theirs[Min(Given(x))]})
    BY DEF MergeMarks
  <1>4. DOMAIN new = DOMAIN theirs
    BY <1>2, <1>3
  <1>5. ASSUME NEW x \in DOMAIN theirs PROVE new[x] = theirs[x]
    <2>1. Given(x) = {x} /\ x \in Nat
      BY <1>1, <1>2, BackupAssumption DEF RowId
    <2>2. Max({x}) = x /\ Min({x}) = x
      BY <2>1 DEF Max, Min
    <2>3. PICK a, b : a = Old(x) /\ b = theirs[x]
      OBVIOUS
    <2>4. (a = b \/ a = 0) /\ b \in 1..2
      BY <1>1, <2>3
    <2>5. Max({a, b}) = b
      BY <2>4 DEF Max
    <2>6. Given(x) # {} /\ Max(Given(x)) = x /\ Min(Given(x)) = x
      BY <2>1, <2>2
    <2>7. new[x] = IF form = "tags" THEN theirs[x] ELSE Max({Old(x), theirs[x]})
      <3> HIDE DEF Given, Old
      <3>1. new[x] = IF Given(x) = {} THEN Old(x)
                     ELSE IF form = "tags" THEN theirs[Max(Given(x))]
                          ELSE Max({Old(x), theirs[Min(Given(x))]})
        BY <1>3, <1>4
      <3>2. QED
        BY <2>6, <3>1
    <2> HIDE DEF Given, Old
    <2>8. QED
      BY <2>3, <2>5, <2>7
  <1>6. QED
    BY <1>1, <1>3, <1>4, <1>5

LEMMA LinksAsGiven ==
    ASSUME NEW f \in Backup, Sound(f), NEW ids, ids = Itself(f.items), NEW rowIds, rowIds = Itself(f.names)
    PROVE  {Landed(l, ids, rowIds) : l \in LinkTargets(f, ids, rowIds)} = f.links
  <1>1. LinkTargets(f, ids, rowIds) = f.links
    BY DEF LinkTargets, Sound, Itself
  <1>2. \A l \in f.links : Landed(l, ids, rowIds) = l
    BY DEF Landed, Sound, Itself, Backup, Link
  <1>3. QED
    BY <1>1, <1>2

LEMMA BackupIs ==
    ASSUME NEW f \in Backup
    PROVE  f = [items |-> f.items, names |-> f.names, links |-> f.links, marks |-> f.marks, sources |-> f.sources]
  BY DEF Backup

\* A library's own backup.
LEMMA MergedItself ==
    ASSUME NEW f \in Backup, Sound(f)
    PROVE  Merged(f, f) = f
  <1>a. PICK items, names : items = MergeItems(f.items, f.items) /\ names = MergeNames(f.names, f.names)
    OBVIOUS
  <1>0. f.items \in Partial(RowId, Word) /\ f.names \in Partial(RowId, Word) /\ f.marks \in Partial(RowId, 1..2)
    BY DEF Backup
  <1>1. items.rows = f.items /\ items.ids = Itself(f.items)
    <2>1. PICK byId : byId /\ items = MergeRows(f.items, f.items, byId)
      BY <1>a, Zenon DEF MergeItems
    <2>2. QED
      BY <1>0, <2>1, MergeOfItself
  <1>2. names.rows = f.names /\ names.ids = Itself(f.names)
    <2>1. PICK byId : names = MergeRows(f.names, f.names, byId)
      BY <1>a, Zenon DEF MergeNames
    <2>2. QED
      BY <1>0, <2>1, MergeOfItself DEF Sound
  <1>p. PICK links, marks, sources :
          /\ links = LinksAfter(f, f, items.ids, names.ids)
          /\ marks = MergeMarks(f, f, items.ids)
          /\ sources = f.sources \cup NewSources(f, f, items.ids)
    OBVIOUS
  <1>3. links = f.links
    BY <1>p, <1>1, <1>2, LinksAsGiven DEF LinksAfter
  <1>4. marks = f.marks
    BY <1>p, <1>0, <1>1, MarksAsGiven DEF Sound
  <1>5. sources = f.sources
    BY <1>p DEF NewSources, Candidates
  <1>6. Merged(f, f) = [items |-> items.rows, names |-> names.rows, links |-> links, marks |-> marks, sources |-> sources]
    BY <1>a, <1>p, MergedIs
  <1>7. QED
    BY <1>1, <1>2, <1>3, <1>4, <1>5, <1>6, BackupIs

\* A backup restored into an empty library.
LEMMA MergedIntoNothing ==
    ASSUME NEW f \in Backup, Sound(f), IsInjective(f.items)
    PROVE  Merged(NoFile, f) = f
  <1>a. PICK items, names : items = MergeItems(<<>>, f.items) /\ names = MergeNames(<<>>, f.names)
    OBVIOUS
  <1>b. PICK local : local = NoFile
    OBVIOUS
  <1>0. f.items \in Partial(RowId, Word) /\ f.names \in Partial(RowId, Word) /\ f.marks \in Partial(RowId, 1..2)
    BY DEF Backup
  <1>c. local.items = <<>> /\ local.names = <<>> /\ local.links = {} /\ local.marks = <<>> /\ local.sources = {}
    BY <1>b DEF NoFile
  <1>1. items.rows = f.items /\ items.ids = Itself(f.items)
    <2>1. PICK byId : items = MergeRows(<<>>, f.items, byId)
      BY <1>a, Zenon DEF MergeItems
    <2>2. QED
      BY <1>0, <2>1, MergeIntoNothing
  <1>2. names.rows = f.names /\ names.ids = Itself(f.names)
    <2>1. PICK byId : names = MergeRows(<<>>, f.names, byId)
      BY <1>a, Zenon DEF MergeNames
    <2>2. QED
      BY <1>0, <2>1, MergeIntoNothing DEF Sound
  <1>p. PICK links, marks, sources :
          /\ links = LinksAfter(local, f, items.ids, names.ids)
          /\ marks = MergeMarks(local, f, items.ids)
          /\ sources = local.sources \cup NewSources(local, f, items.ids)
    OBVIOUS
  <1>3. links = f.links
    BY <1>p, <1>c, <1>1, <1>2, LinksAsGiven DEF LinksAfter
  <1>4. marks = f.marks
    <2>1. DOMAIN local.marks = {}
      BY <1>c
    <2>2. QED
      BY <1>p, <1>0, <1>1, <2>1, MarksAsGiven DEF Sound
  <1>5. sources = f.sources
    <2>1. \A s \in f.sources : Candidates(local, s) = {}
      BY <1>c DEF Candidates
    <2>2. \A s \in f.sources : [s EXCEPT !.item = items.ids[s.item]] = s
      BY <1>1 DEF Sound, Itself, Backup, Source
    <2>3. NewSources(local, f, items.ids) = f.sources
      BY <2>1, <2>2 DEF NewSources
    <2>4. QED
      BY <1>p, <1>c, <2>3
  <1>6. Merged(local, f) = [items |-> items.rows, names |-> names.rows, links |-> links, marks |-> marks, sources |-> sources]
    <2>1. items = MergeItems(local.items, f.items) /\ names = MergeNames(local.names, f.names)
      BY <1>a, <1>c
    <2>2. QED
      BY <1>p, <2>1, MergedIs
  <1>7. QED
    BY <1>b, <1>1, <1>2, <1>3, <1>4, <1>5, <1>6, BackupIs

\* A mark of the merge is the library's own, or it comes from a row that went there.
LEMMA MarkIs ==
    ASSUME NEW local \in Backup, NEW f \in Backup, NEW ids, NEW new, new = MergeMarks(local, f, ids),
           NEW x \in DOMAIN new
    PROVE  \/ x \in DOMAIN local.marks /\ new[x] = local.marks[x] /\ \A i \in MarkRows(f, ids) : ids[i] # x
           \/ \E j \in MarkRows(f, ids) :
                 /\ ids[j] = x
                 /\ \/ new[x] = f.marks[j] /\ (x \in DOMAIN local.marks /\ form # "tags" => new[x] >= local.marks[x])
                    \/ form # "tags" /\ x \in DOMAIN local.marks /\ new[x] = local.marks[x] /\ new[x] > f.marks[j]
  <1> PICK old, theirs : old = local.marks /\ theirs = f.marks
    OBVIOUS
  <1>1. /\ DOMAIN old \subseteq RowId /\ old \in [DOMAIN old -> 1..2]
        /\ DOMAIN theirs \subseteq RowId /\ theirs \in [DOMAIN theirs -> 1..2]
    BY PartialIs DEF Backup
  <1> DEFINE Given == {i \in MarkRows(f, ids) : ids[i] = x}
             Old == IF x \in DOMAIN old THEN old[x] ELSE 0
  <1>2. /\ x \in DOMAIN old \cup {ids[i] : i \in MarkRows(f, ids)}
        /\ new[x] = IF Given = {} THEN Old
                    ELSE IF form = "tags" THEN theirs[Max(Given)] ELSE Max({Old, theirs[Min(Given)]})
    BY DEF MergeMarks
  <1>3. CASE Given = {}
    BY <1>2, <1>3
  <1>4. CASE Given # {}
    <2>1. Given \in SUBSET RowId /\ Given \subseteq DOMAIN theirs
      BY <1>1 DEF MarkRows
    <2>2. Max(Given) \in Given /\ Min(Given) \in Given
      BY <1>4, <2>1, LargestIsOne, SmallestIsOne
    <2>3. CASE form = "tags"
      BY <1>2, <1>4, <2>2, <2>3
    <2>4. CASE form # "tags"
      <3> PICK j, a, b : j = Min(Given) /\ a = Old /\ b = theirs[j]
        OBVIOUS
      <3>1. a \in 0..2 /\ b \in 1..2 /\ (x \in DOMAIN old => a = old[x]) /\ (x \notin DOMAIN old => a = 0)
        BY <1>1, <2>1, <2>2
      <3>2. new[x] = Max({a, b}) /\ j \in MarkRows(f, ids) /\ ids[j] = x
        BY <1>2, <1>4, <2>2, <2>4
      <3>3. \/ Max({a, b}) = b /\ b >= a
            \/ Max({a, b}) = a /\ a > b
        BY <3>1 DEF Max
      <3> HIDE DEF Given, Old
      <3>4. QED
        BY <2>4, <3>1, <3>2, <3>3
    <2>5. QED
      BY <2>3, <2>4
  <1>5. QED
    BY <1>3, <1>4

\* Marks join as their rows do.
LEMMA MarksJoined ==
    ASSUME NEW local \in Backup, NEW f \in Backup, Sound(local), ReportClean(f),
           NEW items, RowsAgree(local.items, f.items, items), DOMAIN items.ids = DOMAIN f.items,
           NEW new, new.items = items.rows, new.marks = MergeMarks(local, f, items.ids)
    PROVE  MarksJoin(local, f, new)
  <1> PICK marks, ids, rows, theirs, old :
          marks = new.marks /\ ids = items.ids /\ rows = new.items /\ theirs = f.marks /\ old = local.marks
    OBVIOUS
  <1> DEFINE Of(w) == {theirs[i] : i \in {j \in DOMAIN theirs : f.items[j] = w}}
             Took(x) == marks[x] \in Of(rows[x])
  <1>1. DOMAIN marks = DOMAIN old \cup {ids[i] : i \in MarkRows(f, ids)} /\ MarkRows(f, ids) = DOMAIN theirs
    BY DEF MergeMarks, MarkRows, ReportClean
  <1>2. \A j \in DOMAIN theirs : theirs[j] \in Of(rows[ids[j]]) /\ rows[ids[j]] = f.items[j]
    BY DEF RowsAgree, ReportClean
  <1>3. ASSUME NEW x \in DOMAIN marks
        PROVE  \/ x \in DOMAIN old /\ marks[x] = old[x] /\ \A i \in DOMAIN theirs : ids[i] # x
               \/ \E j \in DOMAIN theirs :
                     /\ ids[j] = x
                     /\ \/ marks[x] = theirs[j] /\ (x \in DOMAIN old /\ form # "tags" => marks[x] >= old[x])
                        \/ form # "tags" /\ x \in DOMAIN old /\ marks[x] = old[x] /\ marks[x] > theirs[j]
    BY <1>1, MarkIs
  <1>t. old \in [DOMAIN old -> 1..2] /\ theirs \in [DOMAIN theirs -> 1..2]
    BY PartialIs DEF Backup
  <1> HIDE DEF Of
  <1>4. ASSUME NEW x \in DOMAIN old
        PROVE  marks[x] = old[x] \/ (Took(x) /\ (form # "tags" => marks[x] > old[x]))
    <2>1. x \in DOMAIN marks
      BY <1>1
    <2>2. CASE marks[x] = old[x]
      BY <2>2
    <2>3. CASE marks[x] # old[x]
      <3>1. PICK j \in DOMAIN theirs : ids[j] = x /\ marks[x] = theirs[j] /\ (form # "tags" => marks[x] >= old[x])
        BY <1>3, <2>1, <2>3
      <3>2. Took(x)
        BY <1>2, <3>1
      <3>3. form # "tags" => marks[x] > old[x]
        BY <1>t, <2>3, <3>1
      <3>4. QED
        BY <3>2, <3>3
    <2>4. QED
      BY <2>2, <2>3
  <1>5. ASSUME NEW i \in DOMAIN theirs
        PROVE  \E x \in DOMAIN marks : /\ rows[x] = f.items[i]
                                       /\ Took(x) \/ (form # "tags" /\ \E m \in Of(rows[x]) : marks[x] > m)
    <2> PICK x : x = ids[i]
      OBVIOUS
    <2>1. x \in DOMAIN marks /\ rows[x] = f.items[i]
      BY <1>1, <1>2
    <2>2. PICK j \in DOMAIN theirs : /\ ids[j] = x
                                     /\ marks[x] = theirs[j] \/ (form # "tags" /\ marks[x] > theirs[j])
      BY <1>3, <2>1
    <2>3. theirs[j] \in Of(rows[x])
      BY <1>2, <2>2
    <2>4. QED
      BY <2>1, <2>2, <2>3
  <1>6. QED
    <2> USE DEF Of
    <2>1. QED
      BY <1>4, <1>5 DEF MarksJoin

\* Whatever the file, nothing is cleared.
LEMMA MergeClearsNothing ==
    ASSUME NEW local \in Backup, NEW f \in Backup, NEW new, new = Merged(local, f)
    PROVE  NothingCleared(local, f, new)
  <1>a. PICK items, names : /\ items = MergeItems(local.items, f.items)
                            /\ names = MergeNames(local.names, f.names)
    OBVIOUS
  <1>1. /\ new.items = items.rows /\ new.names = names.rows /\ new.marks = MergeMarks(local, f, items.ids)
        /\ local.links \subseteq new.links /\ local.sources \subseteq new.sources
    BY <1>a, MergedIs DEF LinksAfter
  <1>2. RowsPlaced(local, f, items, names)
    BY <1>a, MergedPlaces, Zenon
  <1>3. \A i \in DOMAIN local.items :
            /\ i \in DOMAIN new.items
            /\ new.items[i] = local.items[i] \/ (i \in DOMAIN f.items /\ new.items[i] = f.items[i])
    BY <1>1, <1>2 DEF RowsPlaced
  <1>4. \A i \in DOMAIN local.names :
            /\ i \in DOMAIN new.names
            /\ new.names[i] = local.names[i] \/ (i \in DOMAIN f.names /\ new.names[i] = f.names[i])
    BY <1>1, <1>2 DEF RowsPlaced
  <1>5. ASSUME NEW x \in DOMAIN local.marks
        PROVE  x \in DOMAIN new.marks /\ (form # "tags" => new.marks[x] >= local.marks[x])
    <2>1. PICK marks : marks = MergeMarks(local, f, items.ids)
      OBVIOUS
    <2>2. x \in DOMAIN marks
      BY <2>1 DEF MergeMarks
    <2>3. local.marks[x] \in 1..2
      BY PartialIs DEF Backup
    <2>4. form # "tags" => marks[x] >= local.marks[x]
      BY <2>1, <2>2, <2>3, MarkIs
    <2>5. QED
      BY <1>1, <2>1, <2>2, <2>4
  <1>6. QED
    BY <1>1, <1>3, <1>4, <1>5 DEF NothingCleared

----------------------------------------------------------------------------
(* The same file once more                                                   *)

LEMMA MarksAgain ==
    ASSUME NEW local \in Backup, NEW f \in Backup, NEW ids, NEW after,
           after.marks = MergeMarks(local, f, ids)
    PROVE  MergeMarks(after, f, ids) = after.marks
  <1> PICK first, again, theirs : /\ first = after.marks /\ again = MergeMarks(after, f, ids)
                                  /\ theirs = f.marks
    OBVIOUS
  <1> DEFINE Given(x) == {i \in MarkRows(f, ids) : ids[i] = x}
             Old(x) == IF x \in DOMAIN local.marks THEN local.marks[x] ELSE 0
             Then(x) == IF x \in DOMAIN first THEN first[x] ELSE 0
  <1>1. /\ DOMAIN first = DOMAIN local.marks \cup {ids[i] : i \in MarkRows(f, ids)}
        /\ first = [x \in DOMAIN first |-> first[x]]
        /\ \A x \in DOMAIN first :
               first[x] = IF Given(x) = {} THEN Old(x)
                          ELSE IF form = "tags" THEN theirs[Max(Given(x))]
                               ELSE Max({Old(x), theirs[Min(Given(x))]})
    BY DEF MergeMarks
  <1>2. /\ DOMAIN again = DOMAIN first \cup {ids[i] : i \in MarkRows(f, ids)}
        /\ again = [x \in DOMAIN again |-> again[x]]
        /\ \A x \in DOMAIN again :
               again[x] = IF Given(x) = {} THEN Then(x)
                          ELSE IF form = "tags" THEN theirs[Max(Given(x))]
                               ELSE Max({Then(x), theirs[Min(Given(x))]})
    BY DEF MergeMarks
  <1>3. DOMAIN again = DOMAIN first
    BY <1>1, <1>2
  <1>t. /\ local.marks \in [DOMAIN local.marks -> 1..2]
        /\ DOMAIN theirs \subseteq RowId /\ theirs \in [DOMAIN theirs -> 1..2]
    BY PartialIs DEF Backup
  <1>4. ASSUME NEW x \in DOMAIN first PROVE again[x] = first[x]
    <2>1. CASE Given(x) = {} \/ form = "tags"
      BY <1>1, <1>2, <1>3, <2>1
    <2>2. CASE Given(x) # {} /\ form # "tags"
      <3>1. Given(x) \in SUBSET RowId /\ Given(x) \subseteq DOMAIN theirs
        BY <1>t DEF MarkRows
      <3>2. Min(Given(x)) \in DOMAIN theirs
        BY <2>2, <3>1, SmallestIsOne
      <3> PICK a, b, c : a = Old(x) /\ b = theirs[Min(Given(x))] /\ c = first[x]
        OBVIOUS
      <3>3. a \in 0..2 /\ b \in 1..2
        BY <1>t, <3>2
      <3>4. c = Max({a, b}) /\ again[x] = Max({c, b})
        BY <1>1, <1>2, <1>3, <2>2
      <3>5. c \in 0..2 /\ c >= b
        <4>1. Max({a, b}) \in 0..2 /\ Max({a, b}) >= b
          BY <3>3 DEF Max
        <4>2. QED
          BY <3>4, <4>1
      <3>6. Max({c, b}) = c
        BY <3>3, <3>5 DEF Max
      <3> HIDE DEF Given, Old, Then
      <3>7. QED
        BY <3>4, <3>6
    <2>3. QED
      BY <2>1, <2>2
  <1>5. QED
    BY <1>1, <1>2, <1>3, <1>4

LEMMA SourcesAgain ==
    ASSUME NEW local \in Backup, NEW f \in Backup, ReportClean(f), NEW ids, DOMAIN ids = DOMAIN f.items,
           \A i \in DOMAIN ids : ids[i] \in RowId, ~ClassifyConflicts(local, f, ids),
           NEW after, after.sources = local.sources \cup NewSources(local, f, ids)
    PROVE  ~ClassifyConflicts(after, f, ids) /\ NewSources(after, f, ids) = {}
  <1>1. ASSUME NEW s \in f.sources
        PROVE  s \in Source /\ At(s, ids).url = s.url /\ At(s, ids).key = s.key
    BY <1>1, SourceAt DEF Backup, ReportClean
  <1>2. ASSUME NEW s \in f.sources PROVE Candidates(after, s) = {At(s, ids)}
    <2>1. At(s, ids) \in after.sources
      <3>1. CASE Candidates(local, s) = {}
        BY <3>1 DEF NewSources, At
      <3>2. CASE Candidates(local, s) # {}
        <4>1. Reused(local, s, ids)
          BY <3>2 DEF ClassifyConflicts
        <4>2. At(s, ids) \in Candidates(local, s)
          BY <4>1 DEF Reused, At
        <4>3. QED
          BY <4>2 DEF Candidates
      <3>3. QED
        BY <3>1, <3>2
    <2>2. At(s, ids) \in Candidates(after, s)
      BY <1>1, <2>1 DEF Candidates
    <2>3. ASSUME NEW t \in Candidates(after, s) PROVE t = At(s, ids)
      <3>1. t.url = s.url \/ (t.key = s.key /\ s.key # 0)
        BY DEF Candidates
      <3>2. CASE t \in local.sources
        <4>1. t \in Candidates(local, s)
          BY <3>1, <3>2 DEF Candidates
        <4>2. Reused(local, s, ids)
          BY <4>1 DEF ClassifyConflicts
        <4>3. QED
          BY <4>1, <4>2 DEF Reused, At
      <3>3. CASE t \notin local.sources
        <4>1. PICK k \in f.sources : t = At(k, ids)
          BY <3>3 DEF Candidates, NewSources, At
        <4>2. k.url = s.url \/ (k.key = s.key /\ k.key # 0)
          BY <1>1, <3>1, <4>1
        <4>3. k = s
          BY <4>2 DEF ReportClean, SourcePayloadErrors
        <4>4. QED
          BY <4>1, <4>3
      <3>4. QED
        BY <3>2, <3>3
    <2>4. QED
      BY <2>2, <2>3
  <1>3. ~ClassifyConflicts(after, f, ids)
    BY <1>2 DEF ClassifyConflicts, Reused, At, ReportClean
  <1>4. NewSources(after, f, ids) = {}
    BY <1>2 DEF NewSources
  <1>5. QED
    BY <1>3, <1>4

\* Merged rows take the rows of the file once more, all of them or the first.
LEMMA RowsAgain ==
    ASSUME NEW local \in Partial(RowId, Word), NEW rows \in Partial(RowId, Word), NEW byId, Agree(local, rows),
           NEW m, m = MergeRows(local, rows, byId)
    PROVE  /\ MergeRows(m.rows, rows, byId).rows = m.rows /\ MergeRows(m.rows, rows, byId).ids = m.ids
           /\ \A n : MergeRows(m.rows, [i \in {j \in DOMAIN rows : j <= n} |-> rows[i]], byId).rows = m.rows
  <1> PICK old, g : old = m.rows /\ g = m.ids
    OBVIOUS
  <1>1. old \in Partial(RowId, Word) /\ g = [i \in DOMAIN rows |-> g[i]]
    BY MergePlaces
  <1>2. \A i \in DOMAIN rows : Target(old, i, rows[i], byId) = g[i] /\ g[i] \in DOMAIN old /\ old[g[i]] = rows[i]
    BY MergesAgain
  <1>3. DOMAIN rows \subseteq RowId
    BY PartialIs
  <1>4. MergeRows(old, rows, byId).rows = old /\ MergeRows(old, rows, byId).ids = g
    <2>1. Unmoved(MergeRows(old, rows, byId), old, rows, g)
      BY <1>1, <1>2, <1>3, MergeStays
    <2>2. QED
      BY <1>1, <2>1 DEF Unmoved
  <1>5. ASSUME NEW some, DOMAIN some \subseteq DOMAIN rows, \A i \in DOMAIN some : some[i] = rows[i]
        PROVE  MergeRows(old, some, byId).rows = old
    <2>1. \A i \in DOMAIN some :
              Target(old, i, some[i], byId) = g[i] /\ g[i] \in DOMAIN old /\ old[g[i]] = some[i]
      BY <1>2, <1>5
    <2>2. DOMAIN some \subseteq RowId
      BY <1>3, <1>5
    <2>3. Unmoved(MergeRows(old, some, byId), old, some, g)
      BY <1>1, <2>1, <2>2, MergeStays
    <2>4. QED
      BY <2>3 DEF Unmoved
  <1>6. \A n : MergeRows(old, [i \in {j \in DOMAIN rows : j <= n} |-> rows[i]], byId).rows = old
    BY <1>5
  <1>7. QED
    BY <1>4, <1>6

LEMMA MergedAgain ==
    ASSUME NEW local \in Backup, NEW f \in Backup, Sound(local), Compatible(local, f), ReportClean(f),
           ~Refused(local, f), NEW new \in Backup, Sound(new), new = Merged(local, f)
    PROVE  Repeats(f, new)
  <1>a. PICK items, names : /\ items = MergeItems(local.items, f.items)
                            /\ names = MergeNames(local.names, f.names)
    OBVIOUS
  <1>1. /\ new.items = items.rows /\ new.names = names.rows
        /\ new.links = LinksAfter(local, f, items.ids, names.ids)
        /\ new.marks = MergeMarks(local, f, items.ids)
        /\ new.sources = local.sources \cup NewSources(local, f, items.ids)
    BY <1>a, MergedIs
  <1>2. RowsPlaced(local, f, items, names)
    BY <1>a, MergedPlaces, Zenon
  <1>3. /\ local.items \in Partial(RowId, Word) /\ f.items \in Partial(RowId, Word)
        /\ local.names \in Partial(RowId, Word) /\ f.names \in Partial(RowId, Word)
    BY DEF Backup
  <1>b. PICK items2, names2 : /\ items2 = MergeItems(new.items, f.items)
                              /\ names2 = MergeNames(new.names, f.names)
    OBVIOUS
  <1>4. items2.rows = items.rows /\ items2.ids = items.ids
    <2>1. PICK byId : byId /\ items = MergeRows(local.items, f.items, byId)
                      /\ items2 = MergeRows(items.rows, f.items, byId)
      BY <1>a, <1>b, <1>1, Zenon DEF MergeItems
    <2>2. Agree(local.items, f.items)
      BY DEF Compatible, KeepsTitles, Agree
    <2>3. items = MergeRows(local.items, f.items, byId)
      BY <2>1
    <2>4. MergeRows(items.rows, f.items, byId).rows = items.rows /\ MergeRows(items.rows, f.items, byId).ids = items.ids
      BY <1>3, <2>2, <2>3, RowsAgain
    <2>5. QED
      BY <2>1, <2>4
  <1>5. /\ names2.rows = names.rows /\ names2.ids = names.ids
        /\ ~NamesCollide(names.rows, f.names)
    <2>1. PICK byId : byId = (form = "tags")
      OBVIOUS
    <2>2. \A old, rows : MergeNames(old, rows) = MergeRows(old, rows, byId)
      BY <2>1, Zenon DEF MergeNames
    <2>3. names = MergeRows(local.names, f.names, byId) /\ names2 = MergeRows(names.rows, f.names, byId)
      BY <1>a, <1>b, <1>1, <2>2
    <2>4. Agree(local.names, f.names)
      BY DEF Compatible, KeepsNames, Agree
    <2>5. names2.rows = names.rows /\ names2.ids = names.ids
      BY <1>3, <2>3, <2>4, RowsAgain
    <2>a. PICK local_, rows, m : local_ = local.names /\ rows = f.names /\ m = names
      OBVIOUS
    <2>b. /\ local_ \in Partial(RowId, Word) /\ rows \in Partial(RowId, Word) /\ Agree(local_, rows)
          /\ m = MergeRows(local_, rows, byId)
      BY <1>3, <2>3, <2>4, <2>a
    <2>c. \A n : MergeRows(m.rows, [i \in {j \in DOMAIN rows : j <= n} |-> rows[i]], byId).rows = m.rows
      BY <2>b, RowsAgain
    <2>6. \A n : MergeRows(names.rows, [i \in {j \in DOMAIN f.names : j <= n} |-> f.names[i]], byId).rows = names.rows
      BY <2>a, <2>c, Zenon
    <2>7. IsInjective(names.rows)
      BY <1>1 DEF Sound
    <2>8. ~NamesCollide(names.rows, f.names)
      BY <2>2, <2>6, <2>7 DEF NamesCollide
    <2>9. QED
      BY <2>5, <2>8
  <1> PICK ids, rowIds : ids = items.ids /\ rowIds = names.ids
    OBVIOUS
  <1>6. \A l \in LinkTargets(f, ids, rowIds) : Landed(l, ids, rowIds) \in new.links
    BY <1>1 DEF LinksAfter
  <1>7. ~ClassifyConflicts(new, f, ids) /\ NewSources(new, f, ids) = {}
    <2>1. DOMAIN ids = DOMAIN f.items /\ \A i \in DOMAIN ids : ids[i] \in RowId
      BY <1>2 DEF RowsPlaced
    <2>2. ~ClassifyConflicts(local, f, ids)
      BY <1>a DEF Refused
    <2>3. QED
      BY <1>1, <2>1, <2>2, SourcesAgain
  <1>8. MergeMarks(new, f, ids) = new.marks /\ \A i \in MarkRows(f, ids) : ids[i] \in DOMAIN new.marks
    <2>1. MergeMarks(new, f, ids) = new.marks
      BY <1>1, MarksAgain
    <2>2. \A i \in MarkRows(f, ids) : ids[i] \in DOMAIN new.marks
      BY <1>1 DEF MergeMarks
    <2>3. QED
      BY <2>1, <2>2
  <1>9. ~Refused(new, f)
    BY <1>b, <1>4, <1>7 DEF Refused
  <1>10. ~Collides(new, f)
    <2>1. ~LinksCollide(new, f, ids, rowIds)
      BY <1>6 DEF LinksCollide
    <2>2. ~MarksCollide(new, f, ids)
      BY <1>8 DEF MarksCollide
    <2>3. QED
      BY <1>b, <1>1, <1>4, <1>5, <2>1, <2>2 DEF Collides
  <1>11. Merged(new, f) = new
    <2>1. LinksAfter(new, f, ids, rowIds) = new.links
      BY <1>6 DEF LinksAfter
    <2>2. Merged(new, f) =
              [items |-> new.items, names |-> new.names, links |-> LinksAfter(new, f, ids, rowIds),
               marks |-> MergeMarks(new, f, ids), sources |-> new.sources \cup NewSources(new, f, ids)]
      BY <1>b, <1>1, <1>4, <1>5, MergedIs
    <2>3. QED
      BY <1>7, <1>8, <2>1, <2>2, BackupIs
  <1>12. QED
    BY <1>9, <1>10, <1>11 DEF Repeats

----------------------------------------------------------------------------
(* The preview                                                               *)

\* An item of the backup goes where the preview says, or it is new and the preview
\* says 0.
LEMMA PreviewOfItems ==
    ASSUME NEW local \in Backup, NEW f \in Backup, KeepsTitles(local, f),
           NEW ids, ids = MergeItems(local.items, f.items).ids, NEW i \in DOMAIN f.items
    PROVE  LET preview == PreviewIds(local, f)
           IN  preview[i] = ids[i] \/ {preview[i], ids[i]} \cap DOMAIN local.items = {}
  <1> PICK m, all, rows, theirs, preview : /\ m = MergeItems(local.items, f.items) /\ all = m.rows
                                           /\ rows = local.items /\ theirs = f.items
                                           /\ preview = PreviewIds(local, f)
    OBVIOUS
  <1>0. rows \in Partial(RowId, Word) /\ theirs \in Partial(RowId, Word) /\ DOMAIN rows \subseteq RowId
    BY PartialIs DEF Backup
  <1>1. PICK byId : byId /\ m = MergeRows(rows, theirs, byId)
    BY Zenon DEF MergeItems
  <1>2. AgreedRows(rows, theirs, DOMAIN theirs, all, ids, byId)
    <2>1. Agree(rows, theirs)
      BY DEF KeepsTitles, Agree
    <2>2. QED
      BY <1>0, <1>1, <2>1, MergeAgrees
  <1>3. DOMAIN rows \subseteq DOMAIN all /\ DOMAIN all \subseteq RowId /\ ids[i] \in DOMAIN all
    <2>1. m = MergeRows(rows, theirs, byId)
      BY <1>1
    <2>2. /\ m.rows \in Partial(RowId, Word) /\ DOMAIN rows \subseteq DOMAIN m.rows
          /\ m.ids = [k \in DOMAIN theirs |-> m.ids[k]]
          /\ \A k \in DOMAIN theirs : m.ids[k] \in DOMAIN m.rows
      BY <1>0, <2>1, MergePlaces
    <2>3. DOMAIN m.rows \subseteq RowId
      BY <2>2, PartialIs
    <2>4. QED
      BY <2>2, <2>3
  <1>4. all[ids[i]] = theirs[i] /\ ids[i] = LandsAt(rows, all, i, theirs[i], byId)
    BY <1>2 DEF AgreedRows
  <1>5. CASE i \in DOMAIN rows
    <2>1. preview[i] = i
      BY <1>5 DEF PreviewIds
    <2>2. ids[i] = i
      BY <1>1, <1>4, <1>5 DEF LandsAt
    <2>3. QED
      BY <2>1, <2>2
  <1>6. CASE i \notin DOMAIN rows /\ Has(rows, theirs[i])
    <2>1. preview[i] = FirstWith(rows, theirs[i])
      BY <1>6 DEF PreviewIds
    <2>2. \A j : (j \in DOMAIN rows /\ rows[j] = theirs[i]) <=> (j \in DOMAIN all /\ all[j] = theirs[i])
      BY <1>2, <1>3, <1>6 DEF AgreedRows
    <2>3. FirstWith(rows, theirs[i]) = FirstWith(all, theirs[i])
      BY <1>0, <1>3, <1>6, <2>2, SameFirst
    <2>4. ids[i] = FirstWith(all, theirs[i])
      BY <1>4, <1>6 DEF LandsAt
    <2>5. QED
      BY <2>1, <2>3, <2>4
  <1>7. CASE i \notin DOMAIN rows /\ ~Has(rows, theirs[i])
    <2>1. preview[i] = 0 /\ 0 \notin DOMAIN rows
      BY <1>0, <1>7, BackupAssumption DEF PreviewIds, RowId
    <2>2. ids[i] \notin DOMAIN rows
      BY <1>2, <1>4, <1>7 DEF AgreedRows, Has
    <2>3. QED
      BY <2>1, <2>2
  <1>8. QED
    BY <1>5, <1>6, <1>7

LEMMA PreviewForetells ==
    ASSUME NEW local \in Backup, NEW f \in Backup, Sound(local), KeepsTitles(local, f), ~SourcePayloadErrors(f)
    PROVE  Refused(local, f) <=> ~CanRestore(local, f)
  <1> PICK ids, preview : ids = MergeItems(local.items, f.items).ids /\ preview = PreviewIds(local, f)
    OBVIOUS
  <1>1. DOMAIN ids = DOMAIN f.items
    <2>1. PICK names : names = MergeNames(local.names, f.names)
      OBVIOUS
    <2>2. PICK items : items = MergeItems(local.items, f.items)
      OBVIOUS
    <2>3. RowsPlaced(local, f, items, names)
      BY <2>1, <2>2, MergedPlaces, Zenon
    <2>4. QED
      BY <2>2, <2>3 DEF RowsPlaced
  <1>2. DOMAIN preview = DOMAIN f.items
    BY DEF PreviewIds
  <1>3. ASSUME NEW s \in f.sources, s.item \in DOMAIN f.items
        PROVE  Reused(local, s, ids) <=> Reused(local, s, preview)
    <2>1. preview[s.item] = ids[s.item] \/ {preview[s.item], ids[s.item]} \cap DOMAIN local.items = {}
      BY <1>3, PreviewOfItems
    <2>2. CASE preview[s.item] = ids[s.item]
      BY <2>2 DEF Reused
    <2>3. CASE {preview[s.item], ids[s.item]} \cap DOMAIN local.items = {}
      <3>1. \A t \in Candidates(local, s) : t.item \in DOMAIN local.items
        BY DEF Candidates, Sound
      <3>2. s \in Source
        BY DEF Backup
      <3>3. [s EXCEPT !.item = ids[s.item]].item = ids[s.item]
            /\ [s EXCEPT !.item = preview[s.item]].item = preview[s.item]
        BY <3>2 DEF Source
      <3>4. QED
        BY <2>3, <3>1, <3>3 DEF Reused
    <2>4. QED
      BY <2>1, <2>2, <2>3
  <1>4. ClassifyConflicts(local, f, ids) <=> ClassifyConflicts(local, f, preview)
    BY <1>1, <1>2, <1>3 DEF ClassifyConflicts
  <1>5. QED
    BY <1>4 DEF Refused, CanRestore

\* A restore becomes durable in one step only.
LEMMA EffectIs ==
    ASSUME BackupInv, [BackupNext]_backupVars, effect', ~effect
    PROVE  /\ lib' = Merged(lib, file)
           /\ ~SourcePayloadErrors(file) /\ ~Refused(lib, file) /\ ~Collides(lib, file)
  <1>1. CommitRestore /\ restoring.pc = "merged" /\ lib' = restoring.after[1]
    BY Zenon DEF BackupNext, backupVars, StartExport, ReadTable, StartRestore, MergeFile, CommitRestore,
                 InspectRestore, EditLibrary
  <1>2. QED
    BY <1>1, AfterIs DEF BackupInv

\* Whatever its file, a restore clears nothing, and the library's own backup changes
\* nothing and is given back in an empty one.  A file that renames no row joins the
\* library without loss or addition, states being the file's, and the second time
\* changes nothing.  Where it renames no item, what the restore refuses for its
\* sources is what the preview refused.
THEOREM RestoresAreUnions == BackupSpec => RestoreIsUnion
  <1> DEFINE Clears == effect' /\ ~effect => NothingCleared(lib, file, lib') /\ RoundTrip(lib, file, lib')
             Joins == effect' /\ ~effect /\ Compatible(lib, file) /\ ReportClean(file) =>
                          ContentJoins(lib, file, lib') /\ MarksJoin(lib, file, lib') /\ Repeats(file, lib')
  <1>1. BackupInv /\ [BackupNext]_backupVars => [Clears /\ Joins /\ PreviewAgrees]_backupVars
    <2> SUFFICES ASSUME BackupInv, [BackupNext]_backupVars
                 PROVE  Clears /\ Joins /\ PreviewAgrees
      BY Zenon
    <2>0. lib \in Backup /\ file \in Backup /\ Sound(lib)
      BY DEF BackupInv
    <2>1. Clears
      <3> SUFFICES ASSUME effect', ~effect
                   PROVE  NothingCleared(lib, file, lib') /\ RoundTrip(lib, file, lib')
        BY Zenon
      <3> PICK old, f, new : old = lib /\ f = file /\ new = lib'
        OBVIOUS
      <3>1. new = Merged(old, f)
        BY EffectIs
      <3>2. NothingCleared(old, f, new)
        BY <2>0, <3>1, MergeClearsNothing
      <3>3. f = old => Merged(old, f) = old
        BY <2>0, MergedItself
      <3>4. old = NoFile /\ Sound(f) /\ IsInjective(f.items) => Merged(old, f) = f
        BY <2>0, MergedIntoNothing
      <3>5. RoundTrip(old, f, new)
        BY <3>1, <3>3, <3>4 DEF RoundTrip
      <3>6. QED
        BY <3>2, <3>5
    <2>2. Joins
      <3> SUFFICES ASSUME effect', ~effect, Compatible(lib, file), ReportClean(file)
                   PROVE  ContentJoins(lib, file, lib') /\ MarksJoin(lib, file, lib') /\ Repeats(file, lib')
        BY Zenon
      <3>1. lib' = Merged(lib, file) /\ ~SourcePayloadErrors(file) /\ ~Refused(lib, file) /\ ~Collides(lib, file)
        BY EffectIs
      <3>2. ContentJoins(lib, file, lib')
        BY <2>0, <3>1, ContentsJoin DEF ContentJoins
      <3>3. MarksJoin(lib, file, lib')
        <4> PICK old, f, new : old = lib /\ f = file /\ new = lib'
          OBVIOUS
        <4>1. PICK items, names : items = MergeItems(old.items, f.items) /\ names = MergeNames(old.names, f.names)
          OBVIOUS
        <4>2. new.items = items.rows /\ new.marks = MergeMarks(old, f, items.ids)
          BY <3>1, <4>1, MergedIs
        <4>3. RowsAgree(old.items, f.items, items)
          BY <2>0, <4>1, CompatibleRows, Zenon
        <4>4. DOMAIN items.ids = DOMAIN f.items
          <5>1. RowsPlaced(old, f, items, names)
            BY <2>0, <4>1, MergedPlaces, Zenon
          <5>2. QED
            BY <5>1 DEF RowsPlaced
        <4>5. MarksJoin(old, f, new)
          BY <2>0, <4>2, <4>3, <4>4, MarksJoined
        <4>6. QED
          BY <4>5
      <3>4. Repeats(file, lib')
        <4>1. Merged(lib, file) \in Backup /\ Sound(Merged(lib, file))
          BY <2>0, <3>1, MergedSound
        <4>2. QED
          BY <2>0, <3>1, <4>1, MergedAgain
      <3>5. QED
        BY <3>2, <3>3, <3>4
    <2>3. PreviewAgrees
      <3> SUFFICES ASSUME restoring.pc = "digested", KeepsTitles(lib, file)
                   PROVE  Refused(lib, file) <=> ~CanRestore(lib, file)
        BY Zenon DEF PreviewAgrees
      <3>1. ~SourcePayloadErrors(file)
        BY DEF BackupInv
      <3>2. QED
        BY <2>0, <3>1, PreviewForetells
    <2>4. QED
      BY <2>1, <2>2, <2>3
  <1>2. QED
    BY BackupsInvariant, <1>1, PTL DEF BackupSpec, RestoreIsUnion

----------------------------------------------------------------------------
(* Catalogue edits.  A plan is made of what a request has seen, and rows it   *)
(* has not seen may come and go before it is written; a merge's plan says for *)
(* every row it takes from the duplicate which one the primary gets instead   *)
(* (MergeOK), and nothing of what it writes is undone by what it drops.       *)

Ids == 1..MaxItem

RowsOK ==
    /\ DOMAIN item = Ids
    /\ \A i \in Ids : item[i] # NoRow => "born" \in DOMAIN item[i] /\ item[i].born # 0

RelationsOK == tag \subseteq TagName /\ tagged \subseteq Live \X tag

CountsOK == births \in 2..MaxBirths /\ editorRuns \in 0..MaxEditorRuns

PlanOK(plan) == plan.ins \subseteq Ids \X TagName /\ plan.newTags \subseteq TagName

\* The duplicate d goes, and its rows are the primary p's or those it left out.
ItemsMerged(plan, p, d) ==
    /\ plan.dropItems = {d} /\ plan.dropTags = {} /\ plan.into = p
    /\ \A row \in plan.del : row[1] = d /\ <<p, row[2]>> \in plan.ins \cup plan.skip
TagsMerged(plan, p, d) ==
    /\ plan.dropItems = {} /\ plan.dropTags = {d} /\ plan.into = p
    /\ \A row \in plan.del : row[2] = d /\ <<row[1], p>> \in plan.ins \cup plan.skip
MergeOK(plan) ==
    \/ \E p, d \in Ids : p # d /\ ItemsMerged(plan, p, d)
    \/ \E p, d \in TagName : p # d /\ TagsMerged(plan, p, d)

UpdateFields == {"at", "kind", "item", "names", "keep", "plan"}

EditOK(x) ==
    /\ x.at \in {"none", "loaded"}
    /\ x.at = "loaded" =>
          /\ PlanOK(x.plan)
          /\ x.kind = "merge" => MergeOK(x.plan)
          /\ x.kind = "update" =>
                x.item \in Ids /\ x.names \subseteq TagName /\ UpdateFields \subseteq DOMAIN x

EditsOK == DOMAIN edit = Editor /\ \A e \in Editor : EditOK(edit[e])

CatalogueInv == RowsOK /\ RelationsOK /\ CountsOK /\ EditsOK

----------------------------------------------------------------------------
LEMMA LiveRows == RelationsOK => \A row \in tagged : row \in Ids \X TagName /\ row = <<row[1], row[2]>>
  BY DEF RelationsOK, Live, Ids

LEMMA RowsUpTo == RelationsOK => \A i : RowsOf(i) \subseteq tagged /\ \A row \in RowsOf(i) : row[1] = i
  BY DEF RowsOf

LEMMA BulkPlansOK ==
    ASSUME RelationsOK, NEW is \in SUBSET Ids, NEW t \in TagName
    PROVE  PlanOK(BulkAddPlan(is, t)) /\ PlanOK(BulkRemovePlan(is, t))
  BY DEF PlanOK, BulkAddPlan, BulkRemovePlan, Nothing

LEMMA OnePlansOK ==
    ASSUME NEW i \in Ids, NEW t \in TagName
    PROVE  PlanOK(AddOnePlan(i, t)) /\ PlanOK(RemoveOnePlan(i, t))
  BY DEF PlanOK, AddOnePlan, RemoveOnePlan, Nothing

LEMMA DeletePlansOK ==
    /\ \A is : PlanOK(DeleteItemsPlan(is))
    /\ \A t : PlanOK(DeleteTagPlan(t))
  BY DEF PlanOK, DeleteItemsPlan, DeleteTagPlan, Nothing

LEMMA UpdatePlanOK ==
    ASSUME NEW i \in Ids, NEW names \in SUBSET TagName, NEW keep
    PROVE  PlanOK(UpdatePlan(i, names, keep))
  <1> DEFINE plan == UpdatePlan(i, names, keep)
  <1>1. plan.ins = ({i} \X names) \ tagged /\ plan.newTags = names \ (tag \ Unfolded)
    BY DEF UpdatePlan, Nothing
  <1>2. QED
    BY <1>1 DEF PlanOK

LEMMA ItemsPlanOK ==
    ASSUME RelationsOK, NEW p \in Ids, NEW d \in Ids, p # d, NEW useDuplicate
    PROVE  PlanOK(MergeItemsPlan(p, d, useDuplicate)) /\ MergeOK(MergeItemsPlan(p, d, useDuplicate))
  <1> DEFINE plan == MergeItemsPlan(p, d, useDuplicate)
             moved == {<<p, row[2]>> : row \in RowsOf(d)}
  <1>1. /\ plan.ins = moved \ tagged /\ plan.skip = moved \cap tagged
        /\ plan.del = RowsOf(d) /\ plan.dropItems = {d} /\ plan.dropTags = {} /\ plan.newTags = {}
        /\ plan.into = p
    BY DEF MergeItemsPlan, Nothing
  <1> HIDE DEF plan
  <1>2. \A row \in RowsOf(d) : row \in Ids \X TagName /\ row[1] = d
    BY LiveRows, RowsUpTo
  <1>3. moved \subseteq Ids \X TagName
    BY <1>2
  <1>4. \A row \in RowsOf(d) : <<p, row[2]>> \in plan.ins \cup plan.skip
    BY <1>1
  <1>5. PlanOK(plan)
    BY <1>1, <1>3 DEF PlanOK
  <1>6. ItemsMerged(plan, p, d)
    BY <1>1, <1>2, <1>4 DEF ItemsMerged
  <1>7. QED
    BY <1>5, <1>6 DEF MergeOK, plan

LEMMA TagsPlanOK ==
    ASSUME RelationsOK, NEW p \in TagName, NEW d \in TagName, p # d
    PROVE  PlanOK(MergeTagsPlan(p, d)) /\ MergeOK(MergeTagsPlan(p, d))
  <1> DEFINE plan == MergeTagsPlan(p, d)
             moved == {<<row[1], p>> : row \in RowsUnder(d)}
  <1>1. /\ plan.ins = moved \ tagged /\ plan.skip = moved \cap tagged
        /\ plan.del = RowsUnder(d) /\ plan.dropItems = {} /\ plan.dropTags = {d} /\ plan.newTags = {}
        /\ plan.into = p
    BY DEF MergeTagsPlan, Nothing
  <1> HIDE DEF plan
  <1>2. \A row \in RowsUnder(d) : row \in Ids \X TagName /\ row[2] = d
    BY LiveRows DEF RowsUnder
  <1>3. moved \subseteq Ids \X TagName
    BY <1>2
  <1>4. \A row \in RowsUnder(d) : <<row[1], p>> \in plan.ins \cup plan.skip
    BY <1>1
  <1>5. PlanOK(plan)
    BY <1>1, <1>3 DEF PlanOK
  <1>6. TagsMerged(plan, p, d)
    BY <1>1, <1>2, <1>4 DEF TagsMerged
  <1>7. QED
    BY <1>5, <1>6 DEF MergeOK, plan

LEMMA EditStep ==
    ASSUME EditsOK, NEW e \in Editor, NEW x, EditOK(x), edit' = [edit EXCEPT ![e] = x]
    PROVE  EditsOK'
  <1>1. DOMAIN edit' = Editor /\ \A r \in Editor : edit'[r] = IF r = e THEN x ELSE edit[r]
    BY DEF EditsOK
  <1>2. \A r \in Editor : EditOK(edit'[r])
    BY <1>1 DEF EditsOK
  <1>3. QED
    BY <1>1, <1>2 DEF EditsOK, EditOK, PlanOK, MergeOK, ItemsMerged, TagsMerged

LEMMA LoadKeeps ==
    ASSUME CatalogueInv, NEW e \in Editor, NEW kind \in {"bulk", "delete", "merge"}, NEW plan,
           PlanOK(plan), kind = "merge" => MergeOK(plan), Load(e, kind, plan)
    PROVE  CatalogueInv'
  <1>1. EditOK([at |-> "loaded", kind |-> kind, plan |-> plan])
    BY DEF EditOK
  <1>2. EditsOK'
    BY <1>1, EditStep DEF Load, CatalogueInv
  <1>3. editorRuns' \in 0..MaxEditorRuns
    BY CatalogueAssumption DEF Load, CatalogueInv, CountsOK
  <1>4. QED
    BY <1>2, <1>3 DEF Load, CatalogueInv, RowsOK, RelationsOK, CountsOK, Live

LEMMA InitCatalogueInv == CatalogueInit => CatalogueInv
  <1> SUFFICES ASSUME CatalogueInit PROVE CatalogueInv
    OBVIOUS
  <1>1. RowsOK
    <2>1. item \in [Ids -> {NoRow, [born |-> 1, text |-> Blank], [born |-> 2, text |-> "own"]}]
      BY DEF CatalogueInit, Ids
    <2>2. \A i \in Ids : item[i] # NoRow =>
              item[i] = [born |-> 1, text |-> Blank] \/ item[i] = [born |-> 2, text |-> "own"]
      BY <2>1
    <2>3. QED
      BY <2>1, <2>2 DEF RowsOK
  <1>2. RelationsOK
    BY DEF CatalogueInit, RelationsOK
  <1>3. CountsOK
    BY CatalogueAssumption DEF CatalogueInit, CountsOK
  <1>4. EditsOK
    BY DEF CatalogueInit, EditsOK, EditOK, NoEdit
  <1>5. QED
    BY <1>1, <1>2, <1>3, <1>4 DEF CatalogueInv

LEMMA StartUpdateKeeps ==
    ASSUME CatalogueInv, NEW e \in Editor, NEW i \in Live, NEW names \in SUBSET TagName,
           StartUpdate(e, i, names)
    PROVE  CatalogueInv'
  <1> DEFINE x == [at |-> "loaded", kind |-> "update", item |-> i,
                   names |-> names, keep |-> TRUE, plan |-> UpdatePlan(i, names, TRUE)]
  <1>1. i \in Ids
    BY DEF Live, Ids
  <1>2. PlanOK(UpdatePlan(i, names, TRUE))
    BY <1>1, UpdatePlanOK
  <1>3. EditOK(x)
    BY <1>1, <1>2 DEF EditOK, UpdateFields
  <1>4. edit' = [edit EXCEPT ![e] = x]
    BY DEF StartUpdate
  <1> HIDE DEF x
  <1>5. EditsOK'
    BY <1>3, <1>4, EditStep DEF CatalogueInv
  <1>6. editorRuns' \in 0..MaxEditorRuns
    BY CatalogueAssumption DEF StartUpdate, CatalogueInv, CountsOK
  <1>7. QED
    BY <1>5, <1>6 DEF StartUpdate, CatalogueInv, RowsOK, RelationsOK, CountsOK, Live

LEMMA RetryKeeps ==
    ASSUME CatalogueInv, NEW e \in Editor, RetryNames(e)
    PROVE  CatalogueInv'
  <1>1. PICK plan : plan = UpdatePlan(edit[e].item, edit[e].names, FALSE)
    OBVIOUS
  <1>2. PICK x : x = [edit[e] EXCEPT !.keep = FALSE, !.plan = plan]
    OBVIOUS
  <1>3. /\ edit[e].at = "loaded" /\ edit[e].kind = "update"
        /\ edit[e].item \in Ids /\ edit[e].names \subseteq TagName /\ UpdateFields \subseteq DOMAIN edit[e]
    BY DEF RetryNames, CatalogueInv, EditsOK, EditOK
  <1>4. PlanOK(plan)
    BY <1>1, <1>3, UpdatePlanOK
  <1>5. /\ DOMAIN x = DOMAIN edit[e] /\ x.at = "loaded" /\ x.kind = "update" /\ x.plan = plan
        /\ x.item = edit[e].item /\ x.names = edit[e].names
    BY <1>2, <1>3 DEF UpdateFields
  <1>6. EditOK(x)
    BY <1>3, <1>4, <1>5 DEF EditOK
  <1>7. EditOK(NoEdit)
    BY DEF EditOK, NoEdit
  <1>8. edit' = [edit EXCEPT ![e] = x] \/ edit' = [edit EXCEPT ![e] = NoEdit]
    BY <1>1, <1>2 DEF RetryNames, CatalogueInv, EditsOK
  <1>9. EditsOK'
    BY <1>6, <1>7, <1>8, EditStep DEF CatalogueInv
  <1>10. QED
    BY <1>9 DEF RetryNames, CatalogueInv, RowsOK, RelationsOK, CountsOK, Live

\* What a commit leaves of the items: the dropped ones are gone, the others stay.
LEMMA WriteRows ==
    ASSUME RowsOK, NEW plan, Flushes(plan), Write(plan)
    PROVE  RowsOK' /\ Live' = Live \ plan.dropItems
  <1>1. DOMAIN item' = Ids
    BY DEF Write, Ids
  <1>2. ASSUME NEW i \in Ids
        PROVE  /\ i \in plan.dropItems => item'[i] = NoRow
               /\ i \notin plan.dropItems /\ item[i] = NoRow => item'[i] = NoRow
               /\ i \notin plan.dropItems /\ item[i] # NoRow =>
                      "born" \in DOMAIN item'[i] /\ item'[i].born # 0
    <2>1. item'[i] = IF i \in plan.dropItems THEN NoRow
                     ELSE IF i \in plan.touch THEN [item[i] EXCEPT !.text = plan.text] ELSE item[i]
      BY DEF Write, Ids
    <2>2. item[i] = NoRow => i \notin plan.touch
      BY DEF Flushes, Live
    <2>3. ASSUME item[i] # NoRow
          PROVE  /\ "born" \in DOMAIN [item[i] EXCEPT !.text = plan.text]
                 /\ [item[i] EXCEPT !.text = plan.text].born = item[i].born
      BY <2>3 DEF RowsOK
    <2>4. QED
      BY <2>1, <2>2, <2>3 DEF RowsOK
  <1>3. NoRow.born = 0
    BY DEF NoRow
  <1>4. \A i \in Ids : item'[i] # NoRow <=> (item[i] # NoRow /\ i \notin plan.dropItems)
    BY <1>2, <1>3
  <1>5. QED
    BY <1>1, <1>2, <1>4 DEF RowsOK, Live, Ids

LEMMA WriteRelations ==
    ASSUME RowsOK, RelationsOK, NEW plan, PlanOK(plan), Flushes(plan), Write(plan)
    PROVE  RelationsOK'
  <1>1. tag' \subseteq TagName
    BY DEF Write, RelationsOK, PlanOK
  <1>2. ASSUME NEW row \in tagged'
        PROVE  row \in Live' \X tag'
    <2>1. /\ row \in tagged \cup plan.ins
          /\ row[1] \notin plan.dropItems /\ row[2] \notin plan.dropTags
      BY DEF Write
    <2>2. row[1] \in Live /\ row[2] \in tag \cup plan.newTags /\ row = <<row[1], row[2]>>
      <3>1. CASE row \in tagged
        BY <3>1 DEF RelationsOK
      <3>2. CASE row \in plan.ins
        BY <3>2 DEF Flushes, PlanOK
      <3>3. QED
        BY <2>1, <3>1, <3>2
    <2>3. row[1] \in Live' /\ row[2] \in tag'
      BY <2>1, <2>2, WriteRows DEF Write
    <2>4. QED
      BY <2>2, <2>3
  <1>3. QED
    BY <1>1, <1>2 DEF RelationsOK

LEMMA CommitKeeps ==
    ASSUME CatalogueInv, NEW e \in Editor, Commit(e)
    PROVE  CatalogueInv'
  <1>1. EditsOK'
    <2>1. EditOK(NoEdit)
      BY DEF EditOK, NoEdit
    <2>2. QED
      BY <2>1, EditStep DEF Commit, CatalogueInv
  <1>2. PlanOK(edit[e].plan)
    BY DEF Commit, CatalogueInv, EditsOK, EditOK
  <1>3. RowsOK' /\ RelationsOK'
    <2>1. CASE Flushes(edit[e].plan)
      <3>1. PICK plan : plan = edit[e].plan /\ Flushes(plan) /\ Write(plan) /\ PlanOK(plan)
        BY <1>2, <2>1 DEF Commit
      <3>2. QED
        BY <3>1, WriteRows, WriteRelations DEF CatalogueInv
    <2>2. CASE ~Flushes(edit[e].plan)
      BY <2>2 DEF Commit, CatalogueInv, RowsOK, RelationsOK, Live
    <2>3. QED
      BY <2>1, <2>2
  <1>4. QED
    BY <1>1, <1>3 DEF Commit, CatalogueInv, CountsOK

LEMMA LargestIsThere ==
    ASSUME NEW n \in Nat, NEW S \in SUBSET (0..n), 0 \in S
    PROVE  Max(S) \in S
  <1> DEFINE Bounds == {k \in Nat : \A x \in S : x <= k}
  <1>1. n \in Bounds
    OBVIOUS
  <1>2. PICK k \in Bounds : \A j \in Bounds : <<j, k>> \notin OpToRel(<, Nat)
    BY <1>1, WFMin, NatLessThanWellFounded, Zenon
  <1>3. \A j \in Bounds : ~(j < k)
    BY <1>2, Zenon DEF OpToRel
  <1>4. k \in S
    <2> SUFFICES ASSUME k \notin S PROVE FALSE
      OBVIOUS
    <2>1. k \in Nat /\ k # 0 /\ \A x \in S : x <= k /\ x # k
      OBVIOUS
    <2>2. k - 1 \in Bounds
      BY <2>1
    <2>3. QED
      BY <1>3, <2>1, <2>2
  <1>5. k \in S /\ \A x \in S : k >= x
    BY <1>4
  <1>6. QED
    BY <1>5 DEF Max

LEMMA CreateItemKeeps ==
    ASSUME CatalogueInv, NEW names \in SUBSET TagName, CreateItem(names)
    PROVE  CatalogueInv'
  <1>1. PICK id : id = 1 + Max({0} \cup Live)
    OBVIOUS
  <1>2. id \in Ids
    <2>1. MaxItem \in Nat /\ {0} \cup Live \in SUBSET (0..MaxItem)
      BY CatalogueAssumption DEF Live
    <2>2. Max({0} \cup Live) \in 0..MaxItem
      BY <2>1, LargestIsThere
    <2>3. id <= MaxItem
      BY <1>1 DEF CreateItem
    <2>4. QED
      BY <1>1, <2>1, <2>2, <2>3 DEF Ids
  <1>3. PICK row : row = [born |-> births + 1, text |-> Blank]
    OBVIOUS
  <1>4. births \in Nat /\ births' = births + 1 /\ births' \in 2..MaxBirths
    BY CatalogueAssumption DEF CatalogueInv, CountsOK, CreateItem
  <1>5. "born" \in DOMAIN row /\ row.born # 0 /\ row # NoRow
    BY <1>3, <1>4 DEF NoRow
  <1>6. DOMAIN item' = Ids /\ \A i \in Ids : item'[i] = IF i = id THEN row ELSE item[i]
    BY <1>1, <1>2, <1>3 DEF CatalogueInv, RowsOK, CreateItem
  <1>7. RowsOK' /\ Live' = Live \cup {id}
    BY <1>2, <1>5, <1>6 DEF CatalogueInv, RowsOK, Live, Ids
  <1>8. tag' = tag \cup names /\ tagged' = tagged \cup ({id} \X names)
    BY <1>1 DEF CreateItem
  <1>9. RelationsOK'
    BY <1>7, <1>8 DEF CatalogueInv, RelationsOK
  <1>10. EditsOK'
    BY DEF CreateItem, CatalogueInv, EditsOK, EditOK, PlanOK, MergeOK, ItemsMerged, TagsMerged
  <1>11. QED
    BY <1>4, <1>7, <1>9, <1>10 DEF CreateItem, CatalogueInv, CountsOK

LEMMA NextCatalogueInv == CatalogueInv /\ [CatalogueNext]_catalogueVars => CatalogueInv'
  <1> SUFFICES ASSUME CatalogueInv, [CatalogueNext]_catalogueVars PROVE CatalogueInv'
    OBVIOUS
  <1>1. CASE UNCHANGED catalogueVars
    BY <1>1 DEF catalogueVars, CatalogueInv, RowsOK, RelationsOK, CountsOK, EditsOK, EditOK, Live,
                PlanOK, MergeOK, ItemsMerged, TagsMerged
  <1>2. ASSUME NEW e \in Editor, NEW is \in SUBSET (1..MaxItem), NEW t \in TagName, StartBulk(e, is, t)
        PROVE  CatalogueInv'
    <2>1. PlanOK(BulkAddPlan(is, t)) /\ PlanOK(BulkRemovePlan(is, t))
      BY BulkPlansOK DEF CatalogueInv, Ids
    <2>2. QED
      BY <1>2, <2>1, LoadKeeps DEF StartBulk
  <1>3. ASSUME NEW e \in Editor, NEW i \in 1..MaxItem, NEW t \in TagName,
               RelationOnItemPage(e, i, t) \/ RelationOnCollectionPage(e, i, t)
        PROVE  CatalogueInv'
    <2>1. PlanOK(AddOnePlan(i, t)) /\ PlanOK(RemoveOnePlan(i, t))
      BY OnePlansOK DEF Ids, CatalogueInv
    <2>2. Load(e, "bulk", AddOnePlan(i, t)) \/ Load(e, "bulk", RemoveOnePlan(i, t))
      BY <1>3 DEF RelationOnItemPage, RelationOnCollectionPage
    <2>3. QED
      BY <2>1, <2>2, LoadKeeps
  <1>4. ASSUME NEW e \in Editor, StartDelete(e)
        PROVE  CatalogueInv'
    <2>1. PICK plan : PlanOK(plan) /\ Load(e, "delete", plan)
      BY <1>4, DeletePlansOK DEF StartDelete
    <2>2. QED
      BY <2>1, LoadKeeps
  <1>5. ASSUME NEW e \in Editor, StartMerge(e)
        PROVE  CatalogueInv'
    <2>1. Live \subseteq Ids /\ tag \subseteq TagName
      BY DEF Live, Ids, CatalogueInv, RelationsOK
    <2>2. PICK plan : PlanOK(plan) /\ MergeOK(plan) /\ Load(e, "merge", plan)
      <3>1. CASE \E p, d \in Live, useDuplicate \in BOOLEAN :
                    p # d /\ Load(e, "merge", MergeItemsPlan(p, d, useDuplicate))
        BY <2>1, <3>1, ItemsPlanOK DEF CatalogueInv
      <3>2. CASE \E p, d \in tag : p # d /\ Load(e, "merge", MergeTagsPlan(p, d))
        BY <2>1, <3>2, TagsPlanOK DEF CatalogueInv
      <3>3. QED
        BY <1>5, <3>1, <3>2 DEF StartMerge
    <2>3. QED
      BY <2>2, LoadKeeps
  <1>6. ASSUME NEW name \in TagName, CreateTag(name)
        PROVE  CatalogueInv'
    <2>1. RelationsOK'
      BY <1>6 DEF CreateTag, CatalogueInv, RelationsOK, Live
    <2>2. QED
      BY <1>6, <2>1 DEF CreateTag, CatalogueInv, RowsOK, CountsOK, EditsOK, EditOK,
                        PlanOK, MergeOK, ItemsMerged, TagsMerged
  <1>7. QED
    BY <1>1, <1>2, <1>3, <1>4, <1>5, <1>6, StartUpdateKeeps, RetryKeeps, CommitKeeps, CreateItemKeeps
       DEF CatalogueNext

LEMMA CatalogueInvHolds == CatalogueSpec => []CatalogueInv
  BY InitCatalogueInv, NextCatalogueInv, PTL DEF CatalogueSpec

\* Every relation row has its item and its tag, whoever deletes or merges what
\* while a request holds older rows (delete_item, the bulk pages, item_tags).
THEOREM RelationsHaveBoth == CatalogueSpec => []CatalogueTypeOK
  <1>1. CatalogueInv => CatalogueTypeOK
    BY DEF CatalogueInv, RelationsOK, CountsOK, CatalogueTypeOK
  <1>2. QED
    BY <1>1, CatalogueInvHolds, PTL

----------------------------------------------------------------------------
Kept(plan, i, t) == <<i, t>> \in tagged' \cup (plan.skip \ tagged)

SeenIsKept(plan) ==
    \A row \in plan.del :
        IF plan.dropTags = {} THEN Kept(plan, plan.into, row[2]) ELSE Kept(plan, row[1], plan.into)

LEMMA MergeKeeps ==
    ASSUME NEW plan, MergeOK(plan), Write(plan)
    PROVE  SeenIsKept(plan)
  <1>1. ASSUME NEW p \in Ids, NEW d \in Ids, p # d, ItemsMerged(plan, p, d), NEW row \in plan.del
        PROVE  row[1] = d /\ Kept(plan, p, row[2])
    <2>1. row[1] = d /\ <<p, row[2]>> \in plan.ins \cup plan.skip
      BY <1>1 DEF ItemsMerged
    <2>2. <<p, row[2]>> \notin plan.del
      <3>1. \A other \in plan.del : other[1] = d
        BY <1>1 DEF ItemsMerged
      <3>2. <<p, row[2]>>[1] = p
        OBVIOUS
      <3>3. QED
        BY <1>1, <3>1, <3>2
    <2>3. ASSUME <<p, row[2]>> \in tagged \cup plan.ins
          PROVE  <<p, row[2]>> \in tagged'
      BY <1>1, <2>2, <2>3 DEF Write, ItemsMerged
    <2>4. QED
      BY <2>1, <2>3 DEF Kept
  <1>2. ASSUME NEW p \in TagName, NEW d \in TagName, p # d, TagsMerged(plan, p, d), NEW row \in plan.del
        PROVE  row[2] = d /\ Kept(plan, row[1], p)
    <2>1. row[2] = d /\ <<row[1], p>> \in plan.ins \cup plan.skip
      BY <1>2 DEF TagsMerged
    <2>2. <<row[1], p>> \notin plan.del
      <3>1. \A other \in plan.del : other[2] = d
        BY <1>2 DEF TagsMerged
      <3>2. <<row[1], p>>[2] = p
        OBVIOUS
      <3>3. QED
        BY <1>2, <3>1, <3>2
    <2>3. ASSUME <<row[1], p>> \in tagged \cup plan.ins
          PROVE  <<row[1], p>> \in tagged'
      BY <1>2, <2>2, <2>3 DEF Write, TagsMerged
    <2>4. QED
      BY <2>1, <2>3 DEF Kept
  <1>3. CASE \E p, d \in Ids : p # d /\ ItemsMerged(plan, p, d)
    <2>1. PICK p \in Ids, d \in Ids : p # d /\ ItemsMerged(plan, p, d)
      BY <1>3
    <2>2. plan.dropTags = {} /\ plan.into = p
      BY <2>1 DEF ItemsMerged
    <2>3. QED
      BY <1>1, <2>1, <2>2 DEF SeenIsKept
  <1>4. CASE \E p, d \in TagName : p # d /\ TagsMerged(plan, p, d)
    <2>1. PICK p \in TagName, d \in TagName : p # d /\ TagsMerged(plan, p, d)
      BY <1>4
    <2>2. plan.dropTags # {} /\ plan.into = p
      BY <2>1 DEF TagsMerged
    <2>3. QED
      BY <1>2, <2>1, <2>2 DEF SeenIsKept
  <1>5. QED
    BY <1>3, <1>4 DEF MergeOK

LEMMA OnlyCommits ==
    ASSUME CatalogueInv, CatalogueNext, NEW e \in Editor, EditCommitted(e), edit[e].kind = "merge"
    PROVE  Commit(e)
  <1>1. DOMAIN edit = Editor /\ edit[e].at = "loaded" /\ edit'[e].at = "none"
    BY DEF CatalogueInv, EditsOK, EditCommitted, NoEdit
  <1>2. ASSUME NEW r \in Editor, NEW x, edit' = [edit EXCEPT ![r] = x], x.at = "loaded" \/ r # e
        PROVE  FALSE
    <2>1. edit'[e] = IF e = r THEN x ELSE edit[e]
      BY <1>1, <1>2
    <2>2. edit'[e].at = "loaded"
      BY <1>1, <1>2, <2>1
    <2>3. QED
      BY <1>1, <2>2
  <1>3. ASSUME NEW r \in Editor, NEW kind, NEW plan, Load(r, kind, plan)
        PROVE  FALSE
    <2>1. edit' = [edit EXCEPT ![r] = [at |-> "loaded", kind |-> kind, plan |-> plan]]
      BY <1>3 DEF Load
    <2>2. [at |-> "loaded", kind |-> kind, plan |-> plan].at = "loaded"
      OBVIOUS
    <2>3. QED
      BY <1>2, <2>1, <2>2
  <1>4. ASSUME NEW r \in Editor, NEW i \in Live, NEW names \in SUBSET TagName, StartUpdate(r, i, names)
        PROVE  FALSE
    <2>1. PICK x : x = [at |-> "loaded", kind |-> "update", item |-> i,
                        names |-> names, keep |-> TRUE, plan |-> UpdatePlan(i, names, TRUE)]
      OBVIOUS
    <2>2. edit' = [edit EXCEPT ![r] = x] /\ x.at = "loaded"
      BY <1>4, <2>1 DEF StartUpdate
    <2>3. QED
      BY <1>2, <2>2
  <1>5. ASSUME NEW r \in Editor, RetryNames(r)
        PROVE  FALSE
    <2>1. r # e
      BY <1>5 DEF RetryNames
    <2>2. PICK x : edit' = [edit EXCEPT ![r] = x]
      BY <1>5 DEF RetryNames
    <2>3. QED
      BY <1>2, <2>1, <2>2
  <1>6. ASSUME NEW r \in Editor, Commit(r)
        PROVE  r = e
    BY <1>2, <1>6 DEF Commit
  <1>7. edit' # edit
    BY <1>1
  <1>8. QED
    BY <1>3, <1>4, <1>5, <1>6, <1>7
       DEF CatalogueNext, StartBulk, RelationOnItemPage, RelationOnCollectionPage, StartDelete, StartMerge,
           CreateItem, CreateTag

MergesKeepSeen ==
    \A e \in Editor : (EditCommitted(e) /\ edit[e].kind = "merge") =>
        LET plan == edit[e].plan
            Moved(row) == IF plan.dropTags = {} THEN <<plan.into, row[2]>> ELSE <<row[1], plan.into>>
        IN \A row \in plan.del : Moved(row) \in tagged' \cup (plan.skip \ tagged)

LEMMA SeenSurvives == CatalogueInv /\ [CatalogueNext]_catalogueVars => [MergesKeepSeen]_catalogueVars
  <1> SUFFICES ASSUME CatalogueInv, CatalogueNext PROVE MergesKeepSeen
    OBVIOUS
  <1> SUFFICES ASSUME NEW e \in Editor, EditCommitted(e), edit[e].kind = "merge"
               PROVE  SeenIsKept(edit[e].plan)
    BY DEF MergesKeepSeen, SeenIsKept, Kept
  <1>1. Commit(e) /\ MergeOK(edit[e].plan)
    BY OnlyCommits DEF CatalogueInv, EditsOK, EditOK, EditCommitted
  <1>2. PICK plan : plan = edit[e].plan /\ MergeOK(plan) /\ Write(plan)
    BY <1>1 DEF Commit, EditCommitted
  <1>3. QED
    BY <1>2, MergeKeeps

\* What the duplicate item or tag was related to when the merge loaded it, the
\* primary itself is related to once it went through, but for what both had and the
\* primary lost since (merge_duplicate_items, merge_metadata_objects).
THEOREM MergesLoseNothingSeen == CatalogueSpec => MergeKeepsSeen
  BY CatalogueInvHolds, SeenSurvives, PTL DEF CatalogueSpec, MergeKeepsSeen, MergesKeepSeen

===============================================================================
