---------------------------- MODULE BackupRestore ----------------------------
(***************************************************************************)
(* Export of the library as a JSON backup (services/exporter.py), its validation   *)
(* and preview (services/backup_validator.py, services/backup.py) and its restore   *)
(* by merging (restore_backup_data), with the pages editing meanwhile.               *)
(*                                                                          *)
(* A library has items with titles, named rows with their links to items, one        *)
(* mark per item and sources.  form says what the named rows and marks are:          *)
(* tags (and creators) with user states, or collections (and saved views) with       *)
(* activity counts; they are merged by different rules.                              *)
(***************************************************************************)
EXTENDS Naturals, FiniteSets, SequencesExt, Functions

CONSTANTS
    Word,       \* titles, names and normalized URLs
    MaxRow,     \* bound: row ids
    MaxLocal,   \* bound: rows of the library at first
    MaxFile,    \* bound: rows of a backup of another library
    MaxEdits    \* bound: page edits

ASSUME BackupAssumption == MaxRow \in Nat /\ MaxLocal \in Nat /\ MaxFile \in Nat /\ MaxEdits \in Nat

RowId == 1..MaxRow
Key == 0..1         \* provider identity of a source, 0 when it has none

VARIABLES
    form,       \* "tags" or "collections"
    lib,        \* the durable library
    indexed,    \* the media index is valid
    file,       \* the backup file at hand, NoFile when there is none
    exporting,  \* tables the running export has still to read
    restoring,  \* the running restore
    toldRestore, \* what the page says of it
    effect,     \* history: it became durable
    stamp,      \* the time the last page edit left in a row
    edits       \* page edits

backupVars == <<form, lib, indexed, file, exporting, restoring, toldRestore, effect, stamp, edits>>

Tables == <<"items", "names", "links", "marks", "sources">>
NoFile == [items |-> <<>>, names |-> <<>>, links |-> {}, marks |-> <<>>, sources |-> {}]
Idle == [pc |-> "idle"]

Partial(ids, values) == UNION {[s -> values] : s \in SUBSET ids}
Size(f) == Cardinality(DOMAIN f.items) + Cardinality(DOMAIN f.names) + Cardinality(f.links)
         + Cardinality(DOMAIN f.marks) + Cardinality(f.sources)

\* What the tables allow: names are unique, links, marks and sources have their
\* rows, URLs and provider identities are unique.
Sound(f) ==
    /\ IsInjective(f.names)
    /\ \A l \in f.links : l.item \in DOMAIN f.items /\ l.row \in DOMAIN f.names
    /\ DOMAIN f.marks \subseteq DOMAIN f.items
    /\ \A s \in f.sources : s.item \in DOMAIN f.items
    /\ \A s, t \in f.sources : s # t => s.url # t.url /\ (s.key = t.key => s.key = 0)

Link == [item : RowId, row : RowId]
Source == [item : RowId, url : Word, key : Key]

\* Libraries, and the files of such; a file may repeat a source.  Items may share a title.
UpToTwo(S) == {{}} \cup {{a, b} : a, b \in S}
Whole(size) ==
    UNION {{f \in [items : {i}, names : {n}, links : UpToTwo([item : DOMAIN i, row : DOMAIN n]),
                   marks : Partial(DOMAIN i, 1..2),
                   sources : UpToTwo([item : DOMAIN i, url : Word, key : Key])] : Size(f) <= size}
           : i \in Partial(RowId, Word), n \in {r \in Partial(RowId, Word) : IsInjective(r)}}
Libraries == {f \in Whole(MaxLocal) : Sound(f)}
Files == Whole(MaxFile)

WithRow(rows, id, value) == [i \in {id} \cup DOMAIN rows |-> IF i = id THEN value ELSE rows[i]]

----------------------------------------------------------------------------
(* export_backup_data: one SELECT after another, without a snapshot          *)

StartExport ==
    /\ exporting = <<>> /\ restoring.pc = "idle" /\ toldRestore = "none"
    /\ exporting' = Tables
    /\ file' = NoFile
    /\ UNCHANGED <<form, lib, indexed, restoring, toldRestore, effect, stamp, edits>>

ReadTable ==
    /\ exporting # <<>>
    /\ file' = [file EXCEPT ![Head(exporting)] = lib[Head(exporting)]]
    /\ exporting' = Tail(exporting)
    /\ UNCHANGED <<form, lib, indexed, restoring, toldRestore, effect, stamp, edits>>

----------------------------------------------------------------------------
(* The merges of restore_backup_data.  bad: a unique constraint fails.        *)

FirstWith(rows, word) == CHOOSE i \in {j \in DOMAIN rows : rows[j] = word} :
                             \A j \in DOMAIN rows : rows[j] = word => i <= j
Has(rows, word) == \E i \in DOMAIN rows : rows[i] = word

\* _merge_items, _merge_tags, _merge_creators: by id, then by title or name.
IdFirst(rows, id, word) ==
    IF id \in DOMAIN rows THEN id ELSE IF Has(rows, word) THEN FirstWith(rows, word) ELSE id
\* _merge_collections, _merge_saved_views: by name, then by id.
NameFirst(rows, id, word) == IF Has(rows, word) THEN FirstWith(rows, word) ELSE id

\* The row of one id: the rows of the library after it, and where those of the
\* backup went.
MergeRow(acc, id, word, byId) ==
    LET at == IF byId THEN IdFirst(acc.rows, id, word) ELSE NameFirst(acc.rows, id, word)
    IN  [rows |-> WithRow(acc.rows, at, word), ids |-> WithRow(acc.ids, id, at)]

MergeUpTo(local, rows, byId) ==
    LET upTo[n \in 0..MaxRow] ==
            IF n = 0 THEN [rows |-> local, ids |-> <<>>]
            ELSE IF n \in DOMAIN rows THEN MergeRow(upTo[n - 1], n, rows[n], byId) ELSE upTo[n - 1]
    IN  upTo

MergeRows(local, rows, byId) == MergeUpTo(local, rows, byId)[MaxRow]
MergeItems(local, rows) == MergeRows(local, rows, TRUE)
MergeNames(local, rows) == MergeRows(local, rows, form = "tags")

\* _merge_item_tags adds every link it does not find stored; two rows that become
\* one link are added twice.  _merge_item_collections looks at its own rows too.
LinkTargetsMutant(f, ids, rowIds) ==
    {l \in f.links : l.item \in DOMAIN ids /\ l.row \in DOMAIN rowIds /\ ids[l.item] = l.item}
LinkTargets(f, ids, rowIds) ==
    {l \in f.links : l.item \in DOMAIN ids /\ l.row \in DOMAIN rowIds}
Landed(l, ids, rowIds) == [item |-> ids[l.item], row |-> rowIds[l.row]]
LinksCollide(local, f, ids, rowIds) ==
    form = "tags" /\ \E l, k \in LinkTargets(f, ids, rowIds) :
        l # k /\ Landed(l, ids, rowIds) = Landed(k, ids, rowIds) /\ Landed(l, ids, rowIds) \notin local.links

\* _merge_states overwrites and adds twice as well, so the last row of an item
\* stays; _merge_item_activity keeps the larger count and skips the second row.
MarkRows(f, ids) == DOMAIN f.marks \cap DOMAIN ids
MarksCollide(local, f, ids) ==
    form = "tags" /\ \E i, j \in MarkRows(f, ids) :
        i # j /\ ids[i] = ids[j] /\ ids[i] \notin DOMAIN local.marks
MergeMarks(local, f, ids) ==
    LET Given(x) == {i \in MarkRows(f, ids) : ids[i] = x}
        Old(x) == IF x \in DOMAIN local.marks THEN local.marks[x] ELSE 0
        New(x) == IF form = "tags" THEN f.marks[Max(Given(x))]
                  ELSE Max({Old(x), f.marks[Min(Given(x))]})
    IN  [x \in DOMAIN local.marks \cup {ids[i] : i \in MarkRows(f, ids)} |->
            IF Given(x) = {} THEN Old(x) ELSE New(x)]

----------------------------------------------------------------------------
(* Sources                                                                  *)

\* _source_payload_errors
SourcePayloadErrors(f) ==
    \E s, t \in f.sources : s # t /\ (s.url = t.url \/ (s.key = t.key /\ s.key # 0))

\* _classify_item_sources; ids maps an item of the backup to its local one, 0 when
\* it is still to be created.
Candidates(local, s) == {t \in local.sources : t.url = s.url \/ (t.key = s.key /\ s.key # 0)}
Reused(local, s, ids) == Candidates(local, s) = {[s EXCEPT !.item = ids[s.item]]}
ClassifyConflicts(local, f, ids) ==
    \E s \in f.sources :
        \/ s.item \notin DOMAIN ids
        \/ Candidates(local, s) # {} /\ ~Reused(local, s, ids)
NewSources(local, f, ids) ==
    {[s EXCEPT !.item = ids[s.item]] : s \in {t \in f.sources : Candidates(local, t) = {}}}

\* _preview_item_id_map, preview_backup_data
PreviewIds(local, f) ==
    [i \in DOMAIN f.items |-> IF i \in DOMAIN local.items THEN i
                              ELSE IF Has(local.items, f.items[i]) THEN FirstWith(local.items, f.items[i]) ELSE 0]
CanRestore(local, f) == ~SourcePayloadErrors(f) /\ ~ClassifyConflicts(local, f, PreviewIds(local, f))

\* validate_backup_payload reports no error.
ReportClean(f) ==
    /\ \A l \in f.links : l.item \in DOMAIN f.items /\ l.row \in DOMAIN f.names
    /\ \A s \in f.sources : s.item \in DOMAIN f.items
    /\ DOMAIN f.marks \subseteq DOMAIN f.items
    /\ ~SourcePayloadErrors(f)

----------------------------------------------------------------------------
(* restore_backup_data                                                      *)

\* The payload is checked and the digest of the library taken before the lock.
StartRestore ==
    /\ exporting = <<>> /\ restoring.pc = "idle" /\ toldRestore = "none"
    /\ effect' = FALSE
    /\ IF SourcePayloadErrors(file)
       THEN toldRestore' = "refused" /\ UNCHANGED restoring
       ELSE /\ restoring' = [pc |-> "digested", before |-> <<lib, indexed, stamp>>]
            /\ UNCHANGED toldRestore
    /\ UNCHANGED <<form, lib, indexed, file, exporting, stamp, edits>>

Merged(local, f) ==
    LET items == MergeItems(local.items, f.items)
        names == MergeNames(local.names, f.names)
    IN  [items |-> items.rows, names |-> names.rows,
         links |-> local.links \cup {Landed(l, items.ids, names.ids) : l \in LinkTargets(f, items.ids, names.ids)},
         marks |-> MergeMarks(local, f, items.ids),
         sources |-> local.sources \cup NewSources(local, f, items.ids)]

Refused(local, f) == ClassifyConflicts(local, f, MergeItems(local.items, f.items).ids)

\* A name taken by a row that another row of the backup moves to it, a link or a
\* state added twice: the flush fails and the transaction is rolled back.  Names are
\* flushed one by one.
NamesCollide(local, rows) ==
    \E id \in DOMAIN rows :
        ~IsInjective(MergeNames(local, [i \in {j \in DOMAIN rows : j <= id} |-> rows[i]]).rows)
Collides(local, f) ==
    LET ids == MergeItems(local.items, f.items).ids
        rowIds == MergeNames(local.names, f.names).ids
    IN  \/ NamesCollide(local.names, f.names)
        \/ LinksCollide(local, f, ids, rowIds)
        \/ MarksCollide(local, f, ids)

Inspect(after, error) == restoring' = [pc |-> "inspect", before |-> restoring.before,
                                       after |-> after, error |-> error]

\* BEGIN IMMEDIATE may find the database locked.  From it on no page writes.
MergeFile ==
    /\ restoring.pc = "digested"
    /\ \/ Inspect(<<>>, "rolled_back")
       \/ IF Refused(lib, file) THEN Inspect(<<>>, "refused")
          ELSE IF Collides(lib, file) THEN Inspect(<<>>, "rolled_back")
          ELSE restoring' = [pc |-> "merged", before |-> restoring.before,
                             after |-> <<Merged(lib, file), FALSE, stamp>>]
    /\ UNCHANGED <<form, lib, indexed, file, exporting, toldRestore, effect, stamp, edits>>

\* The commit takes effect or not, and may raise in both cases.
CommitRestore ==
    /\ restoring.pc = "merged"
    /\ \/ /\ lib' = restoring.after[1] /\ indexed' = FALSE /\ effect' = TRUE
          /\ \/ restoring' = Idle /\ toldRestore' = "committed"
             \/ Inspect(restoring.after, "rolled_back") /\ UNCHANGED toldRestore
       \/ /\ Inspect(restoring.after, "rolled_back")
          /\ UNCHANGED <<lib, indexed, effect, toldRestore>>
    /\ UNCHANGED <<form, file, exporting, stamp, edits>>

\* _independent_restore_state_digest; None when it cannot be read.
VerdictMutant(actual) ==
    IF actual = restoring.after THEN "committed_after_error" ELSE restoring.error
Verdict(actual) ==
    IF actual = restoring.after THEN "committed_after_error"
    ELSE IF actual = restoring.before THEN restoring.error ELSE "unknown"
InspectRestore ==
    /\ restoring.pc = "inspect"
    /\ toldRestore' \in {Verdict(<<lib, indexed, stamp>>), "unknown"}
    /\ restoring' = Idle
    /\ UNCHANGED <<form, lib, indexed, file, exporting, effect, stamp, edits>>

\* The pages, while an export or a restore is under way: delete an item, or write
\* a title and with it the time in its row.
EditLibrary ==
    /\ exporting # <<>> \/ restoring.pc \in {"digested", "inspect"}
    /\ edits < MaxEdits
    /\ \/ \E i \in DOMAIN lib.items :
             lib' = [items |-> [j \in DOMAIN lib.items \ {i} |-> lib.items[j]], names |-> lib.names,
                     links |-> {l \in lib.links : l.item # i},
                     marks |-> [j \in DOMAIN lib.marks \ {i} |-> lib.marks[j]],
                     sources |-> {s \in lib.sources : s.item # i}]
             /\ UNCHANGED stamp
       \/ \E i \in RowId, w \in Word : lib' = [lib EXCEPT !.items = WithRow(lib.items, i, w)] /\ stamp' = stamp + 1
    /\ edits' = edits + 1
    /\ UNCHANGED <<form, indexed, file, exporting, restoring, toldRestore, effect>>

BackupInit ==
    /\ form \in {"tags", "collections"}
    /\ lib \in Libraries /\ file \in Files
    /\ indexed = TRUE
    /\ exporting = <<>>
    /\ restoring = Idle
    /\ toldRestore = "none"
    /\ effect = FALSE
    /\ stamp = 0
    /\ edits = 0

BackupNext ==
    \/ StartExport \/ ReadTable
    \/ StartRestore \/ MergeFile \/ CommitRestore \/ InspectRestore
    \/ EditLibrary

BackupSpec == BackupInit /\ [][BackupNext]_backupVars

----------------------------------------------------------------------------
(* Properties                                                               *)

\* The library keeps its constraints and no row loses the row it belongs to,
\* whatever file is merged into it: a torn export, one of another library.
BackupTypeOK == Sound(lib) /\ DOMAIN lib.items \subseteq RowId /\ lib.links \subseteq Link /\ lib.sources \subseteq Source

\* The page never says committed of a restore without effect, nor refused or rolled
\* back of one that is in the library (restore_backup_data's digests).
RestoreTruthful ==
    [][toldRestore' # toldRestore =>
        /\ toldRestore' \in {"committed", "committed_after_error"} => effect' \/ restoring.after = restoring.before
        /\ toldRestore' \in {"refused", "rolled_back"} =>
               ~effect' \/ restoring.before = <<lib', indexed', stamp'>>]_backupVars

\* The file gives no row of the library another title or name.
KeepsTitles(local, f) == \A i \in DOMAIN local.items \cap DOMAIN f.items : local.items[i] = f.items[i]
KeepsNames(local, f) == \A i \in DOMAIN local.names \cap DOMAIN f.names : local.names[i] = f.names[i]
Compatible(local, f) == KeepsTitles(local, f) /\ KeepsNames(local, f)

\* What a library says, its ids left out.
Content(f) ==
    [items |-> {f.items[i] : i \in DOMAIN f.items},
     names |-> {f.names[i] : i \in DOMAIN f.names},
     links |-> {<<f.items[l.item], f.names[l.row]>> : l \in f.links},
     sources |-> {<<f.items[s.item], s.url, s.key>> : s \in f.sources}]

\* No restore clears the library (README, Backup), whatever ids the file shares with
\* it: a row keeps its word or gets that of the file's row of the same id, links and
\* sources stay, and no item loses its mark or a count gets smaller.
NothingCleared(old, f, new) ==
    /\ \A part \in {"items", "names"} : \A i \in DOMAIN old[part] :
           /\ i \in DOMAIN new[part]
           /\ new[part][i] = old[part][i] \/ (i \in DOMAIN f[part] /\ new[part][i] = f[part][i])
    /\ old.links \subseteq new.links /\ old.sources \subseteq new.sources
    /\ \A x \in DOMAIN old.marks :
           x \in DOMAIN new.marks /\ (form # "tags" => new.marks[x] >= old.marks[x])

\* Append and merge: where the file renames no row the result says what either
\* says, nothing lost and nothing added.
ContentJoins(old, f, new) ==
    \A part \in DOMAIN Content(old) : Content(new)[part] = Content(old)[part] \cup Content(f)[part]

\* An item's mark stays unless the file has one for its title, and every mark of the
\* file reaches an item of its title.  A count is the larger one; a state is the
\* file's: _merge_states overwrites it, so of the states the merge is not a union.
MarksJoin(old, f, new) ==
    LET Of(w) == {f.marks[i] : i \in {j \in DOMAIN f.marks : f.items[j] = w}}
        Took(x) == new.marks[x] \in Of(new.items[x])
    IN  /\ \A x \in DOMAIN old.marks :
               new.marks[x] = old.marks[x] \/ (Took(x) /\ (form # "tags" => new.marks[x] > old.marks[x]))
        /\ \A i \in DOMAIN f.marks : \E x \in DOMAIN new.marks :
               /\ new.items[x] = f.items[i]
               /\ Took(x) \/ (form # "tags" /\ \E m \in Of(new.items[x]) : new.marks[x] > m)

\* Restoring the same file once more is neither refused nor rolled back, and it
\* changes nothing.
Repeats(f, new) == ~Refused(new, f) /\ ~Collides(new, f) /\ Merged(new, f) = new

\* A library's own backup changes nothing in it, and gives it back in an empty
\* one, ids included, when no two items share a title (export and restore).
RoundTrip(old, f, new) ==
    /\ f = old => new = old
    /\ old = NoFile /\ Sound(f) /\ IsInjective(f.items) => new = f

\* The restore refuses for its sources what the preview said it would, and nothing
\* the preview found restorable (preview_backup_data), where the file gives no item of
\* the library another title.  Where it does, the preview looks an item up among the
\* titles before the merge and the merge among those it has overwritten, so what the
\* preview allows may be refused, and nothing is written.
PreviewAgrees ==
    restoring.pc = "digested" /\ KeepsTitles(lib, file) =>
        (Refused(lib, file) <=> ~CanRestore(lib, file))

\* A restore clears nothing; where it renames nothing it is a union, but for states,
\* that repeats to nothing; it inverts the export, and the preview foretells it.
RestoreIsUnion ==
    [][/\ effect' /\ ~effect => NothingCleared(lib, file, lib') /\ RoundTrip(lib, file, lib')
       /\ effect' /\ ~effect /\ Compatible(lib, file) /\ ReportClean(file) =>
              ContentJoins(lib, file, lib') /\ MarksJoin(lib, file, lib') /\ Repeats(file, lib')
       /\ PreviewAgrees]_backupVars
==============================================================================
