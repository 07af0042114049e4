------------------------------ MODULE ImportRows ------------------------------
(***************************************************************************)
(* CSV and JSON import (services/importer.py, routers/importer.py and the import    *)
(* page): rows are normalized one by one, the valid ones are written in one          *)
(* transaction.  Requests run beside each other and beside the pages that delete a    *)
(* source, an item or a name; the driver takes the write lock at the first INSERT,    *)
(* after the known source URLs were read.                                             *)
(*                                                                          *)
(* A row has one name (a tag, creator or collection), at most one source URL and    *)
(* may be invalid.                                                                    *)
(***************************************************************************)
EXTENDS Naturals, Sequences, FiniteSets

CONSTANTS
    Name,       \* names and normalized URLs
    Request,    \* import requests
    NoUrl,      \* a row without a source
    MaxRows     \* bound: rows of a request

ASSUME ImportAssumption == MaxRows \in Nat /\ NoUrl \notin Name

VARIABLES
    given,      \* the rows of each request
    imp,        \* what each request is doing, with the URLs it knows; history: gone,
                \* those of them a page has deleted since
    staged,     \* uncommitted rows of the request that holds the write lock
    table,      \* the durable rows: items, names, sources
    answer,     \* what each request was told
    doubtful    \* history: requests whose commit raised after taking effect

importVars == <<given, imp, staged, table, answer, doubtful>>

InputRow == [name : Name, url : Name \cup {NoUrl}, good : BOOLEAN]
Empty == [items |-> {}, names |-> {}, sources |-> {}]
Ready(pc) == [pc |-> pc, known |-> {}, gone |-> {}]

\* _normalize_row, _preview_from_rows: the numbers of the rows that can be imported.
ValidRows(r) == {n \in DOMAIN given[r] : given[r][n].good}

LockFree(r) == \A q \in Request \ {r} : imp[q].pc # "writing"

\* Nothing importable: the page says so; the API answers with zero rows.
PreviewRows(r) ==
    /\ imp[r].pc = "idle" /\ answer[r] = "none"
    /\ IF ValidRows(r) = {}
       THEN answer' = [answer EXCEPT ![r] = "nothing"] /\ UNCHANGED imp
       ELSE imp' = [imp EXCEPT ![r] = Ready("previewed")] /\ UNCHANGED answer
    /\ UNCHANGED <<given, staged, table, doubtful>>

\* known_source_urls
ReadKnown(r) ==
    /\ imp[r].pc = "previewed"
    /\ imp' = [imp EXCEPT ![r] = [Ready("known") EXCEPT !.known = {s.url : s \in table.sources}]]
    /\ UNCHANGED <<given, staged, table, answer, doubtful>>

FailImport(r) ==
    /\ imp' = [imp EXCEPT ![r] = Ready("idle")]
    /\ answer' = [answer EXCEPT ![r] = "import_failed"]
    /\ UNCHANGED <<given, table, doubtful>>

NextRow(r) == CHOOSE n \in ValidRows(r) :
    /\ [by |-> r, row |-> n] \notin staged.items
    /\ \A k \in ValidRows(r) : k < n => [by |-> r, row |-> k] \in staged.items

\* A source is skipped when its URL is known; a row adds its own URL.
NewSourceMutant(r, row, url) ==
    IF url = NoUrl \/ url \in imp[r].known \cup {given[r][k].url : k \in 1..(row - 1)}
    THEN {} ELSE {[url |-> url, by |-> r, row |-> row]}
NewSource(r, row, url) ==
    IF url = NoUrl \/ url \in imp[r].known THEN {} ELSE {[url |-> url, by |-> r, row |-> row]}

\* The tables as the transaction sees them.
Seen == [items |-> table.items \cup staged.items, names |-> table.names \cup staged.names,
         sources |-> table.sources \cup staged.sources]

\* _get_or_create_tag, _get_or_create_creator, _get_or_create_collection
GetOrCreate(name) == {name} \ Seen.names

\* The first insert takes the lock, or waits until the driver gives up; a URL
\* stored since it was read, or any other failure, ends the import.
WriteRow(r) ==
    /\ imp[r].pc \in {"known", "writing"}
    /\ \E n \in ValidRows(r) : [by |-> r, row |-> n] \notin staged.items
    /\ LET n == NextRow(r)
           row == given[r][n]
           new == NewSource(r, n, row.url)
       IN  IF LockFree(r) /\ \A s \in new : \A t \in Seen.sources : t.url # s.url
           THEN /\ staged' = [items |-> staged.items \cup {[by |-> r, row |-> n]},
                              names |-> staged.names \cup GetOrCreate(row.name),
                              sources |-> staged.sources \cup new]
                /\ imp' = [imp EXCEPT ![r] = [pc |-> "writing", known |-> @.known \cup {s.url : s \in new},
                                            gone |-> @.gone]]
                /\ UNCHANGED <<given, table, answer, doubtful>>
           ELSE FailImport(r) /\ staged' = IF LockFree(r) THEN Empty ELSE staged

BreakImport(r) ==
    /\ imp[r].pc = "writing"
    /\ FailImport(r)
    /\ staged' = Empty

\* The commit takes effect or not, and may raise in both cases; nobody looks again.
CommitImport(r) ==
    /\ imp[r].pc = "writing"
    /\ \A n \in ValidRows(r) : [by |-> r, row |-> n] \in staged.items
    /\ imp' = [imp EXCEPT ![r] = Ready("idle")]
    /\ staged' = Empty
    /\ \/ /\ table' = Seen
          /\ \/ answer' = [answer EXCEPT ![r] = "imported"] /\ UNCHANGED doubtful
             \/ answer' = [answer EXCEPT ![r] = "import_failed"] /\ doubtful' = doubtful \cup {r}
       \/ /\ answer' = [answer EXCEPT ![r] = "import_failed"]
          /\ UNCHANGED <<table, doubtful>>
    /\ UNCHANGED given

\* A crash ends every request; what was not committed is gone.
CrashImports ==
    /\ \E r \in Request : imp[r].pc # "idle"
    /\ imp' = [r \in Request |-> Ready("idle")]
    /\ answer' = [r \in Request |-> IF imp[r].pc # "idle" THEN "lost" ELSE answer[r]]
    /\ staged' = Empty
    /\ UNCHANGED <<given, table, doubtful>>

\* Another page deletes these rows of the tables, when nobody holds the write lock.
Delete(items, names, sources) ==
    /\ \A r \in Request : imp[r].pc # "writing"
    /\ table' = [items |-> table.items \ items, names |-> table.names \ names,
                 sources |-> table.sources \ sources]
    /\ imp' = [r \in Request |->
                  [imp[r] EXCEPT !.gone = @ \cup (imp[r].known \cap {s.url : s \in sources})]]
    /\ UNCHANGED <<given, staged, answer, doubtful>>

\* delete_item_source
DeleteSource == \E s \in table.sources : Delete({}, {}, {s})

\* delete_item_page, delete_item_endpoint: an item goes with its sources.
DeleteItem ==
    \E i \in table.items : Delete({i}, {}, {s \in table.sources : s.by = i.by /\ s.row = i.row})

\* delete_tag and its page
DeleteName == \E name \in table.names : Delete({}, {name}, {})

ImportInit ==
    /\ given \in [Request -> UNION {[1..n -> InputRow] : n \in 0..MaxRows}]
    /\ imp = [r \in Request |-> Ready("idle")]
    /\ staged = Empty
    /\ table = Empty
    /\ answer = [r \in Request |-> "none"]
    /\ doubtful = {}

ImportNext ==
    \/ \E r \in Request : PreviewRows(r) \/ ReadKnown(r) \/ WriteRow(r) \/ BreakImport(r) \/ CommitImport(r)
    \/ DeleteSource \/ DeleteItem \/ DeleteName
    \/ CrashImports

ImportSpec == ImportInit /\ [][ImportNext]_importVars

----------------------------------------------------------------------------
(* Properties                                                               *)

\* Only the lock holder has staged rows, and a URL is stored once.
ImportTypeOK ==
    /\ staged # Empty => \E r \in Request : imp[r].pc = "writing" /\ \A i \in staged.items : i.by = r
    /\ \A s, t \in Seen.sources : s.url = t.url => s = t
    /\ \A s \in Seen.sources : [by |-> s.by, row |-> s.row] \in Seen.items

\* A step makes all valid rows of a request durable or none of them, whatever
\* failed and whoever imported or deleted meanwhile (import_valid_rows commits once).
ImportIsWhole ==
    \A r \in Request :
        {i.row : i \in {j \in table'.items \ table.items : j.by = r}} \in {{}, ValidRows(r)}

\* What a request is told, at the moment it is told.  imported: the library has
\* all its rows with every name and every URL of them, except a URL another page
\* deleted between the look for known URLs and the first INSERT: it is skipped as
\* known and stored by nobody.  import_failed: nothing of it is in the library,
\* except when the commit raised after it took effect (doubtful).
ImportTold ==
    \A r \in Request : answer'[r] # answer[r] =>
        /\ answer'[r] = "imported" =>
               \A n \in ValidRows(r) :
                   /\ [by |-> r, row |-> n] \in table'.items
                   /\ given[r][n].name \in table'.names
                   /\ given[r][n].url # NoUrl =>
                          \/ \E s \in table'.sources : s.url = given[r][n].url
                          \/ given[r][n].url \in imp[r].gone
        /\ answer'[r] = "import_failed" /\ r \notin doubtful' => \A i \in table'.items : i.by # r

\* An import is all there or not at all, and its answer says which.
ImportTruthful == [][ImportIsWhole /\ ImportTold]_importVars
==============================================================================
