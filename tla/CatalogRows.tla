---------------------------- MODULE CatalogRows ----------------------------
(***************************************************************************)
(* The item and item_source rows that a confirmed provider detail writes,   *)
(* and what the item pages do to them meanwhile.  Everything is about one    *)
(* provider identity (provider_key and external_id) and its one URL: a row   *)
(* only says whether it carries that identity and that URL.  "summary"       *)
(* stands for the two protected fields, summary and release_date.            *)
(***************************************************************************)
EXTENDS Naturals, FiniteSets, FiniteSetsExt

CONSTANTS
    MaxId,      \* bound: row ids in use
    MaxFetch,   \* bound: details fetched from the provider
    MaxEdits    \* bound: edits made on the pages

ASSUME RowsAssumption == {MaxId, MaxFetch, MaxEdits} \subseteq Nat /\ MaxId > 1

Blank == "blank"
Titles == {"provider title", "own title"}
Summaries == {Blank, "local", "provided"}

NoItem == [title |-> "none"]
NoSource == [item |-> 0]

ItemRow == [title: Titles, summary: Summaries]
SourceRow == [item: 1..MaxId, ident: BOOLEAN, url: BOOLEAN,
              checked: 0..MaxFetch, hash: 0..MaxFetch]

VARIABLES
    items,      \* the items table, by id
    sources,    \* the item_sources table, by id
    orphans,    \* ids for which relation rows of a deleted item remain
    edits       \* how many page edits happened

rowVars == <<items, sources, orphans, edits>>

RowsTypeOK ==
    /\ items \in [1..MaxId -> ItemRow \cup {NoItem}]
    /\ sources \in [1..MaxId -> SourceRow \cup {NoSource}]
    /\ orphans \subseteq 1..MaxId
    /\ edits \in 0..MaxEdits

ItemIds == {i \in 1..MaxId : items[i] # NoItem}
SourceIds == {s \in 1..MaxId : sources[s] # NoSource}

\* SQLite gives a new row the id after the largest one in use.
NextId(used) == 1 + Max({0} \cup used)

IdentitySources == {s \in SourceIds : sources[s].ident}
UrlSources == {s \in SourceIds : sources[s].url}

\* Ids of the items that have this title, but for the excluded one.
Duplicates(title, excluded) ==
    {i \in ItemIds : items[i].title = title} \ {excluded}

\* An old database: an item with a source that carries the identity, the URL,
\* both or neither, and perhaps relation rows nobody owns.
RowsInit ==
    /\ \E summary \in {Blank, "local"}, ident, url \in BOOLEAN :
          /\ items = [i \in 1..MaxId |-> IF i = 1
                        THEN [title |-> "own title", summary |-> summary]
                        ELSE NoItem]
          /\ sources = [s \in 1..MaxId |-> IF s = 1 /\ (ident \/ url)
                          THEN [item |-> 1, ident |-> ident, url |-> url,
                                checked |-> 0, hash |-> 0]
                          ELSE NoSource]
    /\ orphans \in {{}, {2}}
    /\ edits = 0

\* The edit page: any title, any summary.
EditItem(i) ==
    /\ edits < MaxEdits
    /\ i \in ItemIds
    /\ \E title \in Titles, summary \in {Blank, "local"} :
          items' = [items EXCEPT ![i] = [title |-> title, summary |-> summary]]
    /\ edits' = edits + 1
    /\ UNCHANGED <<sources, orphans>>

\* Deleting an item deletes its sources with it.
DeleteItem(i) ==
    /\ edits < MaxEdits
    /\ i \in ItemIds
    /\ items' = [items EXCEPT ![i] = NoItem]
    /\ sources' = [s \in 1..MaxId |->
                     IF s \in SourceIds /\ sources[s].item = i
                     THEN NoSource ELSE sources[s]]
    /\ edits' = edits + 1
    /\ UNCHANGED orphans

\* A source added by hand has the URL and no identity; the URL is unique.
AddItemSource(i) ==
    /\ edits < MaxEdits
    /\ i \in ItemIds
    /\ UrlSources = {}
    /\ NextId(SourceIds) <= MaxId
    /\ sources' = [sources EXCEPT ![NextId(SourceIds)] =
                     [item |-> i, ident |-> FALSE, url |-> TRUE,
                      checked |-> 0, hash |-> 0]]
    /\ edits' = edits + 1
    /\ UNCHANGED <<items, orphans>>

DeleteItemSource(s) ==
    /\ edits < MaxEdits
    /\ s \in SourceIds
    /\ sources' = [sources EXCEPT ![s] = NoSource]
    /\ edits' = edits + 1
    /\ UNCHANGED <<items, orphans>>

PageEdit ==
    \/ \E i \in 1..MaxId : EditItem(i) \/ DeleteItem(i) \/ AddItemSource(i)
    \/ \E s \in 1..MaxId : DeleteItemSource(s)
============================================================================
