---------------------------- MODULE ConfirmProofs ----------------------------
(***************************************************************************)
(* The confirmations of a provider detail, of a manual update and of the    *)
(* media pages keep their promises, alone and beside each other, for any    *)
(* number of requests, rows, checks, names and objects (those of a provider *)
(* detail alone: ProviderApplyProofs).                                     *)
(*                                                                         *)
(* Manual updates.  Source checks are numbered as they start, so the row a  *)
(* check has seen carries an older number than its own (ChecksOK), and      *)
(* every number in a row is one of a check that was started (NumbersOK).    *)
(* While the fields of a request stand, its source row carries the plan's   *)
(* number or a later one and its item the provided summary (FieldsStand):   *)
(* neither is what the plan's check has seen, so the plan cannot be written *)
(* again nor the request take its own write for a failure.                  *)
(*                                                                         *)
(* Media pages.  Names of one inode hold one content (MediaOK), so what a   *)
(* form compares of one name tells the content of all its aliases; a form   *)
(* and the items of a batch are requests whose preview was built (PageOK).  *)
(*                                                                         *)
(* Together.  What does not run stays as it started, and what runs is a     *)
(* step of its own specification (ConfirmInv, StepOfOne).                   *)
(***************************************************************************)
EXTENDS MCConfirm, ProviderApplyProofs, WellFoundedInduction

Started(c) == check[c] # NoCheck
Succeeded(c) == check[c].st = "succeeded"

RowsOK ==
    /\ items \in [1..MaxId -> ItemRow \cup {NoItem}]
    /\ sources \in [1..MaxId -> SourceRow \cup {NoSource}]

\* The number a source row carries is that of a check that was started.
NumbersOK ==
    \A s \in SourceIds : \/ sources[s].checked = 0
                         \/ sources[s].checked \in Checks /\ Started(sources[s].checked)

\* The fields of a fact that do not change.
SeenFields == {"st", "sourceId", "source", "item", "summary"}

\* What a check has seen of its source is older than the check.
SeenOK(c, x) ==
    /\ x.sourceId \in 1..MaxId
    /\ x.source \in SourceRow /\ x.source.ident /\ x.source.checked < c

CheckOK(c) ==
    \/ check[c].st \in {"none", "ended"}
    \/ check[c].st = "running" /\ SeenOK(c, check[c])
    \/ /\ Succeeded(c) /\ SeenFields \subseteq DOMAIN check[c] /\ SeenOK(c, check[c])
       /\ check[c].item \in ItemRow /\ check[c].summary \in {Blank, "provided"}

ChecksOK ==
    /\ check = [c \in Checks |-> check[c]]
    /\ \A c, d \in Checks : d < c /\ Started(c) => Started(d)
    /\ \A c \in Checks : CheckOK(c)

\* A plan changes something, and a summary only to a provided one.
PlanOK(p) ==
    /\ p \in Plans /\ p.fields # {} /\ Succeeded(p.check)
    /\ "summary" \in p.fields => /\ check[p.check].summary = "provided"
                                 /\ check[p.check].item.summary # "provided"

\* Only a written plan has a task.
TasksOK ==
    /\ mtask = [p \in Plans |-> mtask[p]]
    /\ \A p \in Plans : mtask[p] # NoTask => p \in uwritten

URequestFields == {"pc", "plan", "pre", "report", "seen"}

\* Until the look after it, a request remembers the rows its check has seen.
URequestOK(r) ==
    /\ URequestFields \subseteq DOMAIN ureq[r]
    /\ ureq[r].pc = "idle" => ureq[r] = UIdle
    /\ ureq[r].pc # "idle" => ThePlan(r) \in signed
    /\ ureq[r].pc # "done" => ureq[r].report = "none"
    /\ ureq[r].pc \in {"inspect", "verify"} =>
          ureq[r].pre = [item |-> check[ThePlan(r).check].item,
                         source |-> check[ThePlan(r).check].source]

\* What is in the database while the fields of a plan stand.
FieldsStand(p) ==
    LET s == check[p.check].sourceId IN
    /\ sources[s] \in SourceRow /\ sources[s].ident
    /\ "checked" \in p.fields => sources[s].checked >= p.check
    /\ "summary" \in p.fields => items[ItemOf(p.check)].summary = "provided"

Wrote(r) ==
    ureq[r].pc \notin {"idle", "begin", "replay"} /\ ureq[r].report # "refused"

URequestsOK ==
    /\ ureq = [r \in Update |-> ureq[r]]
    /\ \A r \in Update : URequestOK(r)
    /\ ustanding \subseteq Update
    /\ \A r \in ustanding : Wrote(r) /\ FieldsStand(ThePlan(r))

UpdateInv ==
    /\ RowsOK /\ NumbersOK /\ ChecksOK
    /\ \A p \in signed : PlanOK(p)
    /\ TasksOK /\ URequestsOK

----------------------------------------------------------------------------
(* The id of a new row                                                      *)

LEMMA LargestIsThere ==
    ASSUME NEW n \in Nat, NEW S \in SUBSET (0..n), 0 \in S
    PROVE  Max(S) \in S /\ \A x \in S : Max(S) >= x
  <1> DEFINE Bounds == {k \in Nat : \A x \in S : x <= k}
  <1>1. n \in Bounds
    OBVIOUS
  <1>2. PICK k \in Bounds : \A j \in Bounds : <<j, k>> \notin OpToRel(<, Nat)
    BY <1>1, WFMin, NatLessThanWellFounded, Zenon
  <1>3. \A j \in Bounds : ~(j < k)
    BY <1>2, Zenon DEF OpToRel
  <1>4. k \in S
    <2> SUFFICES ASSUME k \notin S PROVE FALSE
      OBVIOUS
    <2>1. k \in Nat /\ k # 0 /\ \A x \in S : x <= k /\ x # k
      OBVIOUS
    <2>2. k - 1 \in Bounds
      BY <2>1
    <2>3. QED
      BY <1>3, <2>1, <2>2
  <1>5. k \in S /\ \A x \in S : k >= x
    BY <1>4
  <1>6. QED
    BY <1>5 DEF Max

LEMMA NewIdIsFree ==
    ASSUME NEW used \in SUBSET (1..MaxId)
    PROVE  NextId(used) \notin used /\ NextId(used) \in Nat \ {0}
  <1> DEFINE S == {0} \cup used
  <1>1. MaxId \in Nat
    BY RowsAssumption
  <1>2. S \in SUBSET (0..MaxId) /\ 0 \in S
    BY <1>1
  <1>3. Max(S) \in S /\ \A x \in S : Max(S) >= x
    BY <1>1, <1>2, LargestIsThere
  <1>4. NextId(used) = 1 + Max(S)
    BY DEF NextId
  <1> HIDE DEF S
  <1>5. Max(S) \in Nat
    <2>1. \A x \in S : x \in Nat
      BY <1>1, <1>2
    <2>2. QED
      BY <1>3, <2>1
  <1>6. \A x \in S : x # 1 + Max(S)
    BY <1>1, <1>2, <1>3, <1>5
  <1>7. QED
    BY <1>4, <1>5, <1>6 DEF S

----------------------------------------------------------------------------
(* The invariant                                                            *)

LEMMA InitUpdateInv == UpdateInit => UpdateInv
  <1> SUFFICES ASSUME UpdateInit PROVE UpdateInv
    OBVIOUS
  <1>1. RowsOK /\ NumbersOK
    <2>1. PICK summary \in {Blank, "local"}, ident \in BOOLEAN, url \in BOOLEAN :
            /\ items = [i \in 1..MaxId |-> IF i = 1
                          THEN [title |-> "own title", summary |-> summary] ELSE NoItem]
            /\ sources = [s \in 1..MaxId |-> IF s = 1 /\ (ident \/ url)
                            THEN [item |-> 1, ident |-> ident, url |-> url, checked |-> 0, hash |-> 0]
                            ELSE NoSource]
      BY DEF UpdateInit, RowsInit
    <2> DEFINE row == [item |-> 1, ident |-> ident, url |-> url, checked |-> 0, hash |-> 0]
               item == [title |-> "own title", summary |-> summary]
    <2>2. MaxId \in Nat /\ MaxFetch \in Nat
      BY RowsAssumption
    <2>3. 1 \in 1..MaxId => row \in SourceRow
      BY <2>2 DEF SourceRow
    <2>4. row.checked = 0
      OBVIOUS
    <2>5. item \in ItemRow
      BY DEF ItemRow, Titles, Summaries
    <2> HIDE DEF row, item
    <2>6. \A s \in 1..MaxId : sources[s] = NoSource \/ (s = 1 /\ sources[s] = row)
      BY <2>1 DEF row
    <2>7. sources \in [1..MaxId -> SourceRow \cup {NoSource}]
      <3>1. sources = [s \in 1..MaxId |-> sources[s]]
        BY <2>1
      <3>2. QED
        BY <2>3, <2>6, <3>1
    <2>8. items \in [1..MaxId -> ItemRow \cup {NoItem}]
      BY <2>1, <2>5 DEF item
    <2>9. QED
      BY <2>4, <2>6, <2>7, <2>8 DEF RowsOK, NumbersOK, SourceIds
  <1>2. ChecksOK
    BY DEF UpdateInit, UpdateStart, ChecksOK, CheckOK, Started, NoCheck
  <1>3. TasksOK
    BY DEF UpdateInit, UpdateStart, TasksOK
  <1>4. URequestsOK
    BY DEF UpdateInit, UpdateStart, URequestsOK, URequestOK, URequestFields, UIdle
  <1>5. QED
    BY <1>1, <1>2, <1>3, <1>4 DEF UpdateInv, UpdateInit, UpdateStart

----------------------------------------------------------------------------
\* A check is never forgotten as started, nor what it saw once it succeeded.
SeenStays(c) ==
    /\ Started(c) => Started(c)'
    /\ Succeeded(c) => /\ Succeeded(c)'
                       /\ check'[c].sourceId = check[c].sourceId
                       /\ check'[c].source = check[c].source
                       /\ check'[c].item = check[c].item
                       /\ check'[c].summary = check[c].summary

LEMMA CheckNumbers == Checks \subseteq Nat \ {0} /\ Checks \subseteq 0..MaxFetch
  <1>1. MaxFetch \in Nat /\ MaxChecks \in 1..MaxFetch
    BY RowsAssumption, UpdateAssumption
  <1>2. QED
    BY <1>1 DEF Checks

LEMMA PlanFacts ==
    ASSUME UpdateInv, NEW p \in signed
    PROVE  /\ PlanOK(p) /\ p.check \in Checks /\ p.fields \subseteq MANUAL_UPDATE_FIELDS
           /\ CheckOK(p.check) /\ SeenOK(p.check, check[p.check]) /\ Succeeded(p.check)
           /\ check[p.check].item \in ItemRow
           /\ ItemOf(p.check) \in 1..MaxId
  <1>1. PlanOK(p) /\ p.check \in Checks /\ p.fields \subseteq MANUAL_UPDATE_FIELDS
    BY DEF UpdateInv, PlanOK, Plans
  <1>2. CheckOK(p.check) /\ Succeeded(p.check)
    BY <1>1 DEF UpdateInv, ChecksOK, PlanOK
  <1>3. SeenOK(p.check, check[p.check]) /\ check[p.check].item \in ItemRow
    BY <1>2 DEF CheckOK, Succeeded
  <1>4. QED
    BY <1>1, <1>2, <1>3 DEF SeenOK, SourceRow, ItemOf

\* A step that leaves the rows alone.
LEMMA Beside ==
    ASSUME UpdateInv, UNCHANGED <<items, sources, ustanding, uwritten>>,
           \A c \in Checks : SeenStays(c), ChecksOK',
           \A p \in signed' : PlanOK(p)', signed \subseteq signed',
           TasksOK', ureq' = [r \in Update |-> ureq'[r]], \A r \in Update : URequestOK(r)',
           \A r \in ustanding : ThePlan(r)' = ThePlan(r) /\ Wrote(r)'
    PROVE  UpdateInv'
  <1>1. RowsOK'
    BY DEF UpdateInv, RowsOK
  <1>2. NumbersOK'
    BY DEF UpdateInv, NumbersOK, SourceIds, SeenStays
  <1>3. ASSUME NEW r \in ustanding PROVE FieldsStand(ThePlan(r))'
    <2>1. r \in Update /\ Wrote(r) /\ FieldsStand(ThePlan(r)) /\ URequestOK(r)
      BY <1>3 DEF UpdateInv, URequestsOK
    <2>2. ThePlan(r) \in signed
      BY <2>1 DEF URequestOK, Wrote
    <2>3. ThePlan(r).check \in Checks /\ Succeeded(ThePlan(r).check)
      BY <2>2, PlanFacts
    <2>4. SeenStays(ThePlan(r).check)
      BY <2>3
    <2>5. ThePlan(r)' = ThePlan(r)
      OBVIOUS
    <2> DEFINE p == ThePlan(r)
    <2>6. ItemOf(p.check)' = ItemOf(p.check) /\ check'[p.check].sourceId = check[p.check].sourceId
      BY <2>3, <2>4, <2>5 DEF SeenStays, ItemOf
    <2> HIDE DEF p
    <2>7. p' = p
      BY <2>5 DEF p
    <2>8. FieldsStand(p)
      BY <2>1 DEF p
    <2>9. FieldsStand(p)'
      BY <2>6, <2>7, <2>8 DEF FieldsStand
    <2>10. QED
      BY <2>9 DEF p
  <1>4. URequestsOK'
    BY <1>3 DEF UpdateInv, URequestsOK
  <1>5. QED
    BY <1>1, <1>2, <1>4 DEF UpdateInv

LEMMA RequestCarries ==
    ASSUME UpdateInv, NEW r \in Update, ureq'[r] = ureq[r], signed \subseteq signed',
           \A c \in Checks : SeenStays(c)
    PROVE  URequestOK(r)' /\ (Wrote(r)' <=> Wrote(r)) /\ ThePlan(r)' = ThePlan(r)
  <1>1. URequestOK(r)
    BY DEF UpdateInv, URequestsOK
  <1>2. ThePlan(r)' = ThePlan(r) /\ (Wrote(r)' <=> Wrote(r))
    BY DEF ThePlan, Wrote
  <1>3. CASE ureq[r].pc = "idle"
    BY <1>1, <1>2, <1>3 DEF URequestOK, UIdle
  <1>4. CASE ureq[r].pc # "idle"
    <2>1. ThePlan(r) \in signed
      BY <1>1, <1>4 DEF URequestOK
    <2>2. SeenStays(ThePlan(r).check) /\ Succeeded(ThePlan(r).check)
      BY <2>1, PlanFacts
    <2> DEFINE c == ThePlan(r).check
    <2>3. check'[c].source = check[c].source /\ check'[c].item = check[c].item
      BY <2>2 DEF SeenStays
    <2> HIDE DEF c
    <2>4. ThePlan(r)'.check = c /\ ThePlan(r).check = c
      BY <1>2 DEF c
    <2>5. QED
      BY <1>1, <1>2, <1>4, <2>1, <2>3, <2>4 DEF URequestOK
  <1>5. QED
    BY <1>2, <1>3, <1>4

\* A step that leaves the requests alone as well.
LEMMA RequestsCarry ==
    ASSUME UpdateInv, UNCHANGED <<items, sources, ureq, ustanding, uwritten>>,
           \A c \in Checks : SeenStays(c), ChecksOK',
           \A p \in signed' : PlanOK(p)', signed \subseteq signed', TasksOK'
    PROVE  UpdateInv'
  <1>1. \A r \in Update : URequestOK(r)' /\ (Wrote(r)' <=> Wrote(r)) /\ ThePlan(r)' = ThePlan(r)
    BY RequestCarries
  <1>2. \A r \in ustanding : r \in Update /\ Wrote(r)
    BY DEF UpdateInv, URequestsOK
  <1>3. ureq' = [r \in Update |-> ureq'[r]]
    BY DEF UpdateInv, URequestsOK
  <1>4. QED
    BY <1>1, <1>2, <1>3, Beside

LEMMA PlansCarry ==
    ASSUME UpdateInv, \A c \in Checks : SeenStays(c), NEW p \in signed
    PROVE  PlanOK(p)'
  <1>1. PlanOK(p) /\ p.check \in Checks /\ Succeeded(p.check)
    BY PlanFacts
  <1>2. SeenStays(p.check)
    BY <1>1
  <1>3. QED
    BY <1>1, <1>2 DEF PlanOK, SeenStays

\* A check goes on: it was not forgotten and its number was next.
LEMMA CheckStep ==
    ASSUME UpdateInv, NEW c \in Checks, NEW v, v # NoCheck,
           check' = [check EXCEPT ![c] = v],
           UNCHANGED <<signed, mtask, ureq, ustanding, uwritten, rowVars>>,
           \A d \in Checks : d < c => Started(d),
           CheckOK(c)', SeenStays(c)
    PROVE  UpdateInv'
  <1>1. check' = [d \in Checks |-> check'[d]] /\ check'[c] = v
        /\ \A d \in Checks : d # c => check'[d] = check[d]
    BY DEF UpdateInv, ChecksOK
  <1>2. \A d \in Checks : SeenStays(d)
    BY <1>1 DEF SeenStays, Started, Succeeded
  <1>3. \A d \in Checks : CheckOK(d)'
    <2> SUFFICES ASSUME NEW d \in Checks, d # c PROVE CheckOK(d)'
      OBVIOUS
    <2>1. check'[d] = check[d] /\ CheckOK(d)
      BY <1>1 DEF UpdateInv, ChecksOK
    <2>2. QED
      BY <2>1 DEF CheckOK, Succeeded
  <1>4. ASSUME NEW e \in Checks, NEW d \in Checks, d < e, Started(e)' PROVE Started(d)'
    BY <1>1, <1>4 DEF Started, UpdateInv, ChecksOK
  <1>5. ChecksOK'
    BY <1>1, <1>3, <1>4 DEF ChecksOK
  <1>6. TasksOK' /\ \A p \in signed' : PlanOK(p)'
    BY <1>2, PlansCarry DEF UpdateInv, TasksOK
  <1>7. QED
    BY <1>2, <1>5, <1>6, RequestsCarry DEF rowVars

LEMMA StartCheckKeeps ==
    ASSUME UpdateInv, NEW c \in Checks, NEW s, StartCheck(c, s)
    PROVE  UpdateInv'
  <1> DEFINE v == [st |-> "running", sourceId |-> s, source |-> sources[s]]
  <1>1. /\ check[c] = NoCheck /\ \A d \in 1..(c - 1) : Started(d)
        /\ s \in SourceIds /\ sources[s].ident /\ check' = [check EXCEPT ![c] = v]
        /\ UNCHANGED <<signed, mtask, ureq, ustanding, uwritten, rowVars>>
    BY DEF StartCheck, Started
  <1>2. v # NoCheck
    BY DEF NoCheck
  <1>3. s \in 1..MaxId /\ sources[s] \in SourceRow
    BY <1>1 DEF SourceIds, UpdateInv, RowsOK
  <1>4. c \in Nat \ {0} /\ sources[s].checked \in 0..MaxFetch /\ MaxFetch \in Nat
    BY <1>3, CheckNumbers, RowsAssumption DEF SourceRow
  <1>5. \A d \in Checks : d < c => Started(d)
    BY <1>1, <1>4, CheckNumbers
  <1>6. sources[s].checked < c
    <2>1. CASE sources[s].checked = 0
      BY <1>4, <2>1
    <2>2. CASE sources[s].checked \in Checks /\ Started(sources[s].checked)
      <3>1. sources[s].checked # c
        BY <1>1, <2>2 DEF Started
      <3>2. ~(c < sources[s].checked)
        BY <1>1, <2>2 DEF Started, UpdateInv, ChecksOK
      <3>3. QED
        BY <1>4, <3>1, <3>2
    <2>3. QED
      BY <1>1, <2>1, <2>2 DEF UpdateInv, NumbersOK
  <1>7. v.st = "running" /\ v.sourceId = s /\ v.source = sources[s]
    OBVIOUS
  <1> HIDE DEF v
  <1>8. check'[c] = v
    BY <1>1 DEF UpdateInv, ChecksOK
  <1>9. CheckOK(c)'
    BY <1>1, <1>3, <1>6, <1>7, <1>8 DEF CheckOK, SeenOK
  <1>10. SeenStays(c)
    BY <1>1, <1>2, <1>8 DEF SeenStays, Started, Succeeded, NoCheck
  <1>11. QED
    BY <1>1, <1>2, <1>5, <1>9, <1>10, CheckStep

LEMMA StartedBefore ==
    ASSUME UpdateInv, NEW c \in Checks, check[c].st # "none"
    PROVE  \A d \in Checks : d < c => Started(d)
  BY DEF UpdateInv, ChecksOK, Started, NoCheck

LEMMA SucceedCheckKeeps ==
    ASSUME UpdateInv, NEW c \in Checks, NEW summary \in {Blank, "provided"}, SucceedCheck(c, summary)
    PROVE  UpdateInv'
  <1> DEFINE i == check[c].source.item
             v == [st |-> "succeeded", sourceId |-> check[c].sourceId,
                   source |-> check[c].source, item |-> items[i], edits |-> edits,
                   summary |-> summary, fresh |-> TRUE, kept |-> TRUE]
  <1>1. /\ check[c].st = "running" /\ items[i] # NoItem /\ check' = [check EXCEPT ![c] = v]
        /\ UNCHANGED <<signed, mtask, ureq, ustanding, uwritten, rowVars>>
    BY DEF SucceedCheck
  <1>2. SeenOK(c, check[c])
    BY <1>1 DEF UpdateInv, ChecksOK, CheckOK, Succeeded
  <1>3. i \in 1..MaxId
    BY <1>2 DEF SeenOK, SourceRow
  <1>4. items[i] \in ItemRow
    BY <1>1, <1>3 DEF UpdateInv, RowsOK
  <1>5. /\ v.st = "succeeded" /\ v.sourceId = check[c].sourceId /\ v.source = check[c].source
        /\ v.item = items[i] /\ v.summary = summary
        /\ SeenFields \subseteq DOMAIN v
    BY DEF SeenFields
  <1> HIDE DEF v, i
  <1>6. v # NoCheck
    BY <1>5 DEF NoCheck
  <1>7. check'[c] = v
    BY <1>1 DEF UpdateInv, ChecksOK
  <1>8. CheckOK(c)'
    BY <1>2, <1>4, <1>5, <1>7 DEF CheckOK, SeenOK, Succeeded
  <1>9. SeenStays(c)
    BY <1>1, <1>6, <1>7 DEF SeenStays, Started, Succeeded
  <1>10. QED
    BY <1>1, <1>6, <1>8, <1>9, StartedBefore, CheckStep

LEMMA FailCheckKeeps ==
    ASSUME UpdateInv, NEW c \in Checks, FailCheck(c)
    PROVE  UpdateInv'
  <1> DEFINE v == [st |-> "ended"]
  <1>1. /\ check[c].st = "running" /\ check' = [check EXCEPT ![c] = v]
        /\ UNCHANGED <<signed, mtask, ureq, ustanding, uwritten, rowVars>>
    BY DEF FailCheck
  <1>2. v.st = "ended" /\ v # NoCheck
    BY DEF NoCheck
  <1> HIDE DEF v
  <1>3. check'[c] = v
    BY <1>1 DEF UpdateInv, ChecksOK
  <1>4. CheckOK(c)' /\ SeenStays(c)
    BY <1>1, <1>2, <1>3 DEF CheckOK, SeenStays, Started, Succeeded
  <1>5. QED
    BY <1>1, <1>2, <1>4, StartedBefore, CheckStep

LEMMA AgedFact ==
    ASSUME NEW x, SeenFields \subseteq DOMAIN x,
           NEW y, y = [x EXCEPT !.fresh = FALSE] \/ y = [x EXCEPT !.kept = FALSE, !.fresh = FALSE]
    PROVE  /\ SeenFields \subseteq DOMAIN y
           /\ y.st = x.st /\ y.sourceId = x.sourceId /\ y.source = x.source
           /\ y.item = x.item /\ y.summary = x.summary
  BY DEF SeenFields

LEMMA AgingFactsKeep ==
    ASSUME UpdateInv, NEW c \in Checks, ExpireFact(c) \/ ForgetCheck(c)
    PROVE  UpdateInv'
  <1>1. /\ check[c].st = "succeeded"
        /\ \/ check' = [check EXCEPT ![c] = [check[c] EXCEPT !.fresh = FALSE]]
           \/ check' = [check EXCEPT ![c] = [check[c] EXCEPT !.kept = FALSE, !.fresh = FALSE]]
        /\ UNCHANGED <<signed, mtask, ureq, ustanding, uwritten, rowVars>>
    BY DEF ExpireFact, ForgetCheck, UpdateInv, ChecksOK
  <1>2. /\ SeenFields \subseteq DOMAIN check[c]
        /\ SeenOK(c, check[c]) /\ check[c].item \in ItemRow
        /\ check[c].summary \in {Blank, "provided"}
    BY <1>1 DEF UpdateInv, ChecksOK, CheckOK, Succeeded
  <1> PICK v : /\ check' = [check EXCEPT ![c] = v]
               /\ \/ v = [check[c] EXCEPT !.fresh = FALSE]
                  \/ v = [check[c] EXCEPT !.kept = FALSE, !.fresh = FALSE]
    BY <1>1, Zenon
  <1>3. /\ SeenFields \subseteq DOMAIN v
        /\ v.st = "succeeded" /\ v.sourceId = check[c].sourceId
        /\ v.source = check[c].source
        /\ v.item = check[c].item /\ v.summary = check[c].summary
    BY <1>1, <1>2, AgedFact
  <1>4. v # NoCheck /\ check'[c] = v
    BY <1>3 DEF NoCheck, UpdateInv, ChecksOK
  <1>5. CheckOK(c)'
    BY <1>2, <1>3, <1>4 DEF CheckOK, SeenOK, Succeeded
  <1>6. SeenStays(c)
    BY <1>1, <1>3, <1>4 DEF SeenStays, Started, Succeeded
  <1>7. QED
    BY <1>1, <1>3, <1>4, <1>5, <1>6, StartedBefore, CheckStep

----------------------------------------------------------------------------
LEMMA UpdatePreviewKeeps ==
    ASSUME UpdateInv, NEW c \in Checks, NEW selected \in SUBSET MANUAL_UPDATE_FIELDS,
           NEW noticed \in BOOLEAN, UpdatePreview(c, selected, noticed)
    PROVE  UpdateInv'
  <1> PICK fields : fields = ChangedFields(c, selected)
    OBVIOUS
  <1> PICK p : p = [check |-> c, fields |-> fields]
    OBVIOUS
  <1>1. /\ Succeeded(c) /\ fields # {} /\ signed' = signed \cup {p}
        /\ items[ItemOf(c)] = check[c].item
        /\ UNCHANGED <<check, mtask, ureq, ustanding, uwritten, rowVars>>
    BY DEF UpdatePreview, SnapshotsHold, Succeeded
  <1>2. fields \subseteq MANUAL_UPDATE_FIELDS
    BY DEF ChangedFields
  <1>3. p \in Plans /\ p.check = c /\ p.fields = fields
    BY <1>2 DEF Plans
  <1>4. check[c].summary \in {Blank, "provided"}
    BY <1>1 DEF UpdateInv, ChecksOK, CheckOK, Succeeded
  <1>5. "summary" \in fields => /\ check[c].summary = "provided"
                                /\ check[c].item.summary # "provided"
    BY <1>1, <1>4 DEF ChangedFields, Current, New
  <1>6. PlanOK(p)'
    BY <1>1, <1>3, <1>5 DEF PlanOK, Succeeded
  <1>7. \A d \in Checks : SeenStays(d)
    BY <1>1 DEF SeenStays, Started, Succeeded
  <1>8. \A q \in signed' : PlanOK(q)'
    BY <1>1, <1>6, <1>7, PlansCarry
  <1>9. ChecksOK' /\ TasksOK'
    BY <1>1 DEF UpdateInv, ChecksOK, CheckOK, Started, Succeeded, TasksOK
  <1>10. QED
    BY <1>1, <1>7, <1>8, <1>9, RequestsCarry DEF rowVars

\* A step of one request that leaves the rows alone.
LEMMA URequestStep ==
    ASSUME UpdateInv, NEW r \in Update, NEW v, ureq' = [ureq EXCEPT ![r] = v],
           UNCHANGED <<check, signed, ustanding, uwritten, rowVars>>, TasksOK',
           URequestOK(r)', r \in ustanding => v.plan = ThePlan(r) /\ Wrote(r)'
    PROVE  UpdateInv'
  <1>1. /\ ureq' = [q \in Update |-> ureq'[q]] /\ ureq'[r] = v
        /\ \A q \in Update : q # r => ureq'[q] = ureq[q]
    BY DEF UpdateInv, URequestsOK
  <1>2. \A d \in Checks : SeenStays(d)
    BY DEF SeenStays, Started, Succeeded
  <1>3. ChecksOK' /\ \A q \in signed' : PlanOK(q)'
    BY <1>2, PlansCarry DEF UpdateInv, ChecksOK, CheckOK, Started, Succeeded
  <1>4. ASSUME NEW q \in Update, q # r
        PROVE  URequestOK(q)' /\ (Wrote(q)' <=> Wrote(q)) /\ ThePlan(q)' = ThePlan(q)
    <2>1. ureq'[q] = ureq[q]
      BY <1>1, <1>4
    <2>2. QED
      BY <1>2, <2>1, RequestCarries
  <1>5. \A q \in Update : URequestOK(q)'
    BY <1>4
  <1>6. ASSUME NEW q \in ustanding PROVE ThePlan(q)' = ThePlan(q) /\ Wrote(q)'
    <2>1. q \in Update /\ Wrote(q)
      BY DEF UpdateInv, URequestsOK
    <2>2. CASE q = r
      BY <1>1, <1>6, <2>2 DEF ThePlan
    <2>3. CASE q # r
      BY <1>4, <2>1, <2>3
    <2>4. QED
      BY <2>2, <2>3
  <1>7. UNCHANGED <<items, sources>>
    BY DEF rowVars
  <1>8. QED
    BY <1>1, <1>2, <1>3, <1>5, <1>6, <1>7, Beside

LEMMA RequestShape ==
    ASSUME UpdateInv, NEW r \in Update
    PROVE  URequestOK(r) /\ URequestFields \subseteq DOMAIN ureq[r] /\ ureq = [q \in Update |-> ureq[q]]
  BY DEF UpdateInv, URequestsOK, URequestOK

\* Requests that only go on to another step, or that end.
LEMMA GoKeeps ==
    ASSUME UpdateInv, NEW r \in Update, NEW pc \in {"replay", "verify", "succeed", "final", "undone"}, Go(r, pc),
           ureq[r].pc \notin {"idle", "done"},
           pc = "verify" => ureq[r].pc = "inspect",
           pc = "replay" => r \notin ustanding,
           UNCHANGED <<check, signed, ustanding, uwritten, rowVars>>, TasksOK'
    PROVE  UpdateInv'
  <1> DEFINE v == [ureq[r] EXCEPT !.pc = pc]
  <1>1. ureq' = [ureq EXCEPT ![r] = v]
    BY DEF Go
  <1>2. /\ URequestFields \subseteq DOMAIN v /\ v.pc = pc /\ v.plan = ureq[r].plan
        /\ v.pre = ureq[r].pre /\ v.report = ureq[r].report
    BY RequestShape DEF URequestFields
  <1> HIDE DEF v
  <1>3. ureq'[r] = v
    BY <1>1, RequestShape
  <1>4. URequestOK(r)'
    BY <1>2, <1>3, RequestShape DEF URequestOK, ThePlan
  <1>5. r \in ustanding => v.plan = ThePlan(r) /\ Wrote(r)'
    BY <1>2, <1>3 DEF ThePlan, Wrote, UpdateInv, URequestsOK
  <1>6. QED
    BY <1>1, <1>4, <1>5, URequestStep

LEMMA TellKeeps ==
    ASSUME UpdateInv, NEW r \in Update, NEW report, NEW seen, report # "refused",
           TellSeeing(r, report, seen),
           ureq[r].pc \notin {"idle", "done"},
           UNCHANGED <<check, signed, ustanding, uwritten, rowVars>>, TasksOK'
    PROVE  UpdateInv'
  <1> DEFINE v == [ureq[r] EXCEPT !.pc = "done", !.report = report, !.pre = NoPre, !.seen = seen]
  <1>1. ureq' = [ureq EXCEPT ![r] = v]
    BY RequestShape DEF TellSeeing
  <1>2. URequestFields \subseteq DOMAIN v /\ v.pc = "done" /\ v.plan = ureq[r].plan /\ v.report = report
    BY RequestShape DEF URequestFields
  <1> HIDE DEF v
  <1>3. ureq'[r] = v
    BY <1>1, RequestShape
  <1>4. URequestOK(r)'
    BY <1>2, <1>3, RequestShape DEF URequestOK, ThePlan
  <1>5. v.plan = ThePlan(r) /\ Wrote(r)'
    BY <1>2, <1>3 DEF ThePlan, Wrote
  <1>6. QED
    BY <1>1, <1>4, <1>5, URequestStep

LEMMA UpdateConfirmKeeps ==
    ASSUME UpdateInv, NEW r \in Update, NEW p \in signed, NEW accepted \in BOOLEAN,
           UpdateConfirm(r, p, accepted)
    PROVE  UpdateInv'
  <1> PICK v : v = [pc |-> IF accepted THEN "begin" ELSE "done", plan |-> p, pre |-> NoPre,
                    report |-> IF accepted THEN "none" ELSE "refused", seen |-> "nothing"]
    OBVIOUS
  <1>1. /\ ureq[r] = UIdle /\ ureq' = [ureq EXCEPT ![r] = v]
        /\ UNCHANGED <<check, signed, mtask, ustanding, uwritten, rowVars>>
    BY RequestShape DEF UpdateConfirm, UIdle
  <1>2. /\ URequestFields \subseteq DOMAIN v /\ v.plan = p
        /\ v.pc \in {"begin", "done"} /\ (v.pc = "begin" => v.report = "none")
    BY DEF URequestFields
  <1>3. ureq'[r] = v
    BY <1>1, RequestShape
  <1>4. URequestOK(r)'
    BY <1>1, <1>2, <1>3 DEF URequestOK, ThePlan
  <1>5. r \notin ustanding
    BY <1>1 DEF UpdateInv, URequestsOK, Wrote, UIdle
  <1>6. TasksOK'
    BY <1>1 DEF UpdateInv, TasksOK
  <1>7. QED
    BY <1>1, <1>4, <1>5, <1>6, URequestStep

LEMMA TasksSame ==
    ASSUME UpdateInv, UNCHANGED <<mtask, uwritten>>
    PROVE  TasksOK'
  BY DEF UpdateInv, TasksOK

LEMMA TaskChanged ==
    ASSUME UpdateInv, NEW p, NEW task, mtask[p] # NoTask \/ task = NoTask,
           mtask' = [mtask EXCEPT ![p] = task], UNCHANGED uwritten
    PROVE  TasksOK'
  BY DEF UpdateInv, TasksOK

LEMMA NotWrittenYet ==
    ASSUME UpdateInv, NEW r \in Update, ureq[r].pc \in {"idle", "begin", "replay"}
    PROVE  r \notin ustanding
  BY DEF UpdateInv, URequestsOK, Wrote

LEMMA FirstStepsKeep ==
    ASSUME UpdateInv, NEW r \in Update, NEW noticed,
           UpdateBeginFails(r) \/ Replay(r) \/ StalePlan(r, noticed)
    PROVE  UpdateInv'
  <1>1. /\ ureq[r].pc = "begin"
        /\ UNCHANGED <<check, signed, mtask, ustanding, uwritten, rowVars>>
    BY DEF UpdateBeginFails, Replay, StalePlan
  <1>2. TasksOK' /\ r \notin ustanding
    BY <1>1, TasksSame, NotWrittenYet
  <1>3. \/ Go(r, "replay")
        \/ \E report \in {"write_failed", "stale_plan"} : Tell(r, report)
    BY DEF UpdateBeginFails, Replay, StalePlan
  <1>4. CASE Go(r, "replay")
    BY <1>1, <1>2, <1>4, GoKeeps
  <1>5. ASSUME NEW report \in {"write_failed", "stale_plan"}, Tell(r, report) PROVE UpdateInv'
    BY <1>1, <1>2, <1>5, TellKeeps DEF Tell
  <1>6. QED
    BY <1>3, <1>4, <1>5

LEMMA LooksKeep ==
    ASSUME UpdateInv, NEW r \in Update, NEW ok \in BOOLEAN,
           EndReplay(r, ok) \/ FirstLook(r, ok) \/ FinalLook(r, ok)
    PROVE  UpdateInv'
  <1>1. /\ ureq[r].pc \in {"replay", "inspect", "verify", "final"}
        /\ UNCHANGED <<check, signed, mtask, ustanding, uwritten, rowVars>>
    BY DEF EndReplay, FirstLook, FinalLook
  <1>2. TasksOK'
    BY <1>1, TasksSame
  <1>3. \/ ureq[r].pc = "inspect" /\ Go(r, "verify")
        \/ \E pc \in {"succeed", "undone"} : Go(r, pc)
        \/ \E report \in {"already_applied_verified", "outcome_unknown", "write_failed", "committed_verified"} : Tell(r, report)
    BY DEF EndReplay, FirstLook, FinalLook
  <1>4. CASE ureq[r].pc = "inspect" /\ Go(r, "verify")
    BY <1>1, <1>2, <1>4, GoKeeps
  <1>5. ASSUME NEW pc \in {"succeed", "undone"}, Go(r, pc) PROVE UpdateInv'
    BY <1>1, <1>2, <1>5, GoKeeps
  <1>6. ASSUME NEW report \in {"already_applied_verified", "outcome_unknown", "write_failed", "committed_verified"},
               Tell(r, report)
        PROVE  UpdateInv'
    BY <1>1, <1>2, <1>6, TellKeeps DEF Tell
  <1>7. QED
    BY <1>3, <1>4, <1>5, <1>6

LEMMA MarkSucceededKeeps ==
    ASSUME UpdateInv, NEW r \in Update, NEW durable \in BOOLEAN, MarkSucceeded(r, durable)
    PROVE  UpdateInv'
  <1>1. /\ ureq[r].pc = "succeed" /\ Go(r, "final")
        /\ UNCHANGED <<check, signed, ustanding, uwritten, rowVars>>
    BY DEF MarkSucceeded
  <1>2. TasksOK'
    <2>1. CASE durable /\ MayMark(r)
      <3>1. TheTask(r) # NoTask
        BY <2>1 DEF MayMark, NoTask, TaskAt
      <3>2. \E task : mtask' = [mtask EXCEPT ![ThePlan(r)] = task]
        BY <2>1 DEF MarkSucceeded
      <3>3. QED
        BY <1>1, <3>1, <3>2, TaskChanged DEF TheTask
    <2>2. CASE ~(durable /\ MayMark(r))
      BY <1>1, <2>2, TasksSame DEF MarkSucceeded
    <2>3. QED
      BY <2>1, <2>2
  <1>3. QED
    BY <1>1, <1>2, GoKeeps

LEMMA LastLookKeeps ==
    ASSUME UpdateInv, NEW r \in Update, NEW ok \in BOOLEAN, NEW marked \in BOOLEAN, LastLook(r, ok, marked)
    PROVE  UpdateInv'
  <1>1. /\ ureq[r].pc = "undone"
        /\ UNCHANGED <<check, signed, ustanding, uwritten, rowVars>>
        /\ \E report \in {"write_failed", "outcome_unknown"}, seen \in {"nothing", "written"} :
              TellSeeing(r, report, seen)
    BY DEF LastLook, Tell
  <1>2. \/ mtask' = mtask
        \/ /\ TheTask(r) = TaskAt("succeeded", "committed_verified", 3)
           /\ \E task : mtask' = [mtask EXCEPT ![ThePlan(r)] = task]
    BY DEF LastLook
  <1>3. TaskAt("succeeded", "committed_verified", 3) # NoTask
    BY DEF TaskAt, NoTask
  <1>4. TasksOK'
    BY <1>1, <1>2, <1>3, TasksSame, TaskChanged DEF TheTask
  <1>5. QED
    BY <1>1, <1>4, TellKeeps

LEMMA TaskPagesKeep ==
    ASSUME UpdateInv, NEW p \in Plans, PauseTask(p) \/ DeleteTask(p)
    PROVE  UpdateInv'
  <1>1. /\ mtask[p].state \in {"running", "succeeded"}
        /\ mtask' = [q \in Plans |-> mtask'[q]] /\ \A q \in Plans : q # p => mtask'[q] = mtask[q]
        /\ UNCHANGED <<check, signed, ureq, ustanding, uwritten, rowVars>>
    BY DEF PauseTask, DeleteTask, UpdateInv, TasksOK
  <1>2. mtask[p] # NoTask
    BY <1>1 DEF NoTask, TaskAt
  <1>3. TasksOK'
    BY <1>1, <1>2 DEF UpdateInv, TasksOK
  <1>4. \A d \in Checks : SeenStays(d)
    BY <1>1 DEF SeenStays, Started, Succeeded
  <1>5. ChecksOK' /\ \A q \in signed' : PlanOK(q)'
    BY <1>1, <1>4, PlansCarry DEF UpdateInv, ChecksOK, CheckOK, Started, Succeeded
  <1>6. QED
    BY <1>1, <1>3, <1>4, <1>5, RequestsCarry DEF rowVars

LEMMA RestartKeeps ==
    ASSUME UpdateInv, Restart
    PROVE  UpdateInv'
  <1>1. /\ ureq' = [r \in Update |-> IF ureq[r].pc \in {"idle", "done"} THEN ureq[r]
                                    ELSE [ureq[r] EXCEPT !.pc = "done", !.pre = NoPre]]
        /\ mtask' = [p \in Plans |-> IF mtask[p].state = "running"
                      THEN [mtask[p] EXCEPT !.state = "paused", !.version = @ + 1] ELSE mtask[p]]
        /\ check' = [c \in Checks |-> IF check[c].st = "running" THEN [st |-> "ended"] ELSE check[c]]
        /\ UNCHANGED <<signed, ustanding, uwritten, items, sources>>
    BY DEF Restart, rowVars
  <1>2. \A c \in Checks : SeenStays(c)
    BY <1>1 DEF SeenStays, Started, Succeeded, NoCheck
  <1>3. ChecksOK'
    <2>1. \A c \in Checks : CheckOK(c)'
      BY <1>1 DEF UpdateInv, ChecksOK, CheckOK, Succeeded
    <2>2. ASSUME NEW c \in Checks PROVE Started(c)' <=> Started(c)
      <3>1. CASE check[c].st = "running"
        <4>1. check'[c].st = "ended"
          BY <1>1, <3>1
        <4>2. QED
          BY <3>1, <4>1 DEF Started, NoCheck
      <3>2. CASE check[c].st # "running"
        BY <1>1, <3>2 DEF Started
      <3>3. QED
        BY <3>1, <3>2
    <2>3. QED
      BY <1>1, <2>1, <2>2 DEF UpdateInv, ChecksOK
  <1>4. TasksOK'
    <2>1. ASSUME NEW p \in Plans, mtask'[p] # NoTask PROVE mtask[p] # NoTask
      <3>1. CASE mtask[p].state = "running"
        BY <3>1 DEF NoTask, TaskAt
      <3>2. CASE mtask[p].state # "running"
        BY <1>1, <2>1, <3>2
      <3>3. QED
        BY <3>1, <3>2
    <2>2. mtask' = [p \in Plans |-> mtask'[p]]
      BY <1>1
    <2>3. QED
      BY <1>1, <2>1, <2>2 DEF UpdateInv, TasksOK
  <1>5. \A p \in signed' : PlanOK(p)'
    BY <1>1, <1>2, PlansCarry
  <1>6. ASSUME NEW r \in Update
        PROVE  URequestOK(r)' /\ ThePlan(r)' = ThePlan(r) /\ (Wrote(r) => Wrote(r)')
    <2>1. CASE ureq[r].pc \in {"idle", "done"}
      <3>1. ureq'[r] = ureq[r]
        BY <1>1, <2>1
      <3>2. QED
        BY <1>1, <1>2, <3>1, RequestCarries
    <2>2. CASE ureq[r].pc \notin {"idle", "done"}
      <3> PICK v : v = [ureq[r] EXCEPT !.pc = "done", !.pre = NoPre]
        OBVIOUS
      <3>1. ureq'[r] = v
        BY <1>1, <2>2
      <3>2. /\ URequestFields \subseteq DOMAIN v /\ v.pc = "done" /\ v.plan = ureq[r].plan
            /\ v.report = ureq[r].report
        BY RequestShape DEF URequestFields
      <3>3. URequestOK(r)'
        <4>1. ThePlan(r) \in signed' /\ ThePlan(r)' = v.plan /\ v.plan = ThePlan(r)
          BY <1>1, <2>2, <3>1, <3>2, RequestShape DEF URequestOK, ThePlan
        <4>2. QED
          BY <3>1, <3>2, <4>1 DEF URequestOK
      <3>4. ThePlan(r)' = ThePlan(r)
        BY <3>1, <3>2 DEF ThePlan
      <3>5. Wrote(r) => Wrote(r)'
        BY <3>1, <3>2 DEF Wrote
      <3>6. QED
        BY <3>3, <3>4, <3>5
    <2>3. QED
      BY <2>1, <2>2
  <1>7. ureq' = [r \in Update |-> ureq'[r]]
    BY <1>1
  <1>8. QED
    BY <1>1, <1>2, <1>3, <1>4, <1>5, <1>6, <1>7, Beside DEF UpdateInv, URequestsOK

----------------------------------------------------------------------------
\* What a write finds and leaves.
LEMMA WriteFacts ==
    ASSUME UpdateInv, NEW r \in Update, NEW outcome \in {"ok", "failed", "lost"}, NEW noticed,
           WriteFields(r, outcome, noticed)
    PROVE  LET p == ThePlan(r)
               i == ItemOf(p.check)
               s == check[p.check].sourceId
           IN  /\ r \notin ustanding /\ p \in signed /\ i \in 1..MaxId /\ s \in 1..MaxId
               /\ items[i] = check[p.check].item /\ sources[s] = check[p.check].source
               /\ items[i] \in ItemRow /\ sources[s] \in SourceRow
               /\ sources[s].ident /\ sources[s].checked < p.check
               /\ ureq[r].pc = "begin" /\ ureq[r].report = "none"
               /\ mtask[p] = NoTask
               /\ UNCHANGED <<check, signed>>
  <1>1. /\ ureq[r].pc = "begin" /\ SnapshotsHold(ThePlan(r).check, noticed) /\ TheTask(r) = NoTask
        /\ UNCHANGED <<check, signed>>
    BY DEF WriteFields, Existing
  <1>2. r \notin ustanding
    BY <1>1, NotWrittenYet
  <1>3. ThePlan(r) \in signed /\ ureq[r].report = "none"
    BY <1>1, RequestShape DEF URequestOK
  <1>4. QED
    BY <1>1, <1>2, <1>3, PlanFacts DEF SnapshotsHold, SeenOK, TheTask

LEMMA WriteRequest ==
    ASSUME UpdateInv, NEW r \in Update, NEW outcome \in {"ok", "failed", "lost"}, NEW noticed,
           WriteFields(r, outcome, noticed)
    PROVE  \E v : /\ ureq' = [ureq EXCEPT ![r] = v]
                  /\ ureq' = [q \in Update |-> ureq'[q]] /\ ureq'[r] = v
                  /\ \A q \in Update : q # r => ureq'[q] = ureq[q]
                  /\ v.plan = ThePlan(r) /\ v.report = "none" /\ v.seen = ureq[r].seen
                  /\ v.pc \in {"verify", "inspect"}
                  /\ URequestOK(r)' /\ Wrote(r)'
  <1> PICK i, s : i = ItemOf(ThePlan(r).check) /\ s = check[ThePlan(r).check].sourceId
    OBVIOUS
  <1> PICK v : v = [ureq[r] EXCEPT !.pc = IF outcome = "ok" THEN "verify" ELSE "inspect",
                                   !.pre = [item |-> items[i], source |-> sources[s]]]
    OBVIOUS
  <1>1. ureq' = [ureq EXCEPT ![r] = v]
    BY RequestShape DEF WriteFields
  <1>2. /\ URequestFields \subseteq DOMAIN v /\ v.plan = ureq[r].plan /\ v.report = ureq[r].report
        /\ v.seen = ureq[r].seen
        /\ v.pc \in {"verify", "inspect"} /\ v.pre = [item |-> items[i], source |-> sources[s]]
    BY RequestShape DEF URequestFields
  <1>3. /\ ureq' = [q \in Update |-> ureq'[q]] /\ ureq'[r] = v
        /\ \A q \in Update : q # r => ureq'[q] = ureq[q]
    BY <1>1, RequestShape
  <1>4. /\ ThePlan(r) \in signed /\ ureq[r].report = "none" /\ UNCHANGED <<check, signed>>
        /\ items[i] = check[ThePlan(r).check].item /\ sources[s] = check[ThePlan(r).check].source
    BY WriteFacts
  <1>5. ThePlan(r)' = v.plan /\ v.plan = ThePlan(r)
    BY <1>2, <1>3 DEF ThePlan
  <1>6. URequestOK(r)'
    BY <1>2, <1>3, <1>4, <1>5 DEF URequestOK
  <1>7. Wrote(r)'
    BY <1>2, <1>3, <1>4 DEF Wrote
  <1>8. v.plan = ThePlan(r) /\ v.report = "none" /\ v.seen = ureq[r].seen /\ v.pc \in {"verify", "inspect"}
    BY <1>2, <1>4, <1>5
  <1>9. QED
    BY <1>1, <1>3, <1>6, <1>7, <1>8, Zenon

LEMMA WrittenItem ==
    ASSUME NEW p, NEW item \in ItemRow, "summary" \in p.fields => New(p.check, "summary") = "provided"
    PROVE  LET it == WithFields(p, item) IN
           /\ it \in ItemRow /\ it.title = item.title
           /\ it.summary = item.summary \/ it.summary = "provided"
           /\ "summary" \in p.fields => it.summary = "provided"
  <1>1. CASE "summary" \in p.fields
    <2>1. PICK x : x = [item EXCEPT !.summary = "provided"]
      OBVIOUS
    <2>2. WithFields(p, item) = x
      BY <1>1, <2>1 DEF WithFields
    <2>3. x \in ItemRow /\ x.title = item.title /\ x.summary = "provided"
      BY <2>1 DEF ItemRow, Summaries
    <2>4. QED
      BY <2>2, <2>3
  <1>2. CASE "summary" \notin p.fields
    BY <1>2 DEF WithFields
  <1>3. QED
    BY <1>1, <1>2

LEMMA WrittenSource ==
    ASSUME NEW p, p.check \in 0..MaxFetch, NEW source \in SourceRow, source.checked < p.check
    PROVE  LET row == WithTracking(p, source) IN
           /\ row \in SourceRow /\ row.ident = source.ident
           /\ row.checked = source.checked \/ row.checked = p.check
           /\ row.checked >= source.checked
           /\ "checked" \in p.fields => row.checked = p.check
  <1>0. p.check \in Nat /\ source.checked \in Nat
    BY RowsAssumption DEF SourceRow
  <1>1. CASE "checked" \in p.fields
    <2>1. PICK x : x = [source EXCEPT !.checked = p.check]
      OBVIOUS
    <2>2. WithTracking(p, source) = x
      BY <1>1, <2>1 DEF WithTracking
    <2>3. x \in SourceRow /\ x.ident = source.ident /\ x.checked = p.check
      BY <2>1 DEF SourceRow
    <2>4. QED
      BY <1>0, <2>2, <2>3
  <1>2. CASE "checked" \notin p.fields
    BY <1>0, <1>2 DEF WithTracking
  <1>3. QED
    BY <1>1, <1>2

LEMMA WriteFieldsKeeps ==
    ASSUME UpdateInv, NEW r \in Update, NEW outcome \in {"ok", "failed", "lost"}, NEW noticed,
           WriteFields(r, outcome, noticed)
    PROVE  UpdateInv'
  <1>1. PICK v :
           /\ ureq' = [ureq EXCEPT ![r] = v]
           /\ ureq' = [q \in Update |-> ureq'[q]] /\ ureq'[r] = v
           /\ \A q \in Update : q # r => ureq'[q] = ureq[q]
           /\ v.plan = ThePlan(r) /\ v.report = "none" /\ v.pc \in {"verify", "inspect"}
           /\ URequestOK(r)' /\ Wrote(r)'
    BY WriteRequest
  <1> PICK p, c, i, s : /\ p = ThePlan(r) /\ c = p.check
                        /\ i = ItemOf(c) /\ s = check[c].sourceId
    OBVIOUS
  <1>2. /\ r \notin ustanding /\ p \in signed /\ i \in 1..MaxId /\ s \in 1..MaxId
        /\ items[i] = check[c].item /\ sources[s] = check[c].source
        /\ items[i] \in ItemRow /\ sources[s] \in SourceRow
        /\ sources[s].ident /\ sources[s].checked < c
        /\ UNCHANGED <<check, signed>>
    BY WriteFacts
  <1>3. \A d \in Checks : SeenStays(d)
    BY <1>2 DEF SeenStays, Started, Succeeded
  <1>4. CASE outcome = "failed"
    <2>1. UNCHANGED <<check, signed, mtask, ustanding, uwritten, rowVars>>
      BY <1>4 DEF WriteFields, rowVars
    <2>2. TasksOK'
      BY <2>1, TasksSame
    <2>3. QED
      BY <1>1, <1>2, <2>1, <2>2, URequestStep
  <1>5. CASE outcome # "failed"
    <2>1. PICK it, row : it = WithFields(p, items[i]) /\ row = WithTracking(p, sources[s])
      OBVIOUS
    <2>2. /\ items' = [items EXCEPT ![i] = it]
          /\ sources' = [sources EXCEPT ![s] = row]
          /\ mtask' = [mtask EXCEPT ![p] = TaskAt("running", "written", 2)]
          /\ ustanding' = ustanding \cup {r} /\ uwritten' = uwritten \cup {p}
      BY <1>5, <2>1 DEF WriteFields, UpdateInv, RowsOK
    <2>3. /\ PlanOK(p) /\ c \in Checks /\ c \in 0..MaxFetch /\ c # 0 /\ c \in Nat
          /\ Succeeded(c) /\ CheckOK(c)
      BY <1>2, PlanFacts, CheckNumbers
    <2>4. "summary" \in p.fields => New(c, "summary") = "provided"
      BY <2>3 DEF PlanOK, New
    <2>5. /\ it \in ItemRow
          /\ it.summary = items[i].summary \/ it.summary = "provided"
          /\ "summary" \in p.fields => it.summary = "provided"
      BY <1>2, <2>1, <2>4, WrittenItem
    <2>6. /\ row \in SourceRow /\ row.ident
          /\ row.checked = sources[s].checked \/ row.checked = c
          /\ row.checked >= sources[s].checked
          /\ "checked" \in p.fields => row.checked = c
      BY <1>2, <2>1, <2>3, WrittenSource
    <2>7. /\ items'[i] = it /\ sources'[s] = row
          /\ \A j \in 1..MaxId : j # i => items'[j] = items[j]
          /\ \A x \in 1..MaxId : x # s => sources'[x] = sources[x]
          /\ RowsOK'
      BY <1>2, <2>2, <2>5, <2>6 DEF UpdateInv, RowsOK
    <2>8. NumbersOK'
      <3>1. Started(c)
        BY <2>3 DEF Started, Succeeded, NoCheck
      <3>2. \A d \in Checks : Started(d)' <=> Started(d)
        BY <1>2 DEF Started
      <3>3. s \in SourceIds
        BY <1>2 DEF SourceIds, SourceRow, NoSource
      <3>4. ASSUME NEW x \in SourceIds'
            PROVE  \/ sources'[x].checked = 0
                   \/ sources'[x].checked \in Checks /\ Started(sources'[x].checked)
        <4>1. CASE x = s
          <5>1. \/ sources[s].checked = 0
                \/ sources[s].checked \in Checks /\ Started(sources[s].checked)
            BY <3>3 DEF UpdateInv, NumbersOK
          <5>2. QED
            BY <2>3, <2>6, <2>7, <3>1, <4>1, <5>1
        <4>2. CASE x # s
          <5>1. x \in SourceIds /\ sources'[x] = sources[x]
            BY <2>7, <3>4, <4>2 DEF SourceIds
          <5>2. QED
            BY <5>1 DEF UpdateInv, NumbersOK
        <4>3. QED
          BY <4>1, <4>2
      <3>5. QED
        BY <3>2, <3>4 DEF NumbersOK
    <2>9. ChecksOK' /\ \A q \in signed' : PlanOK(q)'
      BY <1>2, <1>3, PlansCarry DEF UpdateInv, ChecksOK, CheckOK, Started, Succeeded
    <2>10. TasksOK'
      BY <2>2 DEF UpdateInv, TasksOK
    <2>11. ASSUME NEW q \in Update PROVE URequestOK(q)' /\ ThePlan(q)' = ThePlan(q) /\ (Wrote(q) => Wrote(q)')
      <3>1. CASE q = r
        BY <1>1, <3>1 DEF ThePlan
      <3>2. CASE q # r
        BY <1>1, <1>2, <1>3, <3>2, RequestCarries
      <3>3. QED
        BY <3>1, <3>2
    <2>12. ASSUME NEW q \in ustanding PROVE Wrote(q)' /\ FieldsStand(ThePlan(q))'
      <3> PICK p2, c2, i2, s2 : /\ p2 = ThePlan(q) /\ c2 = p2.check
                                /\ i2 = ItemOf(c2) /\ s2 = check[c2].sourceId
        OBVIOUS
      <3>1. q \in Update /\ Wrote(q) /\ FieldsStand(p2) /\ p2 \in signed
        BY <2>12, RequestShape DEF UpdateInv, URequestsOK, Wrote, URequestOK
      <3>2. c2 \in Checks /\ i2 \in 1..MaxId /\ s2 \in 1..MaxId /\ c2 \in Nat
        BY <3>1, PlanFacts, CheckNumbers DEF SeenOK
      <3>3. sources'[s2] \in SourceRow /\ sources'[s2].ident /\ sources'[s2].checked >= sources[s2].checked
        <4>1. sources[s2] \in SourceRow /\ sources[s2].ident
          BY <3>1 DEF FieldsStand
        <4>2. sources[s2].checked \in Nat
          BY <4>1, RowsAssumption DEF SourceRow
        <4>3. QED
          BY <2>6, <2>7, <3>2, <4>1, <4>2
      <3>4. "checked" \in p2.fields => sources'[s2].checked >= c2
        <4>1. "checked" \in p2.fields => sources[s2].checked >= c2
          BY <3>1 DEF FieldsStand
        <4>2. sources[s2].checked \in Nat /\ sources'[s2].checked \in Nat
          BY <3>1, <3>3, RowsAssumption DEF FieldsStand, SourceRow
        <4>3. QED
          BY <3>2, <3>3, <4>1, <4>2
      <3>5. "summary" \in p2.fields => items'[i2].summary = "provided"
        BY <2>5, <2>7, <3>1, <3>2 DEF FieldsStand
      <3>6. check' = check /\ ItemOf(c2)' = i2
        BY <1>2 DEF ItemOf
      <3>7. FieldsStand(p2)'
        BY <3>3, <3>4, <3>5, <3>6 DEF FieldsStand
      <3>8. QED
        BY <2>11, <3>1, <3>7
    <2>13. FieldsStand(p)'
      <3>1. check' = check /\ ItemOf(c)' = i
        BY <1>2 DEF ItemOf
      <3>2. "checked" \in p.fields => row.checked >= c
        BY <2>3, <2>6
      <3>3. QED
        BY <2>5, <2>6, <2>7, <3>1, <3>2 DEF FieldsStand
    <2>14. URequestsOK'
      <3>1. ThePlan(r)' = p
        BY <2>11
      <3>2. \A q \in ustanding' : Wrote(q)' /\ FieldsStand(ThePlan(q))'
        BY <1>1, <2>2, <2>12, <2>13, <3>1
      <3>3. QED
        BY <1>1, <2>2, <2>11, <3>2 DEF UpdateInv, URequestsOK
    <2>15. QED
      BY <2>7, <2>8, <2>9, <2>10, <2>14 DEF UpdateInv
  <1>6. QED
    BY <1>4, <1>5

----------------------------------------------------------------------------
\* Pages: a source row stays, goes, or is new under an id that was free.
LEMMA PageRows ==
    ASSUME RowsOK, PageEdit
    PROVE  /\ RowsOK'
           /\ \A s \in 1..MaxId :
                 \/ sources'[s] \in {sources[s], NoSource}
                 \/ s \notin SourceIds /\ sources'[s] \in SourceRow /\ sources'[s].checked = 0
  <1>1. ASSUME NEW i \in 1..MaxId, EditItem(i)
        PROVE  RowsOK' /\ sources' = sources
    <2>1. PICK title \in Titles, summary \in {Blank, "local"} :
              items' = [items EXCEPT ![i] = [title |-> title, summary |-> summary]]
      BY <1>1 DEF EditItem
    <2> PICK item : item = [title |-> title, summary |-> summary]
      OBVIOUS
    <2>2. item \in ItemRow
      BY DEF ItemRow, Summaries
    <2>3. items' = [items EXCEPT ![i] = item] /\ sources' = sources
      BY <1>1, <2>1 DEF EditItem
    <2>4. QED
      BY <2>2, <2>3 DEF RowsOK
  <1>2. ASSUME NEW i \in 1..MaxId, DeleteItem(i)
        PROVE  RowsOK' /\ \A s \in 1..MaxId : sources'[s] \in {sources[s], NoSource}
    BY <1>2 DEF DeleteItem, RowsOK
  <1>3. ASSUME NEW i \in 1..MaxId, AddItemSource(i)
        PROVE  /\ RowsOK'
               /\ \A s \in 1..MaxId :
                     \/ sources'[s] = sources[s]
                     \/ s \notin SourceIds /\ sources'[s] \in SourceRow /\ sources'[s].checked = 0
    <2> PICK row, n : /\ row = [item |-> i, ident |-> FALSE, url |-> TRUE, checked |-> 0, hash |-> 0]
                      /\ n = NextId(SourceIds)
      OBVIOUS
    <2>1. row \in SourceRow /\ row.checked = 0
      BY RowsAssumption DEF SourceRow
    <2>2. sources' = [sources EXCEPT ![n] = row] /\ items' = items
      BY <1>3 DEF AddItemSource
    <2>3. n \notin SourceIds
      BY NewIdIsFree DEF SourceIds
    <2>4. QED
      BY <2>1, <2>2, <2>3 DEF RowsOK
  <1>4. ASSUME NEW s \in 1..MaxId, DeleteItemSource(s)
        PROVE  RowsOK' /\ \A x \in 1..MaxId : sources'[x] \in {sources[x], NoSource}
    BY <1>4 DEF DeleteItemSource, RowsOK
  <1>5. QED
    BY <1>1, <1>2, <1>3, <1>4 DEF PageEdit

LEMMA PageBesideKeeps ==
    ASSUME UpdateInv, PageBeside
    PROVE  UpdateInv'
  <1>1. /\ PageEdit /\ ustanding' = {r \in ustanding : FieldsThere(r)}
        /\ UNCHANGED <<check, signed, mtask, ureq, uwritten>>
    BY DEF PageBeside
  <1>2. /\ RowsOK'
        /\ \A s \in 1..MaxId :
              \/ sources'[s] \in {sources[s], NoSource}
              \/ s \notin SourceIds /\ sources'[s] \in SourceRow /\ sources'[s].checked = 0
    BY <1>1, PageRows DEF UpdateInv
  <1>3. NumbersOK'
    <2>1. ASSUME NEW s \in SourceIds'
          PROVE  \/ sources'[s].checked = 0
                 \/ sources'[s].checked \in Checks /\ Started(sources'[s].checked)
      BY <1>2, <2>1 DEF UpdateInv, NumbersOK, SourceIds
    <2>2. \A d \in Checks : Started(d)' <=> Started(d)
      BY <1>1 DEF Started
    <2>3. QED
      BY <2>1, <2>2 DEF NumbersOK
  <1>4. \A d \in Checks : SeenStays(d)
    BY <1>1 DEF SeenStays, Started, Succeeded
  <1>5. ChecksOK' /\ TasksOK' /\ \A q \in signed' : PlanOK(q)'
    BY <1>1, <1>4, PlansCarry, TasksSame DEF UpdateInv, ChecksOK, CheckOK, Started, Succeeded
  <1>6. \A r \in Update : URequestOK(r)' /\ (Wrote(r)' <=> Wrote(r)) /\ ThePlan(r)' = ThePlan(r)
    BY <1>1, <1>4, RequestCarries
  <1>7. ASSUME NEW r \in ustanding' PROVE r \in Update /\ Wrote(r)' /\ FieldsStand(ThePlan(r))'
    <2> PICK p, c, i, s : /\ p = ThePlan(r) /\ c = p.check
                          /\ i = ItemOf(c) /\ s = check[c].sourceId
      OBVIOUS
    <2>1. r \in Update /\ Wrote(r) /\ FieldsStand(p) /\ p \in signed /\ FieldsThere(r)
      BY <1>1, RequestShape DEF UpdateInv, URequestsOK, Wrote, URequestOK
    <2>2. c \in Checks /\ i \in 1..MaxId /\ s \in 1..MaxId /\ PlanOK(p)
      BY <2>1, PlanFacts DEF SeenOK
    <2>3. sources'[s] = sources[s]
      <3>1. sources'[s] # NoSource
        BY <2>1 DEF FieldsThere
      <3>2. s \in SourceIds
        BY <2>1, <2>2 DEF FieldsStand, SourceIds, SourceRow, NoSource
      <3>3. QED
        BY <1>2, <2>2, <3>1, <3>2
    <2>4. "summary" \in p.fields => items'[i].summary = "provided"
      BY <2>1, <2>2 DEF FieldsThere, PlanOK, New
    <2>5. check' = check /\ ItemOf(c)' = i
      BY <1>1 DEF ItemOf
    <2>6. FieldsStand(p)'
      BY <2>1, <2>3, <2>4, <2>5 DEF FieldsStand
    <2>7. QED
      BY <1>6, <2>1, <2>6
  <1>8. URequestsOK'
    BY <1>1, <1>6, <1>7 DEF UpdateInv, URequestsOK
  <1>9. QED
    BY <1>2, <1>3, <1>5, <1>8 DEF UpdateInv

LEMMA IdleKeeps ==
    ASSUME UpdateInv, UNCHANGED <<rowVars, updateVars>>
    PROVE  UpdateInv'
  <1>1. UNCHANGED <<items, sources, check, signed, mtask, ureq, ustanding, uwritten>>
    BY DEF rowVars, updateVars
  <1>2. \A d \in Checks : SeenStays(d)
    BY <1>1 DEF SeenStays, Started, Succeeded
  <1>3. ChecksOK' /\ TasksOK' /\ \A q \in signed' : PlanOK(q)'
    BY <1>1, <1>2, PlansCarry, TasksSame DEF UpdateInv, ChecksOK, CheckOK, Started, Succeeded
  <1>4. QED
    BY <1>1, <1>2, <1>3, RequestsCarry

LEMMA NextUpdateInv ==
    ASSUME UpdateInv, [UpdateNext]_<<rowVars, updateVars>>
    PROVE  UpdateInv'
  <1>1. ASSUME NEW c \in Checks, NEW s \in 1..MaxId, StartCheck(c, s) PROVE UpdateInv'
    BY <1>1, StartCheckKeeps
  <1>2. ASSUME NEW c \in Checks, NEW summary \in {Blank, "provided"}, SucceedCheck(c, summary)
        PROVE  UpdateInv'
    BY <1>2, SucceedCheckKeeps
  <1>3. ASSUME NEW c \in Checks, FailCheck(c) \/ ExpireFact(c) \/ ForgetCheck(c) PROVE UpdateInv'
    BY <1>3, FailCheckKeeps, AgingFactsKeep
  <1>4. ASSUME NEW c \in Checks, NEW selected \in SUBSET MANUAL_UPDATE_FIELDS, NEW noticed \in BOOLEAN,
               UpdatePreview(c, selected, noticed)
        PROVE  UpdateInv'
    BY <1>4, UpdatePreviewKeeps
  <1>5. ASSUME NEW p \in Plans, PauseTask(p) \/ DeleteTask(p) PROVE UpdateInv'
    BY <1>5, TaskPagesKeep
  <1>6. ASSUME NEW r \in Update, NEW p \in signed, NEW accepted \in BOOLEAN, UpdateConfirm(r, p, accepted)
        PROVE  UpdateInv'
    BY <1>6, UpdateConfirmKeeps
  <1>7. ASSUME NEW r \in Update, NEW noticed \in BOOLEAN, UpdateBeginFails(r) \/ Replay(r) \/ StalePlan(r, noticed)
        PROVE  UpdateInv'
    BY <1>7, FirstStepsKeep
  <1>8. ASSUME NEW r \in Update, NEW noticed \in BOOLEAN, NEW outcome \in {"ok", "failed", "lost"},
               WriteFields(r, outcome, noticed)
        PROVE  UpdateInv'
    BY <1>8, WriteFieldsKeeps
  <1>9. ASSUME NEW r \in Update, NEW ok \in BOOLEAN,
               EndReplay(r, ok) \/ FirstLook(r, ok) \/ FinalLook(r, ok)
        PROVE  UpdateInv'
    BY <1>9, LooksKeep
  <1>10. ASSUME NEW r \in Update, NEW ok \in BOOLEAN, MarkSucceeded(r, ok) PROVE UpdateInv'
    BY <1>10, MarkSucceededKeeps
  <1>11. ASSUME NEW r \in Update, NEW ok \in BOOLEAN, NEW marked \in BOOLEAN, LastLook(r, ok, marked)
         PROVE  UpdateInv'
    BY <1>11, LastLookKeeps
  <1>12. CASE PageBeside \/ Restart
    BY <1>12, PageBesideKeeps, RestartKeeps
  <1>13. CASE UNCHANGED <<rowVars, updateVars>>
    BY <1>13, IdleKeeps
  <1>14. QED
    BY <1>1, <1>2, <1>3, <1>4, <1>5, <1>6, <1>7, <1>8, <1>9, <1>10, <1>11, <1>12, <1>13 DEF UpdateNext

----------------------------------------------------------------------------
(* What the preview showed                                                  *)

LEMMA WriteShows ==
    ASSUME UpdateInv, NEW r \in Update, NEW o \in {"ok", "lost"}, NEW n \in BOOLEAN, WriteFields(r, o, n),
           NEW i \in ItemIds
    PROVE  /\ items'[i].title = items[i].title
           /\ items'[i].summary # items[i].summary =>
                 /\ items'[i].summary # Blank
                 /\ \E c \in Checks : /\ check[c].st = "succeeded" /\ ItemOf(c) = i
                                      /\ check[c].item.summary = items[i].summary
  <1> PICK p, c, x : p = ThePlan(r) /\ c = p.check /\ x = ItemOf(c)
    OBVIOUS
  <1>1. /\ p \in signed /\ x \in 1..MaxId
        /\ items[x] = check[c].item /\ items[x] \in ItemRow
    BY WriteFacts
  <1>2. PlanOK(p) /\ c \in Checks /\ check[c].st = "succeeded"
    BY <1>1, PlanFacts DEF Succeeded
  <1>3. "summary" \in p.fields => New(c, "summary") = "provided"
    BY <1>2 DEF PlanOK, New
  <1>4. items' = [items EXCEPT ![x] = WithFields(p, items[x])]
    BY DEF WriteFields, UpdateInv, RowsOK
  <1> PICK it : it = WithFields(p, items[x])
    OBVIOUS
  <1>5. it.title = items[x].title /\ (it.summary = items[x].summary \/ it.summary = "provided")
    BY <1>1, <1>3, WrittenItem
  <1>6. i \in 1..MaxId /\ items'[x] = it /\ (i # x => items'[i] = items[i])
    BY <1>1, <1>4 DEF ItemIds, UpdateInv, RowsOK
  <1>7. CASE i = x
    BY <1>1, <1>2, <1>5, <1>6, <1>7 DEF Blank
  <1>8. CASE i # x
    BY <1>6, <1>8
  <1>9. QED
    BY <1>7, <1>8

\* A manual update replaces a value only if it is the one its preview showed,
\* keeps every title and never clears a summary (apply_manual_update, whatever
\* pages, tasks and other updates did since the source check).
THEOREM UpdatesAreShown == UpdateSpec => OnlyWhatWasShown
  <1>1. UpdateSpec => []UpdateInv
    BY InitUpdateInv, NextUpdateInv, PTL DEF UpdateSpec
  <1>2. ASSUME UpdateInv,
               \E r \in Update, o \in {"ok", "lost"}, n \in BOOLEAN : WriteFields(r, o, n)
        PROVE  \A i \in ItemIds :
                  /\ items'[i].title = items[i].title
                  /\ items'[i].summary # items[i].summary =>
                        /\ items'[i].summary # Blank
                        /\ \E c \in Checks : /\ check[c].st = "succeeded" /\ ItemOf(c) = i
                                             /\ check[c].item.summary = items[i].summary
    BY <1>2, WriteShows
  <1>3. QED
    BY <1>1, <1>2, PTL DEF UpdateSpec, OnlyWhatWasShown

----------------------------------------------------------------------------
(* The abstract specification                                               *)

UAsked(r) == IF ureq[r].report = "refused" THEN NoPlan ELSE ureq[r].plan

UAskedAll == [r \in Update |-> UAsked(r)]
UAnswerAll == [r \in Update |-> UpdateAnswer(r)]

LEMMA UpdateInitRefines == UpdateInit => UpdateOutcome!OutcomeInit
  BY DEF UpdateInit, UpdateStart, UpdateOutcome!OutcomeInit, UIdle, UpdateAnswer

\* What a request has told, and of which plan.
AnswerStays(q) ==
    /\ ureq'[q].plan = ureq[q].plan /\ ureq'[q].report = ureq[q].report
    /\ ureq'[q].seen = ureq[q].seen

\* A step that leaves what ConfirmOutcome sees, or only drops standing writes.
LEMMA TakingBackRefines ==
    ASSUME \A q \in Update : AnswerStays(q),
           ustanding' \subseteq ustanding, uwritten' = uwritten
    PROVE  UpdateOutcome!OutcomeNext
  <1>1. UAskedAll' = UAskedAll /\ UAnswerAll' = UAnswerAll
    BY DEF UAskedAll, UAnswerAll, UAsked, UpdateAnswer, AnswerStays
  <1>2. UpdateOutcome!Undo
    BY <1>1 DEF UpdateOutcome!Undo, UAskedAll, UAnswerAll, UAsked
  <1>3. QED
    BY <1>2 DEF UpdateOutcome!OutcomeNext

LEMMA UnasksAreUndo ==
    ASSUME ustanding' \subseteq ustanding, UNCHANGED <<ureq, uwritten>>
    PROVE  UpdateOutcome!OutcomeNext
  BY TakingBackRefines DEF AnswerStays

\* What a request did not tell its user is a stutter.
LEMMA GoRefines ==
    ASSUME UpdateInv, NEW r \in Update, NEW pc, Go(r, pc), UNCHANGED <<ustanding, uwritten>>
    PROVE  UpdateOutcome!OutcomeNext
  <1> PICK v : v = [ureq[r] EXCEPT !.pc = pc]
    OBVIOUS
  <1>1. ureq' = [ureq EXCEPT ![r] = v]
    BY DEF Go
  <1>2. v.plan = ureq[r].plan /\ v.report = ureq[r].report /\ v.seen = ureq[r].seen
    BY RequestShape DEF URequestFields
  <1>3. ureq'[r] = v /\ \A q \in Update : q # r => ureq'[q] = ureq[q]
    BY <1>1, RequestShape
  <1>4. \A q \in Update : AnswerStays(q)
    BY <1>2, <1>3 DEF AnswerStays
  <1>5. QED
    BY <1>4, TakingBackRefines

\* An answer says "done" or "failed" only when it is so.
LEMMA TellRefines ==
    ASSUME UpdateInv, NEW r \in Update, ureq[r].pc \notin {"idle", "done"},
           NEW report \in {"committed_verified", "already_applied_verified", "write_failed",
                           "stale_plan", "outcome_unknown"},
           NEW seen \in {"nothing", "written"},
           TellSeeing(r, report, seen), UNCHANGED <<ustanding, uwritten>>,
           \/ ThePlan(r) \in uwritten
           \/ /\ report \notin {"committed_verified", "already_applied_verified"}
              /\ report = "write_failed" => seen = "nothing",
           report = "write_failed" /\ seen = "nothing" => r \notin ustanding
    PROVE  UpdateOutcome!OutcomeNext
  <1> PICK v : v = [ureq[r] EXCEPT !.pc = "done", !.report = report, !.pre = NoPre, !.seen = seen]
    OBVIOUS
  <1>1. ureq' = [ureq EXCEPT ![r] = v]
    BY RequestShape DEF TellSeeing
  <1>2. v.plan = ureq[r].plan /\ v.report = report /\ v.seen = seen
    BY RequestShape DEF URequestFields
  <1>3. ureq'[r] = v /\ \A q \in Update : q # r => ureq'[q] = ureq[q]
    BY <1>1, RequestShape
  <1>4. ureq[r].report = "none"
    BY RequestShape DEF URequestOK
  <1>5. \A q \in Update : q # r => UAsked(q)' = UAsked(q) /\ UpdateAnswer(q)' = UpdateAnswer(q)
    BY <1>3 DEF UAsked, UpdateAnswer
  <1>6. UpdateAnswer(r) = "none" /\ UAsked(r) = ThePlan(r) /\ UAsked(r)' = UAsked(r)
    BY <1>2, <1>3, <1>4 DEF UpdateAnswer, UAsked, ThePlan
  <1>7. PICK a \in {"done", "failed", "misled", "unknown"} :
            /\ UpdateAnswer(r)' = a
            /\ a \in {"done", "misled"} => UAsked(r) \in uwritten
            /\ a = "failed" => r \notin ustanding
    BY <1>2, <1>3, <1>6 DEF UpdateAnswer
  <1>8. UAskedAll' = UAskedAll /\ UAnswerAll' = [UAnswerAll EXCEPT ![r] = a]
    BY <1>5, <1>6, <1>7 DEF UAskedAll, UAnswerAll
  <1>9. UpdateOutcome!Answer(r, a)
    BY <1>6, <1>7, <1>8 DEF UpdateOutcome!Answer, UAskedAll, UAnswerAll, UAsked
  <1>10. QED
    BY <1>9 DEF UpdateOutcome!OutcomeNext

LEMMA UpdateConfirmRefines ==
    ASSUME UpdateInv, NEW r \in Update, NEW p \in signed, NEW accepted \in BOOLEAN,
           UpdateConfirm(r, p, accepted)
    PROVE  UpdateOutcome!OutcomeNext
  <1> PICK v : v = [pc |-> IF accepted THEN "begin" ELSE "done", plan |-> p, pre |-> NoPre,
                    report |-> IF accepted THEN "none" ELSE "refused", seen |-> "nothing"]
    OBVIOUS
  <1>1. /\ ureq[r] = UIdle /\ ureq' = [ureq EXCEPT ![r] = v]
        /\ UNCHANGED <<ustanding, uwritten>>
    BY RequestShape DEF UpdateConfirm, UIdle
  <1>2. v.plan = p /\ v.report = (IF accepted THEN "none" ELSE "refused")
    OBVIOUS
  <1>3. ureq'[r] = v /\ \A q \in Update : q # r => ureq'[q] = ureq[q]
    BY <1>1, RequestShape
  <1>4. \A q \in Update : q # r => UAsked(q)' = UAsked(q) /\ UpdateAnswer(q)' = UpdateAnswer(q)
    BY <1>3 DEF UAsked, UpdateAnswer
  <1>5. UAsked(r) = NoPlan /\ UpdateAnswer(r) = "none" /\ UpdateAnswer(r)' = "none"
    BY <1>1, <1>2, <1>3 DEF UpdateAnswer, UAsked, UIdle
  <1>6. UAnswerAll' = UAnswerAll
    BY <1>4, <1>5 DEF UAnswerAll
  <1>7. CASE accepted
    <2>1. UAskedAll' = [UAskedAll EXCEPT ![r] = p]
      BY <1>2, <1>3, <1>4, <1>7 DEF UAskedAll, UAsked
    <2>2. p \in Plans
      BY PlanFacts DEF PlanOK
    <2>3. UpdateOutcome!Ask(r, p)
      BY <1>1, <1>5, <1>6, <2>1 DEF UpdateOutcome!Ask, UAskedAll, UAnswerAll, UAsked
    <2>4. QED
      BY <2>2, <2>3 DEF UpdateOutcome!OutcomeNext
  <1>8. CASE ~accepted
    <2>1. UAskedAll' = UAskedAll
      BY <1>2, <1>3, <1>4, <1>5, <1>8 DEF UAskedAll, UAsked
    <2>2. UpdateOutcome!Undo
      BY <1>1, <1>6, <2>1 DEF UpdateOutcome!Undo, UAskedAll, UAnswerAll, UAsked
    <2>3. QED
      BY <2>2 DEF UpdateOutcome!OutcomeNext
  <1>9. QED
    BY <1>7, <1>8

\* While its fields stand, a plan cannot be written again.
LEMMA WriteFieldsRefines ==
    ASSUME UpdateInv, NEW r \in Update, NEW outcome \in {"ok", "failed", "lost"}, NEW noticed,
           WriteFields(r, outcome, noticed)
    PROVE  UpdateOutcome!OutcomeNext
  <1>1. PICK v :
           /\ ureq' = [q \in Update |-> ureq'[q]] /\ ureq'[r] = v
           /\ \A q \in Update : q # r => ureq'[q] = ureq[q]
           /\ v.plan = ThePlan(r) /\ v.report = "none" /\ v.seen = ureq[r].seen
    BY WriteRequest
  <1> PICK p, c, i, s : /\ p = ThePlan(r) /\ c = p.check
                        /\ i = ItemOf(c) /\ s = check[c].sourceId
    OBVIOUS
  <1>2. /\ r \notin ustanding /\ p \in signed /\ ureq[r].report = "none"
        /\ items[i] = check[c].item /\ sources[s] \in SourceRow /\ sources[s].checked < c
    BY WriteFacts
  <1>3. \A q \in Update : AnswerStays(q)
    BY <1>1, <1>2 DEF ThePlan, AnswerStays
  <1>4. CASE outcome = "failed"
    BY <1>3, <1>4, TakingBackRefines DEF WriteFields
  <1>5. CASE outcome # "failed"
    <2>1. ustanding' = ustanding \cup {r} /\ uwritten' = uwritten \cup {p}
      BY <1>5 DEF WriteFields
    <2>2. PlanOK(p) /\ c \in Nat \ {0} /\ p.fields \subseteq MANUAL_UPDATE_FIELDS
      BY <1>2, PlanFacts, CheckNumbers
    <2>3. ~FieldsStand(p)
      <3>1. sources[s].checked \in Nat
        BY <1>2, RowsAssumption DEF SourceRow
      <3>2. "checked" \in p.fields => ~(sources[s].checked >= c)
        BY <1>2, <2>2, <3>1
      <3>3. "summary" \in p.fields => items[i].summary # "provided"
        BY <1>2, <2>2 DEF PlanOK
      <3>4. "checked" \in p.fields \/ "summary" \in p.fields
        BY <2>2 DEF PlanOK, MANUAL_UPDATE_FIELDS
      <3>5. QED
        BY <3>2, <3>3, <3>4 DEF FieldsStand
    <2>4. UAskedAll' = UAskedAll /\ UAnswerAll' = UAnswerAll
      BY <1>3 DEF UAskedAll, UAnswerAll, UAsked, UpdateAnswer, AnswerStays
    <2>5. UAskedAll[r] = p /\ UAnswerAll[r] = "none"
      BY <1>2 DEF UAskedAll, UAnswerAll, UAsked, UpdateAnswer, ThePlan
    <2>6. \A q \in ustanding : UAskedAll[q] # p
      BY <2>3 DEF UAskedAll, UAsked, UpdateInv, URequestsOK, Wrote, ThePlan
    <2>7. p # NoPlan
      BY <2>2 DEF NoPlan
    <2>8. UpdateOutcome!Write(r)
      BY <2>1, <2>4, <2>5, <2>6, <2>7 DEF UpdateOutcome!Write, UAskedAll, UAnswerAll, UAsked
    <2>9. QED
      BY <2>8 DEF UpdateOutcome!OutcomeNext
  <1>6. QED
    BY <1>4, <1>5

LEMMA TaskShowsWrite ==
    ASSUME UpdateInv, NEW r \in Update, ureq[r].pc # "idle", TheTask(r) # NoTask
    PROVE  ThePlan(r) \in uwritten
  <1>1. ThePlan(r) \in Plans
    BY RequestShape, PlanFacts DEF URequestOK, PlanOK
  <1>2. QED
    BY <1>1 DEF UpdateInv, TasksOK, TheTask

\* While the fields stand, the rows of before are not what the look finds.
LEMMA FieldsAreSeen ==
    ASSUME UpdateInv, NEW r \in Update, ureq[r].pc \in {"inspect", "verify"}, PreHolds(r)
    PROVE  r \notin ustanding
  <1> PICK p, c, i, s : /\ p = ThePlan(r) /\ c = p.check
                        /\ i = ItemOf(c) /\ s = check[c].sourceId
    OBVIOUS
  <1>1. /\ p \in signed
        /\ ureq[r].pre = [item |-> check[c].item, source |-> check[c].source]
    BY RequestShape DEF URequestOK
  <1>2. items[i] = check[c].item /\ sources[s] = check[c].source
    BY <1>1 DEF PreHolds, ItemOf
  <1>3. /\ PlanOK(p) /\ c \in Nat \ {0} /\ p.fields \subseteq MANUAL_UPDATE_FIELDS
        /\ check[c].source \in SourceRow /\ check[c].source.checked < c
    BY <1>1, PlanFacts, CheckNumbers DEF SeenOK
  <1>4. check[c].source.checked \in Nat
    BY <1>3, RowsAssumption DEF SourceRow
  <1>5. "checked" \in p.fields \/ "summary" \in p.fields
    BY <1>3 DEF PlanOK, MANUAL_UPDATE_FIELDS
  <1>6. ~FieldsStand(p)
    BY <1>2, <1>3, <1>4, <1>5 DEF FieldsStand, PlanOK
  <1>7. QED
    BY <1>6 DEF UpdateInv, URequestsOK

LEMMA StepsRefine ==
    ASSUME UpdateInv, NEW r \in Update, NEW noticed \in BOOLEAN, NEW ok \in BOOLEAN, NEW marked \in BOOLEAN,
           \/ UpdateBeginFails(r) \/ Replay(r) \/ StalePlan(r, noticed)
           \/ EndReplay(r, ok) \/ FirstLook(r, ok) \/ MarkSucceeded(r, ok) \/ FinalLook(r, ok)
           \/ LastLook(r, ok, marked)
    PROVE  UpdateOutcome!OutcomeNext
  <1>1. CASE UpdateBeginFails(r)
    BY <1>1, TellRefines, NotWrittenYet DEF UpdateBeginFails, Tell
  <1>2. CASE Replay(r)
    BY <1>2, TellRefines, GoRefines DEF Replay, Tell
  <1>3. CASE StalePlan(r, noticed)
    BY <1>3, TellRefines DEF StalePlan, Tell
  <1>4. CASE EndReplay(r, ok)
    <2>1. ReplayHolds(r) => ThePlan(r) \in uwritten
      BY <1>4, TaskShowsWrite DEF ReplayHolds, EndReplay, NoTask, TaskAt
    <2>2. QED
      BY <1>4, <2>1, TellRefines DEF EndReplay, Tell
  <1>5. CASE FirstLook(r, ok)
    BY <1>5, FieldsAreSeen, TellRefines, GoRefines DEF FirstLook, Tell
  <1>6. CASE MarkSucceeded(r, ok)
    BY <1>6, GoRefines DEF MarkSucceeded
  <1>7. CASE FinalLook(r, ok)
    <2>1. SuccessHolds(r) => TheTask(r) # NoTask
      BY DEF SuccessHolds, PostHolds, NoTask, TaskAt
    <2>2. SuccessHolds(r) => ThePlan(r) \in uwritten
      BY <1>7, <2>1, TaskShowsWrite DEF FinalLook
    <2>3. QED
      BY <1>7, <2>2, TellRefines, GoRefines DEF FinalLook, Tell
  <1>8. CASE LastLook(r, ok, marked)
    <2>1. WrittenHolds(r) => TheTask(r) # NoTask
      BY DEF WrittenHolds, PostHolds, NoTask, TaskAt
    <2>2. WrittenHolds(r) => ThePlan(r) \in uwritten
      BY <1>8, <2>1, TaskShowsWrite DEF LastLook
    <2>3. QED
      BY <1>8, <2>2, TellRefines DEF LastLook, Tell
  <1>9. QED
    BY <1>1, <1>2, <1>3, <1>4, <1>5, <1>6, <1>7, <1>8

LEMMA UpdateNextRefines ==
    ASSUME UpdateInv, [UpdateNext]_<<rowVars, updateVars>>
    PROVE  UpdateOutcome!OutcomeNext
  <1>1. ASSUME NEW c \in Checks,
               \/ \E s \in 1..MaxId : StartCheck(c, s)
               \/ \E summary \in {Blank, "provided"} : SucceedCheck(c, summary)
               \/ FailCheck(c) \/ ExpireFact(c) \/ ForgetCheck(c)
               \/ \E selected \in SUBSET MANUAL_UPDATE_FIELDS, noticed \in BOOLEAN :
                      UpdatePreview(c, selected, noticed)
        PROVE  UpdateOutcome!OutcomeNext
    BY <1>1, UnasksAreUndo
       DEF StartCheck, SucceedCheck, FailCheck, ExpireFact, ForgetCheck, UpdatePreview
  <1>2. ASSUME NEW p \in Plans, PauseTask(p) \/ DeleteTask(p) PROVE UpdateOutcome!OutcomeNext
    BY <1>2, UnasksAreUndo DEF PauseTask, DeleteTask
  <1>3. CASE PageBeside
    BY <1>3, UnasksAreUndo DEF PageBeside
  <1>4. CASE Restart
    <2>1. \A r \in Update : AnswerStays(r)
      <3> SUFFICES ASSUME NEW r \in Update
                   PROVE  AnswerStays(r)
        OBVIOUS
      <3> PICK v : v = [ureq[r] EXCEPT !.pc = "done", !.pre = NoPre]
        OBVIOUS
      <3>1. v.plan = ureq[r].plan /\ v.report = ureq[r].report /\ v.seen = ureq[r].seen
        BY RequestShape DEF URequestFields
      <3>2. ureq'[r] \in {ureq[r], v}
        BY <1>4 DEF Restart
      <3>3. QED
        BY <3>1, <3>2 DEF AnswerStays
    <2>2. QED
      BY <1>4, <2>1, TakingBackRefines DEF Restart
  <1>5. CASE UNCHANGED <<rowVars, updateVars>>
    BY <1>5, UnasksAreUndo DEF updateVars
  <1>6. ASSUME NEW r \in Update,
               \/ \E p \in signed, accepted \in BOOLEAN : UpdateConfirm(r, p, accepted)
               \/ \E noticed \in BOOLEAN, outcome \in {"ok", "failed", "lost"} : WriteFields(r, outcome, noticed)
        PROVE  UpdateOutcome!OutcomeNext
    BY <1>6, UpdateConfirmRefines, WriteFieldsRefines
  <1>7. ASSUME NEW r \in Update,
               \E noticed \in BOOLEAN, ok \in BOOLEAN, marked \in BOOLEAN :
                  \/ UpdateBeginFails(r) \/ Replay(r) \/ StalePlan(r, noticed)
                  \/ EndReplay(r, ok) \/ FirstLook(r, ok) \/ MarkSucceeded(r, ok) \/ FinalLook(r, ok)
                  \/ LastLook(r, ok, marked)
        PROVE  UpdateOutcome!OutcomeNext
    BY <1>7, StepsRefine
  <1>8. CASE UpdateNext
    BY <1>1, <1>2, <1>3, <1>4, <1>6, <1>7, <1>8 DEF UpdateNext
  <1>9. QED
    BY <1>5, <1>8

\* The confirmation of a manual update implements ConfirmOutcome
\* (app/source_update/service.py): a plan is not written again while its fields
\* stand, success is answered only for a plan that was written, and write_failed
\* only when nothing of it is there or by a request that has just read it back as
\* written ("misled"), whatever pages, task pages and restarts do.
THEOREM UpdateKeepsItsPromise == UpdateSpec => UpdateKeepsPromise
  <1>1. UpdateSpec => []UpdateInv
    BY InitUpdateInv, NextUpdateInv, PTL DEF UpdateSpec
  <1>2. QED
    BY <1>1, UpdateInitRefines, UpdateNextRefines, PTL
       DEF UpdateSpec, UpdateKeepsPromise, UpdateOutcome!OutcomeSpec

----------------------------------------------------------------------------
(* The media pages                                                          *)

CFile == [inode : Nat \ {0}, sha : CSha \cup {"bad"}, stamp : Nat]
CFiles == [CName -> {NoMedia} \cup CFile]

\* Names of one inode hold one content.
MediaOK ==
    /\ clock \in Nat /\ media \in CFiles
    /\ \A p \in CName : There(p, media) => media[p].stamp <= clock
    /\ \A p, q \in CName :
          There(p, media) /\ There(q, media) /\ media[p].inode = media[q].inode => media[p].sha = media[q].sha

OwnersOK == owner \in [CObj -> [path : CName \cup {NoName}, rev : 0..1]]

\* A match was offered only for an object without a reference.
PageOK ==
    \/ page = NoPage
    \/ page.request.kind = "batch" /\ page.request.items \in Rename \X Rename
    \/ /\ page.request \in Request
       /\ page.request.kind = "match" => page.owner[page.request.obj].path = NoName

\* A batch belongs to the page, and has a result for each item it is through with.
BatchOK ==
    /\ batch \in Seq(Rename) /\ results \in Seq({"success", "failed"})
    /\ batch # <<>> => page.request.kind = "batch" /\ Len(results) + Len(batch) = 2

FormInv == MediaOK /\ OwnersOK /\ PageOK /\ BatchOK

-------------------------------------------------------------------------------
LEMMA NamesApart == CPath \subseteq CName /\ CAnchor \subseteq CName /\ NoName \notin CName /\ CPath \cap CAnchor = {}
  BY ConfirmationAssumption DEF CName

LEMMA FileFacts ==
    ASSUME NEW x \in {NoMedia} \cup CFile
    PROVE  /\ x \in CFile <=> x # NoMedia
           /\ x # NoMedia => x.inode \in Nat \ {0} /\ x.sha \in CSha \cup {"bad"} /\ x.stamp \in Nat
           /\ x = NoMedia => x.inode = 0
  BY DEF NoMedia, CFile

\* What a request of each kind is made of.
LEMMA RequestOfKind ==
    ASSUME NEW r \in Request
    PROVE  /\ r.kind = "rename" => r.src \in CPath /\ r.dst \in CPath
           /\ r.kind \in {"alias", "duplicate", "damaged"} => r.src \in CPath
           /\ r.kind \in {"restore", "delete"} => r.src \in CAnchor
           /\ r.kind = "manage" => r.src \in CPath /\ r.dst \in CPath \cup {NoName} /\ r.obj \in CObj
           /\ r.kind = "repair" => r.src \in CPath \cup {NoName} /\ r.obj \in CObj
           /\ r.kind = "match" => r.src \in CPath /\ r.obj \in CObj
           /\ r.kind \in {"rename", "alias", "duplicate", "damaged", "restore", "delete", "manage",
                          "repair", "match"}
  <1>1. CASE r \in Rename
    BY <1>1 DEF Rename
  <1>2. CASE r \in [kind : {"alias", "duplicate", "damaged"}, src : CPath]
    BY <1>2
  <1>3. CASE r \in [kind : {"restore", "delete"}, src : CAnchor]
    BY <1>3
  <1>4. CASE r \in [kind : {"manage"}, src : CPath, dst : {NoName} \cup CPath, obj : CObj]
    BY <1>4
  <1>5. CASE r \in [kind : {"repair"}, src : CPath \cup {NoName}, obj : CObj]
    BY <1>5
  <1>6. CASE r \in [kind : {"match"}, src : CPath, obj : CObj]
    BY <1>6
  <1> QED BY <1>1, <1>2, <1>3, <1>4, <1>5, <1>6 DEF Request

LEMMA SourceIsName ==
    ASSUME NEW r \in Request, r.kind # "repair"
    PROVE  r.src \in CName
  BY RequestOfKind, NamesApart

\* Stamping changes times only.
LEMMA StampedIs ==
    ASSUME NEW d \in CFiles, NEW i, clock \in Nat
    PROVE  /\ Stamped(d, i) \in CFiles
           /\ \A p \in CName :
                /\ There(p, Stamped(d, i)) <=> There(p, d)
                /\ There(p, d) => /\ Stamped(d, i)[p].inode = d[p].inode
                                  /\ Stamped(d, i)[p].sha = d[p].sha
                                  /\ Stamped(d, i)[p].stamp \in {d[p].stamp, clock + 1}
  <1>1. ASSUME NEW p \in CName
        PROVE  /\ Stamped(d, i)[p] \in {NoMedia} \cup CFile
               /\ There(p, Stamped(d, i)) <=> There(p, d)
               /\ There(p, d) => /\ Stamped(d, i)[p].inode = d[p].inode
                                 /\ Stamped(d, i)[p].sha = d[p].sha
                                 /\ Stamped(d, i)[p].stamp \in {d[p].stamp, clock + 1}
    <2>1. CASE There(p, d) /\ d[p].inode = i
      <3>1. Stamped(d, i)[p] = [d[p] EXCEPT !.stamp = clock + 1] /\ d[p] \in CFile
        BY <2>1, FileFacts DEF Stamped, CFiles, There
      <3>2. /\ Stamped(d, i)[p] \in CFile /\ Stamped(d, i)[p].inode = d[p].inode
            /\ Stamped(d, i)[p].sha = d[p].sha /\ Stamped(d, i)[p].stamp = clock + 1
        BY <3>1 DEF CFile
      <3> QED BY <2>1, <3>2, FileFacts DEF There
    <2>2. CASE ~(There(p, d) /\ d[p].inode = i)
      <3>1. Stamped(d, i)[p] = d[p]
        BY <2>2 DEF Stamped
      <3> QED BY <3>1 DEF CFiles, There
    <2> QED BY <2>1, <2>2
  <1>2. Stamped(d, i) = [p \in CName |-> Stamped(d, i)[p]]
    BY DEF Stamped
  <1> QED BY <1>1, <1>2 DEF CFiles

LEMMA StampedMedia ==
    ASSUME NEW d \in CFiles, NEW i, clock \in Nat, media' = Stamped(d, i), NEW p \in CName, There(p, d)
    PROVE  media'[p].inode = d[p].inode /\ media'[p].sha = d[p].sha
  BY StampedIs

LEMMA WithoutIs ==
    ASSUME NEW d \in CFiles, NEW S
    PROVE  /\ Without(d, S) \in CFiles
           /\ \A p \in CName : Without(d, S)[p] = IF p \in S THEN NoMedia ELSE d[p]
  BY DEF Without, CFiles

LEMMA RepointedIs ==
    ASSUME OwnersOK, NEW S, NEW p \in CName \cup {NoName}
    PROVE  /\ Repointed(S, p) \in [CObj -> [path : CName \cup {NoName}, rev : 0..1]]
           /\ \A x \in CObj : Repointed(S, p)[x].path = IF owner[x].path \in S THEN p ELSE owner[x].path
  BY DEF OwnersOK, Repointed

\* An operation leaves each name without a file, or with one that was there.
LEMMA MovedMedia ==
    ASSUME MediaOK, clock' = clock + 1, NEW d \in CFiles, NEW i, media' = Stamped(d, i),
           \A p \in CName : d[p] = NoMedia \/ \E q \in CName : d[p] = media[q]
    PROVE  MediaOK'
  <1>1. clock \in Nat /\ media \in CFiles
    BY DEF MediaOK
  <1>2. media' \in CFiles /\ clock' \in Nat
    BY <1>1, StampedIs
  <1>3. /\ \A p \in CName : There(p, media)' <=> There(p, d)
        /\ \A p \in CName : There(p, d) => media'[p].inode = d[p].inode /\ media'[p].sha = d[p].sha
    BY <1>1, StampedIs DEF There
  <1>4. ASSUME NEW p \in CName, There(p, d)
        PROVE  \E q \in CName : There(q, media) /\ d[p] = media[q]
    BY <1>4 DEF There
  <1>5. ASSUME NEW p \in CName, There(p, media)' PROVE media'[p].stamp <= clock'
    <2>1. There(p, d)
      BY <1>3, <1>5
    <2>2. PICK q \in CName : There(q, media) /\ d[p] = media[q]
      BY <1>4, <2>1
    <2>3. media'[p].stamp \in {media[q].stamp, clock + 1}
      BY <1>1, <2>1, <2>2, StampedIs
    <2>4. media[q].stamp <= clock /\ media[q].stamp \in Nat
      BY <2>2, FileFacts DEF MediaOK, There, CFiles
    <2> QED BY <1>1, <2>3, <2>4
  <1>6. ASSUME NEW p \in CName, NEW q \in CName, There(p, media)', There(q, media)',
               media'[p].inode = media'[q].inode
        PROVE  media'[p].sha = media'[q].sha
    <2>1. There(p, d) /\ There(q, d)
      BY <1>3, <1>6
    <2>2. PICK x \in CName : There(x, media) /\ d[p] = media[x]
      BY <1>4, <2>1
    <2>3. PICK y \in CName : There(y, media) /\ d[q] = media[y]
      BY <1>4, <2>1
    <2>4. /\ media'[p].inode = media[x].inode /\ media'[p].sha = media[x].sha
          /\ media'[q].inode = media[y].inode /\ media'[q].sha = media[y].sha
      BY <1>3, <2>1, <2>2, <2>3, Zenon
    <2>5. media[x].inode = media[y].inode
      BY <1>6, <2>4
    <2>6. media[x].sha = media[y].sha
      BY <2>2, <2>3, <2>5, Zenon DEF MediaOK
    <2> QED BY <2>4, <2>6
  <1> QED BY <1>2, <1>5, <1>6 DEF MediaOK

MovedFile(src, dst) == [Without(media, {src}) EXCEPT ![dst] = media[src]]

LEMMA MovedAndGone ==
    ASSUME MediaOK, clock' = clock + 1, NEW src \in CName, NEW dst \in CName, dst # src, NEW i,
           media' = Stamped(MovedFile(src, dst), i)
    PROVE  /\ MediaOK'
           /\ \A p \in CName \ {src, dst} :
                 /\ There(p, media') <=> There(p, media)
                 /\ There(p, media) => media'[p].sha = media[p].sha
           /\ There(src, media) => There(dst, media') /\ media'[dst].sha = media[src].sha
  <1> PICK d : d = MovedFile(src, dst)
    OBVIOUS
  <1>1. /\ media \in CFiles /\ clock \in Nat /\ Without(media, {src}) \in CFiles
        /\ \A p \in CName : Without(media, {src})[p] = IF p = src THEN NoMedia ELSE media[p]
    BY WithoutIs DEF MediaOK
  <1>2. d \in CFiles /\ \A p \in CName : d[p] = IF p = dst THEN media[src]
                                                ELSE IF p = src THEN NoMedia ELSE media[p]
    BY <1>1 DEF CFiles, MovedFile
  <1>3. /\ \A p \in CName : There(p, media') <=> There(p, d)
        /\ \A p \in CName : There(p, d) => media'[p].sha = d[p].sha
    <2>1. d \in CFiles /\ clock \in Nat
      BY <1>1, <1>2
    <2>2. \A p \in CName : There(p, media') <=> There(p, d)
      BY <2>1, StampedIs
    <2>3. ASSUME NEW p \in CName, There(p, d) PROVE media'[p].sha = d[p].sha
      BY <2>1, <2>3, StampedMedia
    <2> QED BY <2>2, <2>3
  <1>4. MediaOK'
    <2>1. \A p \in CName : d[p] = NoMedia \/ \E q \in CName : d[p] = media[q]
      BY <1>2
    <2> QED BY <1>2, <2>1, MovedMedia
  <1>5. \A p \in CName \ {src, dst} : There(p, d) <=> There(p, media)
    BY <1>2 DEF There
  <1>6. There(dst, d) <=> There(src, media)
    BY <1>2 DEF There
  <1>7. \A p \in CName \ {src, dst} :
                 /\ There(p, media') <=> There(p, media)
                 /\ There(p, media) => media'[p].sha = media[p].sha
    BY <1>2, <1>3, <1>5
  <1>8. There(src, media) => There(dst, media') /\ media'[dst].sha = media[src].sha
    BY <1>2, <1>3, <1>6
  <1> QED BY <1>4, <1>7, <1>8

LEMMA JustGone ==
    ASSUME MediaOK, clock' = clock + 1, NEW gone \in SUBSET CName, NEW i,
           media' = Stamped(Without(media, gone), i)
    PROVE  /\ MediaOK'
           /\ \A p \in CName \ gone : /\ There(p, media') <=> There(p, media)
                                      /\ There(p, media) => media'[p].sha = media[p].sha
           /\ \A p \in gone : ~There(p, media')
  <1> PICK d : d = Without(media, gone)
    OBVIOUS
  <1>1. /\ media \in CFiles /\ clock \in Nat /\ d \in CFiles
        /\ \A p \in CName : d[p] = IF p \in gone THEN NoMedia ELSE media[p]
    BY WithoutIs DEF MediaOK
  <1>2. MediaOK'
    BY <1>1, MovedMedia
  <1>3. \A p \in CName \ gone : There(p, d) <=> There(p, media)
    BY <1>1 DEF There
  <1>4. \A p \in gone : ~There(p, d)
    BY <1>1 DEF There
  <1> QED BY <1>1, <1>2, <1>3, <1>4, StampedIs
-------------------------------------------------------------------------------
\* What an operation does to names and references.
Keeps(p) ==
    /\ There(p, media') <=> There(p, media)
    /\ There(p, media) => media'[p].sha = media[p].sha

Follow(S, q) ==
    \A x \in CObj : owner'[x].path = IF owner[x].path \in S THEN q ELSE owner[x].path

Moves(src, q) ==
    /\ q \in CPath /\ q # src /\ ~There(q, media)
    /\ \A p \in CName \ {src, q} : Keeps(p)
    /\ There(q, media') /\ media'[q].sha = media[src].sha
    /\ Follow({src}, q)

Drops(gone) ==
    /\ \A p \in CName \ gone : Keeps(p)
    /\ \A p \in gone : ~There(p, media')

\* The preview and the form of a request, by its kind.
LEMMA ByKind ==
    ASSUME NEW r, NEW d, NEW o
    PROVE  /\ r.kind = "rename" => (CanPreview(r, d, o) => CanRename(r, d, o)) /\ Seen(r, d, o) = SeenRename(r, d, o)
           /\ r.kind = "alias" => (CanPreview(r, d, o) => CanAlias(r, d)) /\ Seen(r, d, o) = <<SeenAlias(r, d, o)>>
           /\ r.kind = "duplicate" => (CanPreview(r, d, o) => CanDuplicate(r, d))
                                        /\ Seen(r, d, o) = SeenDuplicate(r, d)
           /\ r.kind = "restore" => (CanPreview(r, d, o) => CanRestore(r, d))
           /\ r.kind = "delete" => (CanPreview(r, d, o) => CanDelete(r, d, o))
           /\ r.kind = "damaged" => (CanPreview(r, d, o) => CanDamaged(r, d))
           /\ r.kind \in {"restore", "delete", "damaged"} => Seen(r, d, o) = <<SeenFile(r.src, d)>>
           /\ r.kind = "manage" => (CanPreview(r, d, o) => CanManage(r, d, o)) /\ Seen(r, d, o) = SeenManage(r, d, o)
           /\ r.kind = "repair" => (CanPreview(r, d, o) => CanRepair(r, d, o)) /\ Seen(r, d, o) = SeenRepair(r, d, o)
           /\ r.kind = "match" => (CanPreview(r, d, o) => CanMatch(r, d, o))
  BY DEF CanPreview, Seen

LEMMA DoMoves ==
    ASSUME FormInv, NEW r \in Request, r.kind \in {"rename", "restore"}, CanPreview(r, media, owner), Do(r)
    PROVE  There(r.src, media) /\ (\E q \in CPath : Moves(r.src, q)) /\ MediaOK' /\ OwnersOK'
  <1>1. clock' = clock + 1 /\ r.src \in CName
    BY SourceIsName DEF Do
  <1>2. PICK q \in CPath :
            /\ ~There(q, media)
            /\ media' = Stamped(MovedFile(r.src, q), media[r.src].inode)
            /\ owner' = Repointed({r.src}, q)
    <2>1. CASE r.kind = "rename"
      BY <2>1, RequestOfKind, ByKind DEF Do, DoRename, CanRename, MovedFile
    <2>2. CASE r.kind = "restore"
      BY <2>2 DEF Do, DoRestore, MovedFile
    <2> QED BY <2>1, <2>2
  <1>3. There(r.src, media)
    BY ByKind DEF CanRename, CanRestore, Sound
  <1>4. q # r.src /\ q \in CName
    BY <1>2, <1>3, NamesApart
  <1>5. /\ MediaOK'
        /\ \A p \in CName \ {r.src, q} : Keeps(p)
        /\ There(q, media') /\ media'[q].sha = media[r.src].sha
    BY <1>1, <1>2, <1>3, <1>4, MovedAndGone DEF FormInv, Keeps
  <1>6. OwnersOK' /\ Follow({r.src}, q)
    BY <1>2, <1>4, RepointedIs DEF FormInv, OwnersOK, Follow
  <1> QED BY <1>2, <1>3, <1>4, <1>5, <1>6 DEF Moves

\* The other names of a file with its inode, or with its content.
Others(r) == (IF r.kind = "alias" THEN Aliases(r.src, media) ELSE Twins(r.src, media)) \ {r.src}

LEMMA DoMerges ==
    ASSUME FormInv, NEW r \in Request, r.kind \in {"alias", "duplicate"}, CanPreview(r, media, owner), Do(r)
    PROVE  /\ There(r.src, media) /\ r.src \in CPath /\ Others(r) \subseteq CPath
           /\ \A p \in Others(r) : There(p, media) /\ media[p].sha = media[r.src].sha
           /\ Drops(Others(r)) /\ Follow(Others(r), r.src) /\ MediaOK' /\ OwnersOK'
  <1>1. clock' = clock + 1 /\ r.src \in CPath /\ r.src \in CName
    BY SourceIsName, RequestOfKind DEF Do
  <1>2. /\ media' = Stamped(Without(media, Others(r)), media[r.src].inode)
        /\ owner' = Repointed(Others(r), r.src)
    BY DEF Do, DoAlias, DoDuplicate, Others
  <1>3. There(r.src, media)
    BY ByKind DEF CanAlias, CanDuplicate, Sound
  <1>4. Others(r) \subseteq CPath /\ \A p \in Others(r) : There(p, media) /\ media[p].sha = media[r.src].sha
    <2>1. CASE r.kind = "alias"
      <3>1. \A p \in Others(r) : p \in CPath /\ There(p, media) /\ media[p].inode = media[r.src].inode
        BY <2>1 DEF Others, Aliases
      <3> QED BY <1>1, <1>3, <3>1, NamesApart DEF FormInv, MediaOK
    <2>2. CASE r.kind = "duplicate"
      BY <2>2 DEF Others, Twins
    <2> QED BY <2>1, <2>2
  <1>5. Drops(Others(r)) /\ MediaOK'
    BY <1>1, <1>2, <1>4, NamesApart, JustGone DEF FormInv, Drops, Keeps
  <1>6. OwnersOK' /\ Follow(Others(r), r.src)
    BY <1>1, <1>2, RepointedIs DEF FormInv, OwnersOK, Follow
  <1> QED BY <1>1, <1>3, <1>4, <1>5, <1>6

LEMMA DoRemoves ==
    ASSUME FormInv, NEW r \in Request, r.kind \in {"delete", "damaged"}, Do(r)
    PROVE  /\ r.src \in CName /\ Drops({r.src}) /\ MediaOK' /\ OwnersOK'
           /\ owner' = owner
  <1>1. clock' = clock + 1 /\ r.src \in CName
    BY SourceIsName DEF Do
  <1>2. media' = Stamped(Without(media, {r.src}), media[r.src].inode) /\ owner' = owner
    BY DEF Do, DoRemove
  <1>3. Drops({r.src}) /\ MediaOK'
    BY <1>1, <1>2, JustGone DEF FormInv, Drops, Keeps
  <1> QED BY <1>1, <1>2, <1>3 DEF FormInv, OwnersOK

LEMMA DoRefers ==
    ASSUME FormInv, NEW r \in Request, r.kind \in {"manage", "repair", "match"}, Do(r)
    PROVE  /\ r.obj \in CObj /\ UNCHANGED <<media, clock>> /\ MediaOK' /\ OwnersOK'
           /\ \A x \in CObj : x # r.obj => owner'[x] = owner[x]
  <1>1. /\ UNCHANGED <<media, clock>>
        /\ owner' = [owner EXCEPT ![r.obj].path = IF r.kind = "manage" /\ r.dst = NoName THEN NoName ELSE r.src]
    BY DEF Do, DoReference
  <1>2. r.obj \in CObj /\ r.src \in CName \cup {NoName}
    BY RequestOfKind, NamesApart
  <1>3. MediaOK'
    BY <1>1 DEF FormInv, MediaOK, There
  <1>4. OwnersOK' /\ \A x \in CObj : x # r.obj => owner'[x] = owner[x]
    BY <1>1, <1>2 DEF FormInv, OwnersOK
  <1> QED BY <1>1, <1>2, <1>3, <1>4

LEMMA DoKeeps ==
    ASSUME FormInv, NEW r \in Request, CanPreview(r, media, owner), Do(r)
    PROVE  MediaOK' /\ OwnersOK'
  BY RequestOfKind, DoMoves, DoMerges, DoRemoves, DoRefers, Zenon

-------------------------------------------------------------------------------
\* A request that is done as its page showed it.
LEMMA DoneAsSeen ==
    ASSUME FormInv, NEW r \in Request, Accepted(r, page), Do(r),
           r.kind = "match" => page.owner[r.obj].path = NoName
    PROVE  /\ \A p \in CName : (There(p, media) /\ ~There(p, media')) =>
                 /\ There(p, page.media) /\ page.media[p].sha = media[p].sha
                 /\ r.kind # "duplicate" => page.media[p] = media[p]
           /\ r.kind \notin {"duplicate", "restore"} =>
                 \A x \in CObj : owner'[x].path # owner[x].path => page.owner[x].path = owner[x].path
  <1>1. /\ CanPreview(r, media, owner)
        /\ Seen(r, page.media, page.owner) = Seen(r, media, owner)
    BY DEF Accepted
  <1>2. CASE r.kind \in {"rename", "restore"}
    <2>1. PICK q \in CPath : Moves(r.src, q)
      BY <1>1, <1>2, DoMoves
    <2>2. There(r.src, media)
      BY <1>1, <1>2, DoMoves
    <2>3. page.media[r.src] = media[r.src]
      BY <1>1, <1>2, ByKind DEF SeenRename, SeenFile
    <2>4. r.kind = "rename" => RefsOf(r.src, page.owner) = RefsOf(r.src, owner)
      BY <1>1, ByKind DEF SeenRename
    <2>5. \A p \in CName : There(p, media) /\ ~There(p, media') => p = r.src
      BY <2>1 DEF Moves, Keeps
    <2>6. \A x \in CObj : owner'[x].path # owner[x].path => x \in RefsOf(r.src, owner)
      BY <2>1 DEF Moves, Follow, RefsOf
    <2>7. \A x \in RefsOf(r.src, page.owner) : page.owner[x].path = r.src
      BY DEF RefsOf
    <2>8. \A x \in RefsOf(r.src, owner) : owner[x].path = r.src
      BY DEF RefsOf
    <2>9. r.kind = "rename" =>
              \A x \in CObj : owner'[x].path # owner[x].path => page.owner[x].path = owner[x].path
      BY <2>4, <2>6, <2>7, <2>8
    <2>10. There(r.src, page.media)
      BY <2>2, <2>3 DEF There
    <2> QED BY <1>2, <2>3, <2>5, <2>9, <2>10
  <1>3. CASE r.kind = "alias"
    <2>1. Drops(Others(r)) /\ Follow(Others(r), r.src)
      BY <1>1, <1>3, DoMerges
    <2>2. SeenAlias(r, page.media, page.owner) = SeenAlias(r, media, owner)
      BY <1>1, <1>3, ByKind
    <2>3. Aliases(r.src, page.media) = Aliases(r.src, media)
      BY <2>2 DEF SeenAlias
    <2>4. ASSUME NEW q \in Others(r)
          PROVE  /\ There(q, page.media) /\ page.media[q] = media[q]
                 /\ RefsOf(q, page.owner) = RefsOf(q, owner)
      <3>1. q \in Aliases(r.src, page.media) /\ q \in Aliases(r.src, media)
        BY <1>3, <2>3, <2>4 DEF Others
      <3>2. SeenAlias(r, page.media, page.owner)[q] = <<SeenFile(q, page.media), RefsOf(q, page.owner)>>
        BY <3>1 DEF SeenAlias
      <3>3. SeenAlias(r, media, owner)[q] = <<SeenFile(q, media), RefsOf(q, owner)>>
        BY <3>1 DEF SeenAlias
      <3>4. There(q, page.media)
        BY <3>1 DEF Aliases
      <3> QED BY <2>2, <3>2, <3>3, <3>4 DEF SeenFile
    <2>5. \A p \in CName : There(p, media) /\ ~There(p, media') => p \in Others(r)
      BY <2>1 DEF Drops, Keeps
    <2>6. ASSUME NEW x \in CObj, owner'[x].path # owner[x].path
          PROVE  page.owner[x].path = owner[x].path
      <3>1. owner[x].path \in Others(r)
        BY <2>1, <2>6 DEF Follow
      <3>2. x \in RefsOf(owner[x].path, owner)
        BY DEF RefsOf
      <3>3. x \in RefsOf(owner[x].path, page.owner)
        BY <2>4, <3>1, <3>2
      <3> QED BY <3>3 DEF RefsOf
    <2> QED BY <2>4, <2>5, <2>6
  <1>4. CASE r.kind = "duplicate"
    <2>1. Drops(Others(r)) /\ \A p \in Others(r) : media[p].sha = media[r.src].sha
      BY <1>1, <1>4, DoMerges
    <2>2. /\ Twins(r.src, page.media) = Twins(r.src, media)
          /\ page.media[r.src].sha = media[r.src].sha
      BY <1>1, <1>4, ByKind DEF SeenDuplicate
    <2>3. \A p \in Others(r) : There(p, page.media) /\ page.media[p].sha = page.media[r.src].sha
      BY <1>4, <2>2 DEF Others, Twins
    <2>4. \A p \in CName : There(p, media) /\ ~There(p, media') => p \in Others(r)
      BY <2>1 DEF Drops, Keeps
    <2> QED BY <1>4, <2>1, <2>2, <2>3, <2>4
  <1>5. CASE r.kind \in {"delete", "damaged"}
    <2>1. Drops({r.src}) /\ owner' = owner
      BY <1>5, DoRemoves
    <2>2. page.media[r.src] = media[r.src]
      BY <1>1, <1>5, ByKind DEF SeenFile
    <2>3. \A p \in CName : There(p, media) /\ ~There(p, media') => p = r.src
      BY <2>1 DEF Drops, Keeps
    <2> QED BY <2>1, <2>2, <2>3 DEF There
  <1>6. CASE r.kind \in {"manage", "repair", "match"}
    <2>1. media' = media /\ r.obj \in CObj /\ \A x \in CObj : x # r.obj => owner'[x] = owner[x]
      BY <1>6, DoRefers
    <2>2. page.owner[r.obj].path = owner[r.obj].path
      <3>1. CASE r.kind = "manage"
        BY <1>1, <3>1, ByKind DEF SeenManage
      <3>2. CASE r.kind = "repair"
        BY <1>1, <3>2, ByKind DEF SeenRepair
      <3>3. CASE r.kind = "match"
        BY <1>1, <3>3, ByKind DEF CanMatch
      <3> QED BY <1>6, <3>1, <3>2, <3>3
    <2> QED BY <2>1, <2>2
  <1> QED BY <1>2, <1>3, <1>4, <1>5, <1>6, RequestOfKind

\* Whoever is done with, references still find what they found.
LEMMA DoFollows ==
    ASSUME FormInv, NEW r \in Request, CanPreview(r, media, owner), r.kind = "damaged" => Unreferenced(r),
           Do(r), media' # media,
           NEW x \in CObj, owner[x].path # NoName, There(owner[x].path, media)
    PROVE  /\ owner'[x].path # NoName /\ There(owner'[x].path, media')
           /\ media'[owner'[x].path].sha = media[owner[x].path].sha
  <1>1. owner[x].path \in CName
    BY DEF FormInv, OwnersOK
  <1>2. CASE r.kind \in {"rename", "restore"}
    <2>1. PICK q \in CPath : Moves(r.src, q)
      BY <1>2, DoMoves
    <2>2. owner[x].path # q /\ q # NoName
      BY <2>1, NamesApart DEF Moves
    <2> QED BY <1>1, <2>1, <2>2 DEF Moves, Keeps, Follow
  <1>3. CASE r.kind \in {"alias", "duplicate"}
    <2>1. /\ There(r.src, media) /\ r.src \in CPath /\ Drops(Others(r)) /\ Follow(Others(r), r.src)
          /\ \A p \in Others(r) : media[p].sha = media[r.src].sha
      BY <1>3, DoMerges
    <2>2. r.src \in CName \ Others(r) /\ r.src # NoName
      BY <2>1, NamesApart DEF Others
    <2>3. Keeps(r.src)
      BY <2>1, <2>2 DEF Drops
    <2>4. CASE owner[x].path \in Others(r)
      BY <2>1, <2>2, <2>3, <2>4 DEF Follow, Keeps
    <2>5. CASE owner[x].path \notin Others(r)
      BY <1>1, <2>1, <2>5 DEF Follow, Drops, Keeps
    <2> QED BY <2>4, <2>5
  <1>4. CASE r.kind \in {"delete", "damaged"}
    <2>1. Drops({r.src}) /\ owner' = owner
      BY <1>4, DoRemoves
    <2>2. RefsOf(r.src, owner) = {}
      BY <1>4, ByKind DEF CanDelete, Unreferenced
    <2>3. owner[x].path # r.src
      BY <2>2 DEF RefsOf
    <2> QED BY <1>1, <2>1, <2>3 DEF Drops, Keeps
  <1>5. CASE r.kind \in {"manage", "repair", "match"}
    BY <1>5, DoRefers
  <1> QED BY <1>2, <1>3, <1>4, <1>5, RequestOfKind
-------------------------------------------------------------------------------
LEMMA InitForm == FormInit => FormInv
  <1> SUFFICES ASSUME FormInit PROVE FormInv
    OBVIOUS
  <1>1. media \in [CName -> {NoMedia} \cup [inode : 1..2, sha : CSha \cup {"bad"}, stamp : {0}]]
    BY DEF FormInit
  <1>2. \A x \in [inode : 1..2, sha : CSha \cup {"bad"}, stamp : {0}] : x \in CFile /\ x.stamp = 0
    BY DEF CFile
  <1>3. media \in CFiles /\ \A p \in CName : There(p, media) => media[p].stamp = 0
    BY <1>1, <1>2 DEF CFiles, There
  <1>4. MediaOK
    BY <1>3 DEF FormInit, MediaOK
  <1>5. OwnersOK
    BY DEF FormInit, OwnersOK
  <1>6. PageOK /\ BatchOK
    BY DEF FormInit, PageOK, BatchOK
  <1> QED BY <1>4, <1>5, <1>6 DEF FormInv

LEMMA ShowKeeps ==
    ASSUME FormInv,
           (\E r \in Request : ShowForm(r)) \/ (\E first, second \in Rename : ShowBatch(first, second)),
           page = NoPage
    PROVE  FormInv'
  <1>1. UNCHANGED <<media, owner, clock, batch, results>>
    BY DEF ShowForm, ShowBatch
  <1>2. batch = <<>>
    BY DEF FormInv, BatchOK, NoPage
  <1>3. MediaOK' /\ OwnersOK' /\ BatchOK'
    BY <1>1, <1>2 DEF FormInv, MediaOK, OwnersOK, BatchOK, There
  <1>4. PageOK'
    <2>1. ASSUME NEW r \in Request, ShowForm(r) PROVE PageOK'
      <3>1. page'.request = r /\ page'.owner = owner /\ CanPreview(r, media, owner)
        BY <2>1 DEF ShowForm
      <3>2. r.kind = "match" => owner[r.obj].path = NoName
        BY <3>1, ByKind DEF CanMatch
      <3> QED BY <3>1, <3>2 DEF PageOK
    <2>2. ASSUME NEW first \in Rename, NEW second \in Rename, ShowBatch(first, second) PROVE PageOK'
      BY <2>2 DEF ShowBatch, PageOK
    <2> QED BY <2>1, <2>2
  <1> QED BY <1>3, <1>4 DEF FormInv

\* A page that is posted, and what a batch has still to do.
LEMMA PostedForm ==
    ASSUME FormInv, NEW kind, Post(kind), kind # "batch", kind # "none"
    PROVE  /\ page.request \in Request /\ Accepted(page.request, page) /\ Do(page.request)
           /\ page.request.kind = "match" => page.owner[page.request.obj].path = NoName
           /\ UNCHANGED <<page, batch, results>>
  BY DEF FormInv, PageOK, Post, NoPage

LEMMA PostKeeps ==
    ASSUME FormInv, NEW kind, Post(kind), kind # "batch", kind # "none"
    PROVE  FormInv'
  <1>1. MediaOK' /\ OwnersOK'
    BY PostedForm, DoKeeps DEF Accepted
  <1>2. PageOK' /\ BatchOK'
    BY PostedForm DEF FormInv, PageOK, BatchOK
  <1> QED BY <1>1, <1>2 DEF FormInv

LEMMA PostBatchKeeps == FormInv /\ PostBatch => FormInv'
  <1> SUFFICES ASSUME FormInv, PostBatch PROVE FormInv'
    OBVIOUS
  <1>1. page.request.kind = "batch" /\ page.request.items \in Rename \X Rename
    BY RequestOfKind DEF FormInv, PageOK, PostBatch, NoPage
  <1>2. /\ batch' = page.request.items /\ results' = <<>> /\ UNCHANGED <<media, owner, clock, page>>
    BY DEF PostBatch
  <1>3. batch' \in Seq(Rename) /\ Len(batch') = 2
    <2>1. PICK first, second \in Rename : batch' = <<first, second>>
      BY <1>1, <1>2
    <2> QED BY <2>1
  <1>4. BatchOK'
    BY <1>1, <1>2, <1>3 DEF BatchOK
  <1>5. MediaOK' /\ OwnersOK' /\ PageOK'
    BY <1>2 DEF FormInv, MediaOK, OwnersOK, PageOK, There
  <1> QED BY <1>4, <1>5 DEF FormInv

LEMMA HeadOfBatch ==
    ASSUME FormInv, batch # <<>>
    PROVE  /\ Head(batch) \in Request /\ Head(batch).kind = "rename" /\ page.request.kind = "batch"
           /\ Tail(batch) \in Seq(Rename) /\ Len(Tail(batch)) = Len(batch) - 1
  <1>1. batch \in Seq(Rename) /\ page.request.kind = "batch"
    BY DEF FormInv, BatchOK
  <1>2. Head(batch) \in Rename /\ Tail(batch) \in Seq(Rename) /\ Len(Tail(batch)) = Len(batch) - 1
    BY <1>1
  <1> QED BY <1>1, <1>2 DEF Rename, Request

LEMMA BatchItemKeeps == FormInv /\ BatchItem => FormInv'
  <1> SUFFICES ASSUME FormInv, BatchItem PROVE FormInv'
    OBVIOUS
  <1>1. MediaOK' /\ OwnersOK'
    <2>1. CASE Accepted(Head(batch), page)
      BY <2>1, HeadOfBatch, DoKeeps DEF BatchItem, Accepted
    <2>2. CASE ~Accepted(Head(batch), page)
      BY <2>2 DEF BatchItem, FormInv, MediaOK, OwnersOK, There
    <2> QED BY <2>1, <2>2
  <1>2. page' = page /\ batch' = Tail(batch) /\ batch # <<>>
        /\ \E x \in {"success", "failed"} : results' = Append(results, x)
    BY DEF BatchItem
  <1>3. results \in Seq({"success", "failed"}) /\ Len(results) + Len(batch) = 2
    BY <1>2 DEF FormInv, BatchOK
  <1>4. results' \in Seq({"success", "failed"}) /\ Len(results') = Len(results) + 1
    BY <1>2, <1>3
  <1>5. BatchOK'
    <2>1. Len(results') + Len(batch') = 2
      BY <1>2, <1>3, <1>4, HeadOfBatch DEF FormInv, BatchOK
    <2> QED BY <1>2, <1>4, <2>1, HeadOfBatch DEF BatchOK
  <1> QED BY <1>1, <1>2, <1>5 DEF FormInv, PageOK

LEMMA OtherTabKeeps ==
    ASSUME FormInv, NEW r \in Request, OtherTab(r)
    PROVE  FormInv'
  <1>1. MediaOK' /\ OwnersOK'
    BY DoKeeps DEF OtherTab
  <1>2. PageOK' /\ BatchOK'
    BY DEF OtherTab, FormInv, PageOK, BatchOK
  <1> QED BY <1>1, <1>2 DEF FormInv

LEMMA EditOwnerKeeps ==
    ASSUME FormInv, NEW x \in CObj, NEW p \in CPath \cup {NoName}, EditOwner(x, p)
    PROVE  FormInv'
  <1>1. UNCHANGED <<media, clock, page, batch, results>>
    BY DEF EditOwner
  <1>2. OwnersOK'
    BY NamesApart DEF EditOwner, FormInv, OwnersOK
  <1> QED BY <1>1, <1>2 DEF FormInv, MediaOK, PageOK, BatchOK, There

LEMMA ChangeMediaKeeps ==
    ASSUME FormInv, NEW p \in CName, NEW sha \in CSha \cup {"bad"}, ChangeMedia(p, sha)
    PROVE  FormInv'
  <1>1. clock' = clock + 1 /\ UNCHANGED <<owner, page, batch, results>>
    BY DEF ChangeMedia
  <1>2. OwnersOK' /\ PageOK' /\ BatchOK'
    BY <1>1 DEF FormInv, OwnersOK, PageOK, BatchOK
  <1>3. media \in CFiles /\ clock \in Nat
    BY DEF FormInv, MediaOK
  <1>4. MediaOK'
    <2>1. CASE media' = Stamped(Without(media, {p}), media[p].inode)
      BY <1>1, <2>1, JustGone DEF FormInv
    <2>2. CASE media' = [q \in CName |-> IF There(q, media) /\ media[q].inode = media[p].inode
                                         THEN [media[q] EXCEPT !.sha = sha, !.stamp = clock + 1] ELSE media[q]]
      <3>1. ASSUME NEW q \in CName
            PROVE  /\ media'[q] \in {NoMedia} \cup CFile /\ (There(q, media') <=> There(q, media))
                   /\ There(q, media) =>
                        /\ media'[q].inode = media[q].inode
                        /\ media'[q].stamp \in {media[q].stamp, clock + 1}
                        /\ media'[q].sha = IF media[q].inode = media[p].inode THEN sha ELSE media[q].sha
        <4>1. CASE There(q, media) /\ media[q].inode = media[p].inode
          <5>1. media'[q] = [media[q] EXCEPT !.sha = sha, !.stamp = clock + 1] /\ media[q] \in CFile
            BY <1>3, <2>2, <4>1, FileFacts DEF There, CFiles
          <5>2. /\ media'[q] \in CFile /\ media'[q].inode = media[q].inode
                /\ media'[q].stamp = clock + 1 /\ media'[q].sha = sha
            <6>1. media'[q] = [inode |-> media[q].inode, sha |-> sha, stamp |-> clock + 1]
              BY <5>1 DEF CFile
            <6> QED BY <1>3, <5>1, <6>1 DEF CFile
          <5> QED BY <4>1, <5>2, FileFacts DEF There
        <4>2. CASE ~(There(q, media) /\ media[q].inode = media[p].inode)
          <5>1. media'[q] = media[q]
            BY <2>2, <4>2
          <5> QED BY <1>3, <4>2, <5>1 DEF There, CFiles
        <4> QED BY <4>1, <4>2
      <3>2. media' \in CFiles
        BY <2>2, <3>1 DEF CFiles
      <3>3. ASSUME NEW q \in CName, There(q, media') PROVE media'[q].stamp <= clock'
        <4>1. There(q, media) /\ media'[q].stamp \in {media[q].stamp, clock + 1}
          BY <3>1, <3>3
        <4>2. media[q].stamp \in Nat /\ media[q].stamp <= clock
          BY <4>1, FileFacts DEF FormInv, MediaOK, There, CFiles
        <4> QED BY <1>1, <1>3, <4>1, <4>2
      <3>4. ASSUME NEW x \in CName, NEW y \in CName, There(x, media'), There(y, media'),
                   media'[x].inode = media'[y].inode
            PROVE  media'[x].sha = media'[y].sha
        <4>1. There(x, media) /\ There(y, media) /\ media[x].inode = media[y].inode
          BY <3>1, <3>4
        <4>2. media[x].sha = media[y].sha
          BY <4>1 DEF FormInv, MediaOK
        <4> QED BY <3>1, <4>1, <4>2
      <3> QED BY <1>1, <1>3, <3>2, <3>3, <3>4 DEF MediaOK, There
    <2>3. ASSUME NEW i \in 1..Cardinality(CName), \A q \in CName : media[q].inode # i,
                 media' = [media EXCEPT ![p] = [inode |-> i, sha |-> sha, stamp |-> clock + 1]]
          PROVE  MediaOK'
      <3>1. i \in Nat \ {0}
        BY <2>3
      <3>2. media'[p] \in CFile /\ media'[p].inode = i /\ media'[p].stamp = clock + 1
        BY <1>3, <2>3, <3>1 DEF CFile, CFiles
      <3>3. media' \in CFiles /\ \A q \in CName \ {p} : media'[q] = media[q]
        BY <1>3, <2>3, <3>2 DEF CFiles
      <3>4. \A q \in CName : There(q, media') => media'[q].stamp <= clock'
        <4>1. \A q \in CName : media[q] \in CFile => media[q].stamp \in Nat
          BY FileFacts DEF CFile
        <4> QED BY <1>1, <1>3, <3>2, <3>3, <4>1, FileFacts DEF FormInv, MediaOK, There, CFiles
      <3>5. \A x, y \in CName : There(x, media') /\ There(y, media') /\ media'[x].inode = media'[y].inode
                                  => media'[x].sha = media'[y].sha
        BY <2>3, <3>2, <3>3 DEF FormInv, MediaOK, There
      <3> QED BY <1>1, <1>3, <3>3, <3>4, <3>5 DEF MediaOK, There
    <2> QED BY <2>1, <2>2, <2>3 DEF ChangeMedia
  <1> QED BY <1>2, <1>4 DEF FormInv

LEMMA NextForm == FormInv /\ [FormNext]_confirmVars => FormInv'
  <1> SUFFICES ASSUME FormInv, [FormNext]_confirmVars PROVE FormInv'
    OBVIOUS
  <1>1. CASE UNCHANGED confirmVars
    BY <1>1 DEF confirmVars, FormInv, MediaOK, OwnersOK, PageOK, BatchOK, There
  <1>2. ASSUME NEW kind \in {"rename", "alias", "duplicate", "restore", "delete", "damaged", "manage",
                             "repair", "match"}, Post(kind)
        PROVE  FormInv'
    BY <1>2, PostKeeps
  <1>3. CASE PostRename \/ PostAlias \/ PostDuplicate \/ PostRestore \/ PostDelete
             \/ PostDamaged \/ PostManage \/ PostRepair \/ PostMatch
    BY <1>2, <1>3 DEF PostRename, PostAlias, PostDuplicate, PostRestore, PostDelete, PostDamaged,
                      PostManage, PostRepair, PostMatch
  <1> QED BY <1>1, <1>3, ShowKeeps, PostBatchKeeps, BatchItemKeeps, OtherTabKeeps, EditOwnerKeeps,
             ChangeMediaKeeps, Zenon DEF FormNext

LEMMA FormHolds == FormSpec => []FormInv
  BY InitForm, NextForm, PTL DEF FormSpec

\* Files, references and a batch's results keep their shape, for any names,
\* objects and contents and any number of changes beside the forms.
THEOREM FormsTyped == FormSpec => []ConfirmTypeOK
  <1>1. FormInv => ConfirmTypeOK
    <2> SUFFICES ASSUME FormInv PROVE ConfirmTypeOK
      OBVIOUS
    <2>1. ASSUME NEW p \in CName, There(p, media)
          PROVE  media[p].sha \in CSha \cup {"bad"} /\ media[p].stamp \in 0..clock
      BY <2>1, FileFacts DEF FormInv, MediaOK, CFiles, There
    <2>2. \A x \in CObj : owner[x].path \in CName \cup {NoName} /\ owner[x].rev \in 0..1
      BY DEF FormInv, OwnersOK
    <2> QED BY <2>1, <2>2 DEF ConfirmTypeOK, FormInv, BatchOK
  <1> QED BY <1>1, FormHolds, PTL

\* What a step in the name of the page does is what the page showed.
LEMMA PageIsDone ==
    ASSUME FormInv, [FormNext]_confirmVars, carried' = "page", ~UNCHANGED confirmVars
    PROVE  \/ UNCHANGED <<media, owner>>
           \/ \E r \in Request :
                 /\ Accepted(r, page) /\ Do(r)
                 /\ r.kind = "match" => page.owner[r.obj].path = NoName
                 /\ \/ page.request.kind = r.kind
                    \/ r.kind = "rename" /\ page.request.kind = "batch"
  <1>1. CASE BatchItem
    BY <1>1, HeadOfBatch DEF BatchItem
  <1>2. ASSUME NEW kind \in {"rename", "alias", "duplicate", "restore", "delete", "damaged", "manage",
                             "repair", "match"}, Post(kind)
        PROVE  \E r \in Request :
                 /\ Accepted(r, page) /\ Do(r)
                 /\ r.kind = "match" => page.owner[r.obj].path = NoName
                 /\ page.request.kind = r.kind
    BY <1>2, PostedForm
  <1>3. CASE PostRename \/ PostAlias \/ PostDuplicate \/ PostRestore \/ PostDelete
             \/ PostDamaged \/ PostManage \/ PostRepair \/ PostMatch
    <2>1. \E kind \in {"rename", "alias", "duplicate", "restore", "delete", "damaged", "manage",
                       "repair", "match"} : Post(kind)
      BY <1>3 DEF PostRename, PostAlias, PostDuplicate, PostRestore, PostDelete, PostDamaged,
                  PostManage, PostRepair, PostMatch
    <2> QED BY <1>2, <2>1
  <1>4. CASE \E r \in Request : ShowForm(r) \/ OtherTab(r)
    BY <1>4 DEF ShowForm, OtherTab
  <1>5. CASE (\E first, second \in Rename : ShowBatch(first, second)) \/ PostBatch
    BY <1>5 DEF ShowBatch, PostBatch
  <1>6. CASE \/ \E x \in CObj, p \in CPath \cup {NoName} : EditOwner(x, p)
             \/ \E p \in CName, sha \in CSha \cup {"bad"} : ChangeMedia(p, sha)
    BY <1>6 DEF EditOwner, ChangeMedia
  <1> QED BY <1>1, <1>3, <1>4, <1>5, <1>6, Zenon DEF FormNext

AsShown ==
    carried' = "page" =>
         /\ \A p \in CName : (There(p, media) /\ ~There(p, media')) =>
               There(p, page.media) /\ page.media[p].sha = media[p].sha
                  /\ (page.request.kind # "duplicate" => page.media[p] = media[p])
         /\ page.request.kind \notin {"duplicate", "restore"} =>
               \A x \in CObj : owner'[x].path # owner[x].path => page.owner[x].path = owner[x].path

\* A confirmation takes away what its page showed and nothing else, whatever other
\* tabs, pages and programs did since: the comparison under the write lock covers
\* every file that goes and every reference that changes.
THEOREM DoneAsShown == FormSpec => ConfirmedAsShown
  <1>1. FormInv /\ [FormNext]_confirmVars => [AsShown]_confirmVars
    <2> SUFFICES ASSUME FormInv, [FormNext]_confirmVars, ~UNCHANGED confirmVars, carried' = "page"
                 PROVE  AsShown
      BY DEF AsShown
    <2>1. CASE UNCHANGED <<media, owner>>
      BY <2>1 DEF AsShown, There
    <2>2. ASSUME NEW r \in Request, Accepted(r, page), Do(r),
                 r.kind = "match" => page.owner[r.obj].path = NoName,
                 page.request.kind = r.kind \/ (r.kind = "rename" /\ page.request.kind = "batch")
          PROVE  AsShown
      BY <2>2, DoneAsSeen DEF AsShown
    <2> QED BY <2>1, <2>2, PageIsDone
  <1> QED BY <1>1, FormHolds, PTL DEF FormSpec, ConfirmedAsShown, AsShown

Follows ==
    (carried' # "none" /\ media' # media) =>
         \A x \in CObj :
            LET p == owner[x].path
                q == owner'[x].path
            IN (p # NoName /\ There(p, media)) =>
                  q # NoName /\ There(q, media') /\ media'[q].sha = media[p].sha

\* No confirmation, of any form in any tab, leaves an object without the content
\* it had, also where its page posts nothing of the references.
THEOREM ReferencesAreFollowed == FormSpec => ReferencesFollow
  <1>1. FormInv /\ [FormNext]_confirmVars => [Follows]_confirmVars
    <2> SUFFICES ASSUME FormInv, [FormNext]_confirmVars, ~UNCHANGED confirmVars,
                        carried' # "none", media' # media
                 PROVE  Follows
      BY DEF Follows
    <2>1. ASSUME NEW r \in Request, CanPreview(r, media, owner), r.kind = "damaged" => Unreferenced(r), Do(r)
          PROVE  Follows
      BY <2>1, DoFollows DEF Follows
    <2>2. ASSUME NEW r \in Request, Accepted(r, page), Do(r) PROVE Follows
      BY <2>1, <2>2 DEF Accepted
    <2>3. CASE carried' = "page"
      BY <2>2, <2>3, PageIsDone
    <2>4. CASE carried' # "page"
      <3>1. \E r \in Request : OtherTab(r)
        BY <2>4 DEF FormNext, ShowForm, ShowBatch, PostBatch, BatchItem, EditOwner, ChangeMedia, Post,
                    PostRename, PostAlias, PostDuplicate, PostRestore, PostDelete, PostDamaged,
                    PostManage, PostRepair, PostMatch
      <3> QED BY <2>1, <3>1 DEF OtherTab
    <2> QED BY <2>3, <2>4
  <1> QED BY <1>1, FormHolds, PTL DEF FormSpec, ReferencesFollow, Follows

----------------------------------------------------------------------------
(* The three confirmations beside each other                                *)

\* A plan writes texts that an item may have.
Texts(plan) ==
    /\ plan.changes["summary"].proposed \in Summaries
    /\ plan.action = "create" => plan.changes["title"].proposed \in Titles

ApplyShape ==
    /\ fetched \in 0..MaxFetch
    /\ session \in [login: 1..MaxLogin, signedIn: BOOLEAN, nonce: BOOLEAN]
    /\ \A f \in 1..MaxFetch : token[f] # NoToken => token[f].login \in 1..MaxLogin /\ Texts(token[f].plan)
    /\ \A r \in Confirm : req[r].pc \in {"idle", "begin", "verify", "inspect", "done"}

TaskStates ==
    {NoTask, TaskAt("running", "written", 2), TaskAt("paused", "written", 3),
     TaskAt("succeeded", "committed_verified", 3),
     TaskAt("outcome_unknown", "verification_unknown", 4)}

UpdateShape == uwritten \subseteq Plans /\ \A p \in Plans : mtask[p] \in TaskStates

\* What does not run stays as it started.
ConfirmInv ==
    /\ RowsTypeOK
    /\ IF live = "apply" THEN SoundInv /\ ApplyShape ELSE ApplyStart
    /\ IF live = "update" THEN UpdateInv /\ UpdateShape ELSE UpdateStart

----------------------------------------------------------------------------
LEMMA PageTyped == RowsTypeOK /\ PageEdit => RowsTypeOK'
  <1> SUFFICES ASSUME RowsTypeOK, PageEdit PROVE RowsTypeOK'
    OBVIOUS
  <1>1. RowsOK'
    BY PageRows DEF RowsTypeOK, RowsOK
  <1>2. orphans' = orphans /\ edits \in 0..MaxEdits /\ edits < MaxEdits /\ edits' = edits + 1
    BY DEF PageEdit, EditItem, DeleteItem, AddItemSource, DeleteItemSource, RowsTypeOK
  <1>3. edits' \in 0..MaxEdits
    BY <1>2, RowsAssumption
  <1>4. QED
    BY <1>1, <1>2, <1>3 DEF RowsTypeOK, RowsOK

LEMMA ProtectedProposal ==
    ASSUME NEW x, NEW current, NEW proposed, x = ProtectedChange(current, proposed)
    PROVE  x.proposed = proposed
  <1>1. CASE current = Blank /\ proposed # Blank
    <2>1. x = Change("fill_blank", current, proposed, TRUE)
      BY <1>1, Zenon DEF ProtectedChange
    <2>2. QED
      BY <2>1 DEF Change
  <1>2. CASE ~(current = Blank /\ proposed # Blank)
    <2>1. x = Change("keep_local", current, proposed, FALSE)
      BY <1>2, Zenon DEF ProtectedChange
    <2>2. QED
      BY <2>1 DEF Change
  <1>3. QED
    BY <1>1, <1>2

LEMMA BuiltTexts ==
    ASSUME NEW d, d.summary \in {Blank, "provided"}
    PROVE  Texts(BuildPlan(d))
  <1>1. CASE PlanAction = "create"
    <2> PICK plan, changes : plan = CreatePlan(d) /\ changes = CreateChanges(d)
      OBVIOUS
    <2>1. BuildPlan(d) = plan /\ plan.changes = changes
      BY <1>1 DEF BuildPlan, CreatePlan
    <2>2. \A f \in Fields : changes[f].proposed = Proposed(d, f)
      BY ChangeFields DEF CreateChanges
    <2>3. changes["title"].proposed = "provider title" /\ changes["summary"].proposed = d.summary
      BY <2>2 DEF Fields, Proposed
    <2>4. QED
      BY <2>1, <2>3 DEF Texts, Titles, Summaries
  <1>2. CASE PlanAction # "create"
    <2> PICK s : s = CHOOSE x \in IdentitySources : TRUE
      OBVIOUS
    <2> PICK plan, item, row : plan = UpdatePlan(d, s) /\ row = sources[s] /\ item = items[sources[s].item]
      OBVIOUS
    <2>1. BuildPlan(d) = plan
      BY <1>2 DEF BuildPlan
    <2>2. plan.action = "update" /\ plan.changes = UpdateChanges(d, item, row)
      BY DEF UpdatePlan
    <2>3. plan.changes["summary"] = ProtectedChange(item.summary, d.summary)
      BY <2>2 DEF UpdateChanges, Fields
    <2>4. plan.changes["summary"].proposed = d.summary
      BY <2>3, ProtectedProposal
    <2>5. QED
      BY <2>1, <2>2, <2>4 DEF Texts, Summaries
  <1>3. QED
    BY <1>1, <1>2

LEMMA PreviewShape ==
    ASSUME ApplyInv, ApplyShape, NEW summary \in {Blank, "provided"}, Preview(summary)
    PROVE  ApplyShape'
  <1> PICK d, new : d = [at |-> fetched + 1, summary |-> summary] /\ new = SignPlan(BuildPlan(d))
    OBVIOUS
  <1>1. /\ fetched < MaxFetch /\ fetched' = fetched + 1 /\ req' = req
        /\ \/ UNCHANGED <<token, session>>
           \/ token' = [token EXCEPT ![d.at] = new] /\ session' = [session EXCEPT !.nonce = TRUE]
    BY DEF Preview
  <1>2. fetched' \in 0..MaxFetch
    BY <1>1, RowsAssumption DEF ApplyShape
  <1>3. d.summary \in {Blank, "provided"}
    OBVIOUS
  <1>4. new.login = session.login /\ new.plan = BuildPlan(d) /\ session.login \in 1..MaxLogin
    BY DEF SignPlan, ApplyShape
  <1>5. new.login \in 1..MaxLogin /\ Texts(new.plan)
    BY <1>3, <1>4, BuiltTexts
  <1>6. \A f \in 1..MaxFetch : token'[f] \in {token[f], new}
    BY <1>1 DEF ApplyInv, TokensOK
  <1>7. session' \in [login: 1..MaxLogin, signedIn: BOOLEAN, nonce: BOOLEAN]
    BY <1>1 DEF ApplyShape
  <1>8. QED
    BY <1>1, <1>2, <1>5, <1>6, <1>7 DEF ApplyShape, Texts

LEMMA SessionShape ==
    ASSUME ApplyShape, Login \/ Logout
    PROVE  ApplyShape'
  <1>1. session' \in [login: 1..MaxLogin, signedIn: BOOLEAN, nonce: BOOLEAN]
    <2>1. CASE Login
      <3>1. session.login \in 1..MaxLogin /\ session.login < MaxLogin /\ MaxLogin \in Nat
        BY <2>1, ApplyAssumption DEF Login, ApplyShape
      <3>2. session.login + 1 \in 1..MaxLogin
        BY <3>1
      <3>3. QED
        BY <2>1, <3>2 DEF Login
    <2>2. CASE Logout
      BY <2>2 DEF Logout, ApplyShape
    <2>3. QED
      BY <2>1, <2>2
  <1>2. UNCHANGED <<fetched, token, req>>
    BY DEF Login, Logout
  <1>3. QED
    BY <1>1, <1>2 DEF ApplyShape, Texts

\* The steps of a request reach only its own states.
LEMMA RequestReaches ==
    ASSUME ApplyInv, ApplyShape, NEW r \in Confirm, UNCHANGED <<fetched, token, session>>,
           NEW pc \in {"idle", "begin", "verify", "inspect", "done"}, NEW x, x.pc = pc,
           req' = [req EXCEPT ![r] = x]
    PROVE  ApplyShape'
  BY DEF ApplyShape, Texts, ApplyInv, RequestsOK

LEMMA RequestsShape ==
    ASSUME ApplyInv, ApplyShape, NEW r \in Confirm,
           \/ \E f \in 1..MaxFetch : ConfirmToken(r, f)
           \/ BeginFails(r) \/ Stale(r) \/ VerifyCommit(r) \/ Classify(r) \/ LookFails(r)
           \/ \E outcome \in {"ok", "failed", "lost"} : Transact(r, outcome)
    PROVE  ApplyShape'
  <1> PICK z : z = [pc |-> req[r].pc, tok |-> req[r].tok, login |-> req[r].login,
                    pre |-> req[r].pre, post |-> req[r].post, report |-> req[r].report]
    OBVIOUS
  <1>1. req[r] = z
    BY RequestFields DEF IsRequest
  <1>3. ASSUME NEW f \in 1..MaxFetch, ConfirmToken(r, f) PROVE ApplyShape'
    <2>1. CASE req' = [req EXCEPT ![r].pc = "begin", ![r].tok = f, ![r].login = session.login]
      <3>1. PICK x : x = [z EXCEPT !.pc = "begin", !.tok = f, !.login = session.login]
        OBVIOUS
      <3>2. req' = [req EXCEPT ![r] = x] /\ x.pc = "begin"
        BY <1>1, <2>1, <3>1
      <3>3. QED
        BY <1>3, <3>2, RequestReaches DEF ConfirmToken
    <2>2. CASE req' = [req EXCEPT ![r].pc = "done", ![r].tok = f, ![r].report = "refused"]
      <3>1. PICK x : x = [z EXCEPT !.pc = "done", !.tok = f, !.report = "refused"]
        OBVIOUS
      <3>2. req' = [req EXCEPT ![r] = x] /\ x.pc = "done"
        BY <1>1, <2>2, <3>1
      <3>3. QED
        BY <1>3, <3>2, RequestReaches DEF ConfirmToken
    <2>3. QED
      BY <1>3, <2>1, <2>2 DEF ConfirmToken
  <1>4. CASE BeginFails(r)
    <2>1. PICK x : x = [z EXCEPT !.pc = "inspect"]
      OBVIOUS
    <2>2. req' = [req EXCEPT ![r] = x] /\ x.pc = "inspect" /\ UNCHANGED <<fetched, token, session>>
      BY <1>1, <1>4, <2>1 DEF BeginFails
    <2>3. QED
      BY <2>2, RequestReaches
  <1>5. CASE Stale(r)
    <2>1. PICK x : x = [z EXCEPT !.pc = "done", !.report = "stale_plan"]
      OBVIOUS
    <2>2. req' = [req EXCEPT ![r] = x] /\ x.pc = "done" /\ UNCHANGED <<fetched, token, session>>
      BY <1>1, <1>5, <2>1 DEF Stale
    <2>3. QED
      BY <2>2, RequestReaches
  <1>6. ASSUME NEW report, Report(r, report) PROVE ApplyShape'
    <2>1. PICK post : post = IF r \in standing THEN req[r].post ELSE NoState
      OBVIOUS
    <2>2. PICK x : x = [z EXCEPT !.pc = "done", !.report = report, !.pre = NoState, !.post = post]
      OBVIOUS
    <2>3. req' = [req EXCEPT ![r] = x] /\ x.pc = "done" /\ UNCHANGED <<fetched, token, session>>
      BY <1>1, <1>6, <2>1, <2>2 DEF Report
    <2>4. QED
      BY <2>3, RequestReaches
  <1>7. CASE VerifyCommit(r) \/ Classify(r) \/ LookFails(r)
    BY <1>6, <1>7 DEF VerifyCommit, Classify, LookFails
  <1>8. ASSUME NEW outcome \in {"ok", "failed", "lost"}, Transact(r, outcome) PROVE ApplyShape'
    <2>1. /\ req'[r].pc \in {"verify", "inspect"} /\ req' = [q \in Confirm |-> req'[q]]
          /\ \A q \in Confirm : q # r => req'[q] = req[q]
      BY <1>8, TransactFacts
    <2>2. UNCHANGED <<fetched, token, session>>
      BY <1>8 DEF Transact
    <2>3. QED
      BY <2>1, <2>2 DEF ApplyShape, Texts
  <1>9. QED
    BY <1>3, <1>4, <1>5, <1>7, <1>8

LEMMA ApplyShapeStays ==
    ASSUME ApplyInv, ApplyShape, [ApplyNext]_<<rowVars, applyVars>>
    PROVE  ApplyShape'
  <1>1. CASE Page \/ UNCHANGED <<rowVars, applyVars>>
    BY <1>1 DEF Page, applyVars, ApplyShape, Texts
  <1>2. CASE Login \/ Logout
    BY <1>2, SessionShape
  <1>3. CASE \E summary \in {Blank, "provided"} : Preview(summary)
    BY <1>3, PreviewShape
  <1>4. CASE \E r \in Confirm :
               \/ \E f \in 1..MaxFetch : ConfirmToken(r, f)
               \/ BeginFails(r) \/ Stale(r) \/ VerifyCommit(r) \/ Classify(r) \/ LookFails(r)
               \/ \E outcome \in {"ok", "failed", "lost"} : Transact(r, outcome)
    BY <1>4, RequestsShape
  <1>5. QED
    BY <1>1, <1>2, <1>3, <1>4 DEF ApplyNext

LEMMA WrittenTexts ==
    ASSUME NEW plan, Texts(plan), plan.action \in {"create", "update"},
           plan.action = "update" => plan.item \in ItemRow
    PROVE  \A i, s : PostState(plan, i, s).seen.item \in ItemRow
  <1> PICK new : new = plan.changes["summary"].proposed
    OBVIOUS
  <1>1. new \in Summaries
    BY DEF Texts
  <1>2. CASE plan.action = "create"
    <2>1. PICK x : x = NewItem(plan)
      OBVIOUS
    <2>2. x \in ItemRow
      BY <1>1, <1>2, <2>1 DEF Texts, NewItem, ItemRow
    <2>3. \A i, s : PostState(plan, i, s).seen.item = x
      BY <1>2, <2>1 DEF PostState
    <2>4. QED
      BY <2>2, <2>3
  <1>3. CASE plan.action = "update"
    <2> PICK item, text : item = plan.item /\ text = Written(plan, "summary", item.summary)
      OBVIOUS
    <2>1. item \in ItemRow /\ text \in Summaries
      BY <1>1, <1>3 DEF Written, ItemRow
    <2>2. PICK x : x = [item EXCEPT !.summary = text]
      OBVIOUS
    <2>3. x \in ItemRow
      BY <2>1, <2>2 DEF ItemRow
    <2>4. UpdatedItem(plan) = x
      BY <2>2 DEF UpdatedItem
    <2>5. \A i, s : PostState(plan, i, s).seen.item = x
      BY <1>3, <2>4 DEF PostState
    <2>6. QED
      BY <2>3, <2>5
  <1>4. QED
    BY <1>2, <1>3

LEMMA TransactTyped ==
    ASSUME ApplyInv, ApplyInv', ApplyShape, RowsTypeOK, NEW r \in Confirm,
           NEW outcome \in {"ok", "failed", "lost"}, Transact(r, outcome)
    PROVE  RowsTypeOK'
  <1> PICK plan, i : plan = Plan(r) /\ i = TargetItem(plan)
    OBVIOUS
  <1>1. /\ UNCHANGED <<orphans, edits>> /\ PreStateHolds(plan) /\ i \in 1..MaxId
        /\ items' = items \/ items' = [items EXCEPT ![i] = WrittenRow(r).seen.item]
    BY DEF Transact, WrittenRow
  <1>2. req[r].tok \in 1..MaxFetch /\ token[req[r].tok] # NoToken
    <2>1. RequestOK(r) /\ req[r].pc = "begin"
      BY DEF Transact, ApplyInv, RequestsOK
    <2>2. QED
      BY <2>1, RowsAssumption DEF RequestOK
  <1>3. Texts(plan) /\ plan.action \in {"create", "update"}
    BY <1>2 DEF ApplyShape, ApplyInv, TokensOK, TokenOK, Plan
  <1>4. plan.action = "update" => plan.item \in ItemRow
    <2> SUFFICES ASSUME plan.action = "update" PROVE plan.item \in ItemRow
      OBVIOUS
    <2>1. Observe(i).item = plan.item /\ plan.item # NoItem /\ i = plan.itemId
      BY <1>1 DEF PreStateHolds, TargetItem
    <2>2. Observe(i).item = items[i]
      BY <1>1, RowsAssumption DEF Observe
    <2>3. QED
      BY <1>1, <2>1, <2>2 DEF RowsTypeOK
  <1>5. WrittenRow(r).seen.item \in ItemRow
    BY <1>3, <1>4, WrittenTexts DEF WrittenRow
  <1>6. items' \in [1..MaxId -> ItemRow \cup {NoItem}]
    BY <1>1, <1>5 DEF RowsTypeOK
  <1>7. QED
    BY <1>1, <1>6 DEF RowsTypeOK, ApplyInv, SourcesOK

LEMMA ApplyRowsTyped ==
    ASSUME SoundInv, SoundInv', ApplyShape, RowsTypeOK, [ApplyNext]_<<rowVars, applyVars>>
    PROVE  RowsTypeOK'
  <1>1. CASE Page
    BY <1>1, PageTyped DEF Page
  <1>2. CASE Login \/ Logout \/ (\E summary \in {Blank, "provided"} : Preview(summary))
             \/ UNCHANGED <<rowVars, applyVars>>
    <2>1. UNCHANGED rowVars
      BY <1>2 DEF Login, Logout, Preview
    <2>2. QED
      BY <2>1 DEF rowVars, RowsTypeOK
  <1>3. CASE \E r \in Confirm :
               \/ \E f \in 1..MaxFetch : ConfirmToken(r, f)
               \/ BeginFails(r) \/ Stale(r) \/ VerifyCommit(r) \/ Classify(r) \/ LookFails(r)
    <2>1. UNCHANGED rowVars
      BY <1>3 DEF ConfirmToken, BeginFails, Stale, VerifyCommit, Classify, LookFails, Report
    <2>2. QED
      BY <2>1 DEF rowVars, RowsTypeOK
  <1>4. CASE \E r \in Confirm, outcome \in {"ok", "failed", "lost"} : Transact(r, outcome)
    BY <1>4, TransactTyped DEF SoundInv
  <1>5. QED
    BY <1>1, <1>2, <1>3, <1>4 DEF ApplyNext

----------------------------------------------------------------------------
\* A step that changes one task.
LEMMA TaskReaches ==
    ASSUME UpdateInv, UpdateShape, NEW p \in Plans, NEW x \in TaskStates,
           mtask' = [mtask EXCEPT ![p] = x], uwritten' = uwritten
    PROVE  UpdateShape'
  BY DEF UpdateShape, UpdateInv, TasksOK

LEMMA RunningTask ==
    ASSUME UpdateShape, NEW p \in Plans
    PROVE  /\ mtask[p].state = "running" => mtask[p] = TaskAt("running", "written", 2)
           /\ mtask[p].state = "succeeded" => mtask[p] = TaskAt("succeeded", "committed_verified", 3)
  BY DEF UpdateShape, TaskStates, TaskAt, NoTask

LEMMA PausedTask ==
    [TaskAt("running", "written", 2) EXCEPT !.state = "paused", !.version = @ + 1]
        = TaskAt("paused", "written", 3)
  <1> PICK x, y : /\ x = [state |-> "running", stage |-> "written", version |-> 2]
                  /\ y = [x EXCEPT !.state = "paused", !.version = x.version + 1]
    OBVIOUS
  <1>1. y = [state |-> "paused", stage |-> "written", version |-> x.version + 1]
    OBVIOUS
  <1>2. x.version + 1 = 3
    OBVIOUS
  <1>3. y = [state |-> "paused", stage |-> "written", version |-> 3]
    BY <1>1, <1>2
  <1>4. QED
    BY <1>3 DEF TaskAt

LEMMA TaskPagesShape ==
    ASSUME UpdateInv, UpdateShape, NEW p \in Plans, PauseTask(p) \/ DeleteTask(p)
    PROVE  UpdateShape'
  <1>1. CASE PauseTask(p)
    <2>1. mtask[p] = TaskAt("running", "written", 2)
      BY <1>1, RunningTask DEF PauseTask
    <2>2. mtask' = [mtask EXCEPT ![p] = [mtask[p] EXCEPT !.state = "paused", !.version = @ + 1]]
      BY <1>1 DEF PauseTask, UpdateInv, TasksOK
    <2>3. mtask' = [mtask EXCEPT ![p] = TaskAt("paused", "written", 3)]
      BY <2>1, <2>2, PausedTask
    <2>4. TaskAt("paused", "written", 3) \in TaskStates
      BY DEF TaskStates
    <2>5. QED
      BY <1>1, <2>3, <2>4, TaskReaches DEF PauseTask
  <1>2. CASE DeleteTask(p)
    <2>1. NoTask \in TaskStates
      BY DEF TaskStates
    <2>2. QED
      BY <1>2, <2>1, TaskReaches DEF DeleteTask
  <1>3. QED
    BY <1>1, <1>2

LEMMA RestartShape ==
    ASSUME UpdateInv, UpdateShape, Restart
    PROVE  UpdateShape'
  <1>1. ASSUME NEW p \in Plans PROVE mtask'[p] \in TaskStates
    <2>1. CASE mtask[p].state = "running"
      <3>1. mtask'[p] = [mtask[p] EXCEPT !.state = "paused", !.version = @ + 1]
        BY <2>1 DEF Restart
      <3>2. mtask'[p] = TaskAt("paused", "written", 3)
        BY <2>1, <3>1, RunningTask, PausedTask
      <3>3. QED
        BY <3>2 DEF TaskStates
    <2>2. CASE mtask[p].state # "running"
      BY <2>2 DEF Restart, UpdateShape
    <2>3. QED
      BY <2>1, <2>2
  <1>2. QED
    BY <1>1 DEF Restart, UpdateShape

LEMMA WriteFieldsShape ==
    ASSUME UpdateInv, UpdateShape, NEW r \in Update, NEW outcome, NEW noticed, WriteFields(r, outcome, noticed)
    PROVE  UpdateShape'
  <1> PICK p, x : p = ThePlan(r) /\ x = TaskAt("running", "written", 2)
    OBVIOUS
  <1>1. p \in Plans /\ x \in TaskStates
    BY PlanFacts DEF WriteFields, UpdateInv, URequestsOK, URequestOK, PlanOK, TaskStates
  <1>2. \/ UNCHANGED <<mtask, uwritten>>
        \/ mtask' = [mtask EXCEPT ![p] = x] /\ uwritten' = uwritten \cup {p}
    BY DEF WriteFields
  <1>3. QED
    BY <1>1, <1>2 DEF UpdateShape, UpdateInv, TasksOK

LEMMA MarksShape ==
    ASSUME UpdateInv, UpdateShape, NEW r \in Update, NEW ok, NEW marked,
           MarkSucceeded(r, ok) \/ LastLook(r, ok, marked)
    PROVE  UpdateShape'
  <1> PICK p : p = ThePlan(r)
    OBVIOUS
  <1>1. p \in Plans
    BY DEF MarkSucceeded, LastLook, UpdateInv, URequestsOK, URequestOK, PlanOK
  <1>2. CASE MarkSucceeded(r, ok) /\ mtask[p].state = "running" /\ mtask' # mtask
    <2>1. mtask[p].version = 2
      BY <1>1, <1>2, RunningTask DEF TaskAt
    <2>2. mtask' = [mtask EXCEPT ![p] = TaskAt("succeeded", "committed_verified", mtask[p].version + 1)]
      BY <1>2 DEF MarkSucceeded
    <2>3. mtask' = [mtask EXCEPT ![p] = TaskAt("succeeded", "committed_verified", 3)]
      BY <2>1, <2>2
    <2>4. TaskAt("succeeded", "committed_verified", 3) \in TaskStates
      BY DEF TaskStates
    <2>5. QED
      BY <1>1, <1>2, <2>3, <2>4, TaskReaches DEF MarkSucceeded
  <1>3. CASE LastLook(r, ok, marked) /\ mtask' # mtask
    <2>1. mtask' = [mtask EXCEPT ![p] = TaskAt("outcome_unknown", "verification_unknown", 4)]
      BY <1>3 DEF LastLook
    <2>2. TaskAt("outcome_unknown", "verification_unknown", 4) \in TaskStates
      BY DEF TaskStates
    <2>3. QED
      BY <1>1, <1>3, <2>1, <2>2, TaskReaches DEF LastLook
  <1>4. CASE mtask' = mtask
    BY <1>4 DEF MarkSucceeded, LastLook, UpdateShape
  <1>5. QED
    BY <1>2, <1>3, <1>4 DEF MarkSucceeded, MayMark, TheTask

LEMMA UpdateShapeStays ==
    ASSUME UpdateInv, UpdateShape, [UpdateNext]_<<rowVars, updateVars>>
    PROVE  UpdateShape'
  <1>1. CASE Restart
    BY <1>1, RestartShape
  <1>2. CASE \E p \in Plans : PauseTask(p) \/ DeleteTask(p)
    BY <1>2, TaskPagesShape
  <1>3. CASE \E r \in Update, outcome \in {"ok", "failed", "lost"}, noticed \in BOOLEAN :
               WriteFields(r, outcome, noticed)
    BY <1>3, WriteFieldsShape
  <1>4. CASE \E r \in Update, ok, marked \in BOOLEAN : MarkSucceeded(r, ok) \/ LastLook(r, ok, marked)
    BY <1>4, MarksShape
  <1>5. CASE UNCHANGED <<mtask, uwritten>>
    BY <1>5 DEF UpdateShape
  <1>6. UNCHANGED <<rowVars, updateVars>> => UNCHANGED <<mtask, uwritten>>
    BY DEF updateVars
  <1>7. ASSUME NEW c \in Checks,
               \/ \E s \in 1..MaxId : StartCheck(c, s)
               \/ \E summary \in {Blank, "provided"} : SucceedCheck(c, summary)
               \/ FailCheck(c) \/ ExpireFact(c) \/ ForgetCheck(c)
               \/ \E selected \in SUBSET MANUAL_UPDATE_FIELDS, noticed \in BOOLEAN :
                     UpdatePreview(c, selected, noticed)
        PROVE  UNCHANGED <<mtask, uwritten>>
    BY <1>7 DEF StartCheck, SucceedCheck, FailCheck, ExpireFact, ForgetCheck, UpdatePreview
  <1>8. ASSUME NEW r \in Update,
               \/ \E p \in signed, accepted \in BOOLEAN : UpdateConfirm(r, p, accepted)
               \/ UpdateBeginFails(r) \/ Replay(r)
               \/ \E noticed \in BOOLEAN : StalePlan(r, noticed)
               \/ \E ok \in BOOLEAN : EndReplay(r, ok) \/ FirstLook(r, ok) \/ FinalLook(r, ok)
        PROVE  UNCHANGED <<mtask, uwritten>>
    BY <1>8 DEF UpdateConfirm, UpdateBeginFails, Replay, StalePlan, EndReplay, FirstLook, FinalLook
  <1>9. PageBeside => UNCHANGED <<mtask, uwritten>>
    BY DEF PageBeside
  <1>10. QED
    BY <1>1, <1>2, <1>3, <1>4, <1>5, <1>6, <1>7, <1>8, <1>9 DEF UpdateNext

LEMMA UpdateRowsTyped ==
    ASSUME UpdateInv', RowsTypeOK, [UpdateNext]_<<rowVars, updateVars>>
    PROVE  RowsTypeOK'
  <1>1. CASE PageBeside
    BY <1>1, PageTyped DEF PageBeside
  <1>2. UNCHANGED <<orphans, edits>> \/ PageBeside
    <2>1. Restart \/ UNCHANGED <<rowVars, updateVars>> => UNCHANGED <<orphans, edits>>
      BY DEF Restart, rowVars
    <2>2. ASSUME NEW c \in Checks,
                 \/ \E s \in 1..MaxId : StartCheck(c, s)
                 \/ \E summary \in {Blank, "provided"} : SucceedCheck(c, summary)
                 \/ FailCheck(c) \/ ExpireFact(c) \/ ForgetCheck(c)
                 \/ \E selected \in SUBSET MANUAL_UPDATE_FIELDS, noticed \in BOOLEAN :
                       UpdatePreview(c, selected, noticed)
          PROVE  UNCHANGED <<orphans, edits>>
      BY <2>2 DEF StartCheck, SucceedCheck, FailCheck, ExpireFact, ForgetCheck, UpdatePreview, rowVars
    <2>3. ASSUME NEW p \in Plans, PauseTask(p) \/ DeleteTask(p)
          PROVE  UNCHANGED <<orphans, edits>>
      BY <2>3 DEF PauseTask, DeleteTask, rowVars
    <2>4. ASSUME NEW r \in Update,
                 \/ \E p \in signed, accepted \in BOOLEAN : UpdateConfirm(r, p, accepted)
                 \/ UpdateBeginFails(r) \/ Replay(r)
                 \/ \E noticed \in BOOLEAN :
                       \/ StalePlan(r, noticed)
                       \/ \E outcome \in {"ok", "failed", "lost"} : WriteFields(r, outcome, noticed)
          PROVE  UNCHANGED <<orphans, edits>>
      BY <2>4 DEF UpdateConfirm, UpdateBeginFails, Replay, StalePlan, WriteFields, rowVars
    <2>5. ASSUME NEW r \in Update, NEW ok \in BOOLEAN,
                 \/ EndReplay(r, ok) \/ FirstLook(r, ok) \/ MarkSucceeded(r, ok) \/ FinalLook(r, ok)
                 \/ \E marked \in BOOLEAN : LastLook(r, ok, marked)
          PROVE  UNCHANGED <<orphans, edits>>
      BY <2>5 DEF EndReplay, FirstLook, MarkSucceeded, FinalLook, LastLook, rowVars
    <2>6. QED
      BY <2>1, <2>2, <2>3, <2>4, <2>5 DEF UpdateNext
  <1>3. QED
    BY <1>1, <1>2 DEF UpdateInv, RowsOK, RowsTypeOK

----------------------------------------------------------------------------
LEMMA InitConfirmInv == ConfirmInit => ConfirmInv
  <1> SUFFICES ASSUME ConfirmInit PROVE ConfirmInv
    OBVIOUS
  <1>1. ApplyInit /\ UpdateInit /\ ApplyStart /\ UpdateStart
    BY DEF ConfirmInit, ApplyInit, UpdateInit
  <1>2. SoundInv /\ UpdateInv
    BY <1>1, InitSoundInv, InitUpdateInv
  <1>3. RowsTypeOK
    <2>1. orphans \in {{}, {2}} /\ edits = 0
      BY <1>1 DEF ApplyInit, RowsInit
    <2>2. orphans \subseteq 1..MaxId /\ edits \in 0..MaxEdits
      BY <2>1, RowsAssumption
    <2>3. QED
      BY <1>2, <2>2 DEF UpdateInv, RowsOK, RowsTypeOK
  <1>4. ApplyShape
    <2>1. fetched \in 0..MaxFetch /\ 1 \in 1..MaxLogin
      BY <1>1, RowsAssumption, ApplyAssumption DEF ApplyStart
    <2>2. session \in [login: 1..MaxLogin, signedIn: BOOLEAN, nonce: BOOLEAN]
      BY <1>1, <2>1 DEF ApplyStart
    <2>3. QED
      BY <1>1, <2>1, <2>2 DEF ApplyStart, ApplyShape, Idle
  <1>5. UpdateShape
    BY <1>1 DEF UpdateStart, UpdateShape, TaskStates
  <1>6. QED
    BY <1>1, <1>2, <1>3, <1>4, <1>5 DEF ConfirmInv

\* A step of one part is a step of it or leaves it as it is.
LEMMA StepOfOne ==
    ASSUME [ConfirmNext]_ConfirmVars
    PROVE  /\ live' = live
           /\ IF live = "apply" THEN [ApplyNext]_<<rowVars, applyVars>> ELSE UNCHANGED applyVars
           /\ IF live = "update" THEN [UpdateNext]_<<rowVars, updateVars>> ELSE UNCHANGED updateVars
           /\ live \notin {"apply", "update"} => UNCHANGED rowVars
           /\ [FormNext]_confirmVars
  BY DEF ConfirmNext, ConfirmVars

LEMMA NextConfirmInv == ConfirmInv /\ [ConfirmNext]_ConfirmVars => ConfirmInv'
  <1> SUFFICES ASSUME ConfirmInv, [ConfirmNext]_ConfirmVars PROVE ConfirmInv'
    OBVIOUS
  <1>1. live' = live
    BY StepOfOne
  <1>2. CASE live = "apply"
    <2>1. SoundInv /\ ApplyShape /\ UpdateStart /\ RowsTypeOK
      BY <1>2 DEF ConfirmInv
    <2>2. [ApplyNext]_<<rowVars, applyVars>> /\ UNCHANGED updateVars
      BY <1>2, StepOfOne
    <2>3. SoundInv' /\ ApplyShape'
      BY <2>1, <2>2, NextSoundInv, ApplyShapeStays DEF SoundInv
    <2>4. RowsTypeOK'
      BY <2>1, <2>2, <2>3, ApplyRowsTyped
    <2>5. UpdateStart'
      BY <2>1, <2>2 DEF UpdateStart, updateVars
    <2>6. QED
      BY <1>1, <1>2, <2>3, <2>4, <2>5 DEF ConfirmInv
  <1>3. CASE live = "update"
    <2>1. UpdateInv /\ UpdateShape /\ ApplyStart /\ RowsTypeOK
      BY <1>3 DEF ConfirmInv
    <2>2. [UpdateNext]_<<rowVars, updateVars>> /\ UNCHANGED applyVars
      BY <1>3, StepOfOne
    <2>3. UpdateInv' /\ UpdateShape'
      BY <2>1, <2>2, NextUpdateInv, UpdateShapeStays
    <2>4. RowsTypeOK'
      BY <2>1, <2>2, <2>3, UpdateRowsTyped
    <2>5. ApplyStart'
      BY <2>1, <2>2 DEF ApplyStart, applyVars
    <2>6. QED
      BY <1>1, <1>3, <2>3, <2>4, <2>5 DEF ConfirmInv
  <1>4. CASE live \notin {"apply", "update"}
    <2>1. UpdateStart /\ ApplyStart /\ RowsTypeOK
      BY <1>4 DEF ConfirmInv
    <2>2. UNCHANGED rowVars /\ UNCHANGED applyVars /\ UNCHANGED updateVars
      BY <1>4, StepOfOne
    <2>3. UpdateStart' /\ ApplyStart' /\ RowsTypeOK'
      BY <2>1, <2>2 DEF UpdateStart, ApplyStart, RowsTypeOK, rowVars, applyVars, updateVars
    <2>4. QED
      BY <1>1, <1>4, <2>3 DEF ConfirmInv
  <1>5. QED
    BY <1>2, <1>3, <1>4

LEMMA ConfirmHolds == ConfirmSpec => []ConfirmInv
  BY InitConfirmInv, NextConfirmInv, PTL DEF ConfirmSpec

\* The media pages read and write nothing of the other two.
LEMMA FormsRun == ConfirmSpec => FormSpec
  <1>1. ConfirmInit => FormInit
    BY DEF ConfirmInit
  <1>2. [ConfirmNext]_ConfirmVars => [FormNext]_confirmVars
    BY StepOfOne
  <1>3. QED
    BY <1>1, <1>2, PTL DEF ConfirmSpec, FormSpec

\* Rows, tokens, plans, tasks, requests and forms have the shape the code gives
\* them, whichever confirmation runs (app/provider_apply, app/source_update,
\* app/services/local_media.py and the pages).
THEOREM ConfirmationsTyped == ConfirmSpec => []ConfirmationTypeOK
  <1>1. ConfirmSpec => []ConfirmTypeOK
    BY FormsRun, FormsTyped, PTL
  <1>2. ConfirmInv => ApplyTypeOK
    <2> SUFFICES ASSUME ConfirmInv PROVE ApplyTypeOK
      OBVIOUS
    <2>1. CASE live = "apply"
      <3>1. RowsTypeOK /\ SoundInv /\ ApplyShape
        BY <2>1 DEF ConfirmInv
      <3>2. written \subseteq 1..MaxFetch
        BY <3>1, RowsAssumption DEF SoundInv, ApplyInv, SourcesOK, ApplyShape
      <3>3. standing \subseteq Confirm
        BY <3>1 DEF SoundInv, ApplyInv, RequestsOK
      <3>4. QED
        BY <3>1, <3>2, <3>3 DEF ApplyShape, ApplyTypeOK
    <2>2. CASE live # "apply"
      <3>1. RowsTypeOK /\ ApplyStart
        BY <2>2 DEF ConfirmInv
      <3>2. fetched \in 0..MaxFetch /\ 1 \in 1..MaxLogin
        BY <3>1, RowsAssumption, ApplyAssumption DEF ApplyStart
      <3>3. session \in [login: 1..MaxLogin, signedIn: BOOLEAN, nonce: BOOLEAN]
        BY <3>1, <3>2 DEF ApplyStart
      <3>4. QED
        BY <3>1, <3>2, <3>3 DEF ApplyStart, ApplyTypeOK, Idle
    <2>3. QED
      BY <2>1, <2>2
  <1>3. ConfirmInv => UpdateTypeOK
    <2> SUFFICES ASSUME ConfirmInv PROVE UpdateTypeOK
      OBVIOUS
    <2>1. CASE live = "update"
      <3>1. UpdateInv /\ UpdateShape
        BY <2>1 DEF ConfirmInv
      <3>2. \A c \in Checks : check[c].st \in {"none", "running", "succeeded", "ended"}
        BY <3>1 DEF UpdateInv, ChecksOK, CheckOK, Succeeded
      <3>3. signed \subseteq Plans /\ ustanding \subseteq Update
        BY <3>1 DEF UpdateInv, PlanOK, URequestsOK
      <3>4. QED
        BY <3>1, <3>2, <3>3 DEF UpdateShape, TaskStates, UpdateTypeOK
    <2>2. CASE live # "update"
      BY <2>2 DEF ConfirmInv, UpdateStart, UpdateTypeOK, NoCheck
    <2>3. QED
      BY <2>1, <2>2
  <1>4. QED
    BY <1>1, <1>2, <1>3, ConfirmHolds, PTL DEF ConfirmationTypeOK

\* The plans the rows allow pass their contract whichever confirmation runs, a
\* write stays in the login that signed its token, and a new item never takes over
\* relations (build_provider_apply_plan, verify_provider_apply_token).
THEOREM ConfirmationsAreSound == ConfirmSpec => []ApplySound
  <1>1. ConfirmInv => ApplySound
    <2> SUFFICES ASSUME ConfirmInv PROVE ApplySound
      OBVIOUS
    <2>1. BuiltPlansValid
      BY RowsAllowValidPlans DEF ConfirmInv, RowsTypeOK
    <2>2. CASE live = "apply"
      <3>1. SoundInv
        BY <2>2 DEF ConfirmInv
      <3>2. CreatedItemsClean
        BY <3>1 DEF SoundInv, LeftClean, CreatedItemsClean, ApplyInv, RequestsOK
      <3>3. WritesStayInSession
        BY <3>1 DEF SoundInv, LoginOK, InFlight, WritesStayInSession, ApplyInv, RequestsOK
      <3>4. QED
        BY <2>1, <3>2, <3>3 DEF ApplySound
    <2>3. CASE live # "apply"
      <3>1. standing = {}
        BY <2>3 DEF ConfirmInv, ApplyStart
      <3>2. QED
        BY <2>1, <3>1 DEF ApplySound, CreatedItemsClean, WritesStayInSession
    <2>4. QED
      BY <2>2, <2>3
  <1>2. QED
    BY <1>1, ConfirmHolds, PTL

\* What OnlyWhatWasShown says of a step.
Shown ==
    (\E r \in Update, o \in {"ok", "lost"}, n \in BOOLEAN : WriteFields(r, o, n)) =>
        \A i \in ItemIds :
           /\ items'[i].title = items[i].title
           /\ items'[i].summary # items[i].summary =>
                 /\ items'[i].summary # Blank
                 /\ \E c \in Checks : /\ check[c].st = "succeeded" /\ ItemOf(c) = i
                                      /\ check[c].item.summary = items[i].summary

\* Both confirmations of rows keep what ConfirmOutcome promises, a manual update
\* writes what its preview showed, a media form does what its page showed, and
\* references follow the content (app/provider_apply/transaction.py,
\* app/source_update/service.py, app/services/local_media.py).
THEOREM ConfirmationsKeepTheirPromises ==
    ConfirmSpec => OnlyWhatWasShown /\ ApplyKeepsPromise /\ UpdateKeepsPromise
                     /\ ConfirmedAsShown /\ ReferencesFollow
  <1>1. ConfirmInv => Shown
    <2> SUFFICES ASSUME ConfirmInv, NEW r \in Update, NEW o \in {"ok", "lost"}, NEW n \in BOOLEAN,
                        WriteFields(r, o, n), NEW i \in ItemIds
                 PROVE  /\ items'[i].title = items[i].title
                        /\ items'[i].summary # items[i].summary =>
                              /\ items'[i].summary # Blank
                              /\ \E c \in Checks : /\ check[c].st = "succeeded" /\ ItemOf(c) = i
                                                   /\ check[c].item.summary = items[i].summary
      BY DEF Shown
    <2>1. live = "update"
      <3> SUFFICES ASSUME live # "update" PROVE FALSE
        OBVIOUS
      <3>1. ureq[r] = UIdle
        BY DEF ConfirmInv, UpdateStart
      <3>2. QED
        BY <3>1 DEF WriteFields, UIdle
    <2>2. UpdateInv
      BY <2>1 DEF ConfirmInv
    <2>3. QED
      BY <2>2, WriteShows
  <1>2. ConfirmInit => ApplyOutcome!OutcomeInit /\ UpdateOutcome!OutcomeInit
    BY InitRefines, UpdateInitRefines DEF ConfirmInit, ApplyInit, UpdateInit
  <1>3. ConfirmInv /\ [ConfirmNext]_ConfirmVars => [ApplyOutcome!OutcomeNext]_ApplyOutcome!outcomeVars
    <2> SUFFICES ASSUME ConfirmInv, [ConfirmNext]_ConfirmVars
                 PROVE  [ApplyOutcome!OutcomeNext]_ApplyOutcome!outcomeVars
      OBVIOUS
    <2>1. CASE live = "apply"
      BY <2>1, StepOfOne, NextRefines DEF ConfirmInv, SoundInv
    <2>2. CASE live # "apply"
      <3>1. UNCHANGED applyVars
        BY <2>2, StepOfOne
      <3>2. UNCHANGED ApplyOutcome!outcomeVars
        BY <3>1 DEF applyVars, ApplyOutcome!outcomeVars, ApplyAnswer
      <3>3. QED
        BY <3>2
    <2>3. QED
      BY <2>1, <2>2
  <1>4. ConfirmInv /\ [ConfirmNext]_ConfirmVars => [UpdateOutcome!OutcomeNext]_UpdateOutcome!outcomeVars
    <2> SUFFICES ASSUME ConfirmInv, [ConfirmNext]_ConfirmVars
                 PROVE  [UpdateOutcome!OutcomeNext]_UpdateOutcome!outcomeVars
      OBVIOUS
    <2>1. CASE live = "update"
      BY <2>1, StepOfOne, UpdateNextRefines DEF ConfirmInv
    <2>2. CASE live # "update"
      <3>1. UNCHANGED updateVars
        BY <2>2, StepOfOne
      <3>2. UNCHANGED UpdateOutcome!outcomeVars
        BY <3>1 DEF updateVars, UpdateOutcome!outcomeVars, UpdateAnswer
      <3>3. QED
        BY <3>2
    <2>3. QED
      BY <2>1, <2>2
  <1>5. ConfirmSpec => OnlyWhatWasShown
    BY <1>1, ConfirmHolds, PTL DEF OnlyWhatWasShown, Shown
  <1>6. ConfirmSpec => ApplyKeepsPromise /\ UpdateKeepsPromise
    BY <1>2, <1>3, <1>4, ConfirmHolds, PTL
       DEF ConfirmSpec, ApplyKeepsPromise, ApplyOutcome!OutcomeSpec, UpdateKeepsPromise, UpdateOutcome!OutcomeSpec
  <1>7. ConfirmSpec => ConfirmedAsShown /\ ReferencesFollow
    BY FormsRun, DoneAsShown, ReferencesAreFollowed
  <1>8. QED
    BY <1>5, <1>6, <1>7
==============================================================================
