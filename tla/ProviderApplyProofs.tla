-------------------------- MODULE ProviderApplyProofs --------------------------
(***************************************************************************)
(* The confirmation of a provider detail keeps what ConfirmOutcome         *)
(* promises, for any number of requests, rows, details and logins.         *)
(*                                                                         *)
(* The source row's hash is the number of the last detail written to it,   *)
(* and a plan was made from an older one.  A request whose write stands    *)
(* therefore left a row that neither its plan's pre-state nor its own      *)
(* failure can be mistaken for (Stands), and a row that carries a detail's *)
(* number shows that its plan was written (SourcesOK).                     *)
(* That new items are clean, writes stay in their login and plans are      *)
(* valid (ApplySound) follows from how the signed plans were built.        *)
(***************************************************************************)
EXTENDS ProviderApply, TLAPS

SourcesOK ==
    /\ sources \in [1..MaxId -> SourceRow \cup {NoSource}]
    /\ fetched \in Nat /\ written \subseteq 1..fetched
    /\ \A s \in SourceIds : sources[s].hash \in written \cup {0}

\* A plan carries its detail's number and, for an update, an older row.
TokenOK(f) ==
    LET plan == token[f].plan IN
    /\ f <= fetched
    /\ plan.action \in {"create", "update"}
    /\ plan.changes["hash"].proposed = f /\ plan.changes["checked"].proposed = f
    /\ plan.action = "update" => /\ plan.changes["hash"].writes
                                 /\ plan.source \in SourceRow /\ plan.source.hash < f

TokensOK ==
    /\ token = [f \in 1..MaxFetch |-> token[f]]
    /\ \A f \in 1..MaxFetch : token[f] # NoToken => TokenOK(f)

\* The one source row a transaction expects to have left.
Leaves(r, s, row) ==
    /\ req[r].post.seen.identity = [x \in {s} |-> row]
    /\ row.ident /\ row.hash = req[r].tok

\* The state before the write is not there while the write stands.
PreIsGone(r, s) ==
    /\ req[r].pre # NoState
    /\ \/ req[r].pre.absentSource = s
       \/ s \in DOMAIN req[r].pre.seen.identity /\ req[r].pre.seen.identity[s].hash < req[r].tok

Stands(r) ==
    \E s \in 1..MaxId, row \in SourceRow :
        /\ Leaves(r, s, row)
        /\ sources[s] \in SourceRow /\ sources[s].ident /\ sources[s].hash >= req[r].tok
        /\ req[r].pc = "inspect" => PreIsGone(r, s)

IsRequest(x) ==
    x = [pc |-> x.pc, tok |-> x.tok, login |-> x.login,
         pre |-> x.pre, post |-> x.post, report |-> x.report]

RequestOK(r) ==
    /\ IsRequest(req[r])
    /\ req[r].tok \in 0..MaxFetch
    /\ req[r].pc \in {"begin", "verify", "inspect"} =>
          /\ req[r].tok # 0 /\ token[req[r].tok] # NoToken /\ req[r].report = "none"
    /\ req[r].pc = "begin" => req[r].pre = NoState /\ req[r].post = NoState
    /\ req[r].pc = "verify" => req[r].tok \in written
    /\ req[r].pc = "inspect" /\ req[r].post # NoState =>
          \E s \in 1..MaxId, row \in SourceRow : Leaves(r, s, row)

RequestsOK ==
    /\ req = [r \in Confirm |-> req[r]]
    /\ \A r \in Confirm : RequestOK(r)
    /\ standing \subseteq Confirm
    /\ \A r \in standing :
          /\ req[r].pc \in {"verify", "inspect", "done"} /\ req[r].tok # 0
          /\ Stands(r)

ApplyInv == SourcesOK /\ TokensOK /\ RequestsOK

----------------------------------------------------------------------------
LEMMA RowIsNotNone == NoSource \notin SourceRow
  BY DEF NoSource, SourceRow

LEMMA SourcePresent ==
    ASSUME SourcesOK, NEW s \in SourceIds
    PROVE  s \in 1..MaxId /\ sources[s] \in SourceRow /\ sources[s].hash \in Nat
  BY DEF SourcesOK, SourceIds, SourceRow

LEMMA InitApplyInv == ApplyInit => ApplyInv
  <1> SUFFICES ASSUME ApplyInit PROVE ApplyInv
    OBVIOUS
  <1>1. SourcesOK
    <2>0. RowsInit
      BY DEF ApplyInit
    <2>1. PICK summary \in {Blank, "local"}, ident, url \in BOOLEAN :
            /\ items = [i \in 1..MaxId |-> IF i = 1
                          THEN [title |-> "own title", summary |-> summary] ELSE NoItem]
            /\ sources = [s \in 1..MaxId |-> IF s = 1 /\ (ident \/ url)
                            THEN [item |-> 1, ident |-> ident, url |-> url, checked |-> 0, hash |-> 0]
                            ELSE NoSource]
      BY <2>0, Zenon DEF RowsInit
    <2> DEFINE row == [item |-> 1, ident |-> ident, url |-> url, checked |-> 0, hash |-> 0]
    <2>2. MaxId \in Nat /\ MaxFetch \in Nat
      BY RowsAssumption
    <2>3. 1 \in 1..MaxId => row \in SourceRow
      BY <2>2 DEF SourceRow
    <2>4. row.hash = 0
      OBVIOUS
    <2> HIDE DEF row
    <2>5. \A s \in 1..MaxId : sources[s] = NoSource \/ (s = 1 /\ sources[s] = row)
      BY <2>1 DEF row
    <2>6. sources \in [1..MaxId -> SourceRow \cup {NoSource}]
      <3>1. sources = [s \in 1..MaxId |-> sources[s]]
        BY <2>1
      <3>2. QED
        BY <2>3, <2>5, <3>1
    <2>7. QED
      BY <2>4, <2>5, <2>6 DEF ApplyInit, ApplyStart, SourcesOK, SourceIds
  <1>2. TokensOK
    BY DEF ApplyInit, ApplyStart, TokensOK
  <1>3. RequestsOK
    BY RowsAssumption DEF ApplyInit, ApplyStart, RequestsOK, RequestOK, IsRequest, Idle
  <1>4. QED
    BY <1>1, <1>2, <1>3 DEF ApplyInv

----------------------------------------------------------------------------
\* A request that does not move stays what it was.
LEMMA RequestStays ==
    ASSUME NEW q, RequestOK(q), req'[q] = req[q], token' = token, written' = written
    PROVE  RequestOK(q)'
  <1>1. \A s, row : Leaves(q, s, row)' <=> Leaves(q, s, row)
    BY DEF Leaves
  <1>2. IsRequest(req[q])'
    BY DEF RequestOK, IsRequest
  <1>3. QED
    BY <1>1, <1>2 DEF RequestOK

LEMMA StandsStays ==
    ASSUME NEW q, Stands(q), req'[q] = req[q], sources' = sources
    PROVE  Stands(q)'
  <1>1. \A s, row : Leaves(q, s, row)' <=> Leaves(q, s, row)
    BY DEF Leaves
  <1>2. \A s : PreIsGone(q, s)' <=> PreIsGone(q, s)
    BY DEF PreIsGone
  <1>3. QED
    BY <1>1, <1>2 DEF Stands

\* A step of one request that leaves the rows alone.
LEMMA RequestStep ==
    ASSUME ApplyInv, NEW r \in Confirm, req' = [q \in Confirm |-> req'[q]],
           \A q \in Confirm : q # r => req'[q] = req[q],
           UNCHANGED <<fetched, token, standing, written, sources>>,
           RequestOK(r)',
           r \in standing => req'[r].pc \in {"verify", "inspect", "done"} /\ req'[r].tok # 0 /\ Stands(r)'
    PROVE  ApplyInv'
  <1>1. SourcesOK' /\ TokensOK'
    BY DEF ApplyInv, SourcesOK, SourceIds, TokensOK, TokenOK
  <1>2. \A q \in Confirm : RequestOK(q)'
    <2>1. ASSUME NEW q \in Confirm, q # r PROVE RequestOK(q)'
      <3>1. RequestOK(q) /\ req'[q] = req[q] /\ token' = token /\ written' = written
        BY <2>1 DEF ApplyInv, RequestsOK
      <3>2. QED
        BY <3>1, RequestStays
    <2>2. QED
      BY <2>1
  <1>3. ASSUME NEW q \in standing'
        PROVE  req'[q].pc \in {"verify", "inspect", "done"} /\ req'[q].tok # 0 /\ Stands(q)'
    <2>1. CASE q # r
      <3>1. /\ req[q].pc \in {"verify", "inspect", "done"} /\ req[q].tok # 0 /\ Stands(q)
            /\ req'[q] = req[q] /\ sources' = sources
        BY <1>3, <2>1 DEF ApplyInv, RequestsOK
      <3>2. Stands(q)'
        BY <3>1, StandsStays
      <3>3. QED
        BY <3>1, <3>2
    <2>2. QED
      BY <1>3, <2>1
  <1>4. RequestsOK'
    BY <1>2, <1>3 DEF ApplyInv, RequestsOK
  <1>5. QED
    BY <1>1, <1>4 DEF ApplyInv

\* What a step that sets only pc and report does to its request.
LEMMA RequestFields ==
    ASSUME ApplyInv, NEW r \in Confirm
    PROVE  /\ IsRequest(req[r]) /\ req = [q \in Confirm |-> req[q]]
           /\ RequestOK(r)
  BY DEF ApplyInv, RequestsOK, RequestOK

LEMMA ConfirmTokenKeeps ==
    ASSUME ApplyInv, NEW r \in Confirm, NEW f \in 1..MaxFetch, ConfirmToken(r, f)
    PROVE  ApplyInv'
  <1>1. /\ req[r] = Idle /\ token[f] # NoToken
        /\ UNCHANGED <<fetched, token, standing, written, sources>>
    BY DEF ConfirmToken, rowVars
  <1>2. r \notin standing
    BY <1>1 DEF ApplyInv, RequestsOK, Idle
  <1>3. /\ req' = [q \in Confirm |-> req'[q]] /\ \A q \in Confirm : q # r => req'[q] = req[q]
        /\ \/ req'[r] = [Idle EXCEPT !.pc = "begin", !.tok = f, !.login = session.login]
           \/ req'[r] = [Idle EXCEPT !.pc = "done", !.tok = f, !.report = "refused"]
    BY <1>1 DEF ConfirmToken, ApplyInv, RequestsOK
  <1>4. RequestOK(r)'
    <2>1. f # 0 /\ f \in 0..MaxFetch
      BY RowsAssumption
    <2>2. CASE req'[r] = [Idle EXCEPT !.pc = "begin", !.tok = f, !.login = session.login]
      <3>1. req'[r] = [pc |-> "begin", tok |-> f, login |-> session.login, pre |-> NoState,
                       post |-> NoState, report |-> "none"]
        BY <2>2 DEF Idle
      <3>2. QED
        BY <1>1, <2>1, <3>1 DEF RequestOK, IsRequest
    <2>3. CASE req'[r] = [Idle EXCEPT !.pc = "done", !.tok = f, !.report = "refused"]
      <3>1. req'[r] = [pc |-> "done", tok |-> f, login |-> 0, pre |-> NoState,
                       post |-> NoState, report |-> "refused"]
        BY <2>3 DEF Idle
      <3>2. QED
        BY <1>1, <2>1, <3>1 DEF RequestOK, IsRequest
    <2>4. QED
      BY <1>3, <2>2, <2>3
  <1>5. QED
    BY <1>1, <1>2, <1>3, <1>4, RequestStep

LEMMA BeginEndsKeep ==
    ASSUME ApplyInv, NEW r \in Confirm, BeginFails(r) \/ Stale(r)
    PROVE  ApplyInv'
  <1>1. /\ req[r].pc = "begin" /\ UNCHANGED <<fetched, token, standing, written, sources>>
    BY DEF BeginFails, Stale, rowVars
  <1>2. r \notin standing
    BY <1>1 DEF ApplyInv, RequestsOK
  <1>3. /\ req' = [q \in Confirm |-> req'[q]] /\ \A q \in Confirm : q # r => req'[q] = req[q]
        /\ \/ req'[r] = [req[r] EXCEPT !.pc = "inspect"]
           \/ req'[r] = [req[r] EXCEPT !.pc = "done", !.report = "stale_plan"]
    BY RequestFields DEF BeginFails, Stale
  <1>4. RequestOK(r)'
    <2>1. CASE req'[r] = [req[r] EXCEPT !.pc = "inspect"]
      BY <1>1, <2>1, RequestFields DEF RequestOK, IsRequest
    <2>2. CASE req'[r] = [req[r] EXCEPT !.pc = "done", !.report = "stale_plan"]
      BY <1>1, <2>2, RequestFields DEF RequestOK, IsRequest
    <2>3. QED
      BY <1>3, <2>1, <2>2
  <1>5. QED
    BY <1>1, <1>2, <1>3, <1>4, RequestStep

LEMMA ReportKeeps ==
    ASSUME ApplyInv, NEW r \in Confirm, req[r].pc \in {"verify", "inspect"},
           NEW report, Report(r, report)
    PROVE  ApplyInv'
  <1>1. /\ req' = [q \in Confirm |-> req'[q]] /\ \A q \in Confirm : q # r => req'[q] = req[q]
        /\ req'[r] = [req[r] EXCEPT !.pc = "done", !.report = report, !.pre = NoState,
                          !.post = IF r \in standing THEN req[r].post ELSE NoState]
        /\ UNCHANGED <<fetched, token, standing, written, sources>>
    BY RequestFields DEF Report, rowVars
  <1>2. /\ req'[r].pc = "done" /\ req'[r].tok = req[r].tok /\ IsRequest(req'[r])
        /\ r \in standing => req'[r].post = req[r].post
    BY <1>1, RequestFields DEF IsRequest
  <1>3. RequestOK(r)'
    BY <1>1, <1>2, RequestFields DEF RequestOK
  <1>4. r \in standing => req'[r].tok # 0 /\ Stands(r)'
    BY <1>1, <1>2 DEF ApplyInv, RequestsOK, Stands, Leaves
  <1>5. QED
    BY <1>1, <1>2, <1>3, <1>4, RequestStep

----------------------------------------------------------------------------
\* Pages: a source row stays, goes, or is new and carries no detail's number.
LEMMA PageSources ==
    ASSUME SourcesOK, PageEdit
    PROVE  /\ sources' \in [1..MaxId -> SourceRow \cup {NoSource}]
           /\ \A s \in 1..MaxId : \/ sources'[s] \in {sources[s], NoSource}
                                  \/ sources'[s] \in SourceRow /\ sources'[s].hash = 0
  <1>1. CASE \E i \in 1..MaxId : EditItem(i)
    BY <1>1 DEF EditItem, SourcesOK
  <1>2. ASSUME NEW i \in 1..MaxId, DeleteItem(i)
        PROVE  /\ sources' \in [1..MaxId -> SourceRow \cup {NoSource}]
               /\ \A s \in 1..MaxId : sources'[s] \in {sources[s], NoSource}
    BY <1>2 DEF DeleteItem, SourcesOK
  <1>3. ASSUME NEW i \in 1..MaxId, AddItemSource(i)
        PROVE  /\ sources' \in [1..MaxId -> SourceRow \cup {NoSource}]
               /\ \A s \in 1..MaxId : \/ sources'[s] = sources[s]
                                      \/ sources'[s] \in SourceRow /\ sources'[s].hash = 0
    <2> DEFINE row == [item |-> i, ident |-> FALSE, url |-> TRUE, checked |-> 0, hash |-> 0]
    <2>1. row \in SourceRow /\ row.hash = 0
      BY RowsAssumption DEF SourceRow
    <2>2. sources' = [sources EXCEPT ![NextId(SourceIds)] = row]
      BY <1>3 DEF AddItemSource
    <2> HIDE DEF row
    <2>3. QED
      BY <2>1, <2>2 DEF SourcesOK
  <1>4. ASSUME NEW s \in 1..MaxId, DeleteItemSource(s)
        PROVE  /\ sources' \in [1..MaxId -> SourceRow \cup {NoSource}]
               /\ \A x \in 1..MaxId : sources'[x] \in {sources[x], NoSource}
    BY <1>4 DEF DeleteItemSource, SourcesOK
  <1>5. QED
    BY <1>1, <1>2, <1>3, <1>4 DEF PageEdit

LEMMA PageKeeps ==
    ASSUME ApplyInv, Page
    PROVE  ApplyInv'
  <1>1. /\ PageEdit /\ standing' = {r \in standing : StillThere(r)}
        /\ UNCHANGED <<fetched, token, session, req, written>>
    BY DEF Page
  <1>2. /\ sources' \in [1..MaxId -> SourceRow \cup {NoSource}]
        /\ \A s \in 1..MaxId : \/ sources'[s] \in {sources[s], NoSource}
                               \/ sources'[s] \in SourceRow /\ sources'[s].hash = 0
    BY <1>1, PageSources DEF ApplyInv
  <1>3. SourcesOK'
    <2>1. ASSUME NEW s \in SourceIds' PROVE sources'[s].hash \in written' \cup {0}
      BY <1>1, <1>2, <2>1 DEF ApplyInv, SourcesOK, SourceIds
    <2>2. QED
      BY <1>1, <1>2, <2>1 DEF ApplyInv, SourcesOK
  <1>4. TokensOK'
    BY <1>1 DEF ApplyInv, TokensOK, TokenOK
  <1>5. \A r \in Confirm : RequestOK(r)'
    BY <1>1 DEF ApplyInv, RequestsOK, RequestOK, IsRequest, Leaves
  <1>6. ASSUME NEW r \in standing' PROVE Stands(r)'
    <2>1. r \in standing /\ StillThere(r) /\ Stands(r)
      BY <1>1 DEF ApplyInv, RequestsOK
    <2>2. PICK s \in 1..MaxId, row \in SourceRow :
              Leaves(r, s, row) /\ (req[r].pc = "inspect" => PreIsGone(r, s))
      BY <2>1 DEF Stands
    <2>3. sources'[s] = row
      BY <2>1, <2>2 DEF StillThere, Leaves
    <2>4. row.hash >= req[r].tok
      BY <2>2 DEF Leaves, SourceRow
    <2>5. QED
      BY <1>1, <2>2, <2>3, <2>4 DEF Stands, Leaves, PreIsGone
  <1>7. RequestsOK'
    BY <1>1, <1>5, <1>6 DEF ApplyInv, RequestsOK
  <1>8. QED
    BY <1>3, <1>4, <1>7 DEF ApplyInv

LEMMA LoginsKeep ==
    ASSUME ApplyInv, Login \/ Logout \/ UNCHANGED <<rowVars, applyVars>>
    PROVE  ApplyInv'
  <1>1. UNCHANGED <<fetched, token, req, standing, written, sources>>
    BY DEF Login, Logout, rowVars, applyVars
  <1>2. SourcesOK' /\ TokensOK'
    BY <1>1 DEF ApplyInv, SourcesOK, SourceIds, TokensOK, TokenOK
  <1>3. \A r \in Confirm : RequestOK(r)'
    BY <1>1, RequestStays DEF ApplyInv, RequestsOK
  <1>4. \A r \in standing : Stands(r)'
    BY <1>1, StandsStays DEF ApplyInv, RequestsOK
  <1>5. QED
    BY <1>1, <1>2, <1>3, <1>4 DEF ApplyInv, RequestsOK

\* A plan built for a new detail was made from rows older than the detail.
LEMMA BuiltPlan ==
    ASSUME SourcesOK, NEW d, d.at = fetched + 1, PlanAction # "conflict"
    PROVE  LET plan == BuildPlan(d) IN
           /\ plan.action \in {"create", "update"}
           /\ plan.changes["hash"].proposed = d.at /\ plan.changes["checked"].proposed = d.at
           /\ plan.action = "update" => /\ plan.changes["hash"].writes
                                        /\ plan.source \in SourceRow /\ plan.source.hash < d.at
  <1>1. CASE PlanAction = "create"
    <2>1. BuildPlan(d) = CreatePlan(d)
      BY <1>1 DEF BuildPlan
    <2>2. /\ CreateChanges(d)["hash"].proposed = d.at
          /\ CreateChanges(d)["checked"].proposed = d.at
      BY DEF CreateChanges, Change, Proposed, Fields
    <2>3. CreatePlan(d).action = "create" /\ CreatePlan(d).changes = CreateChanges(d)
      BY DEF CreatePlan
    <2>4. QED
      BY <2>1, <2>2, <2>3
  <1>2. CASE PlanAction # "create"
    <2> DEFINE s == CHOOSE x \in IdentitySources : TRUE
    <2>1. IdentitySources # {}
      BY <1>2 DEF PlanAction
    <2>2. s \in IdentitySources
      BY <2>1
    <2>3. BuildPlan(d) = UpdatePlan(d, s)
      BY <1>2 DEF BuildPlan
    <2> HIDE DEF s
    <2>4. s \in SourceIds
      BY <2>2 DEF IdentitySources
    <2>5. sources[s] \in SourceRow /\ sources[s].hash \in Nat
      BY <2>4, SourcePresent
    <2>6. sources[s].hash < d.at
      <3>1. sources[s].hash \in written \cup {0} /\ written \subseteq 1..fetched /\ fetched \in Nat
        BY <2>4 DEF SourcesOK
      <3>2. sources[s].hash <= fetched
        <4>1. CASE sources[s].hash \in written
          <5>1. sources[s].hash \in 1..fetched
            BY <3>1, <4>1
          <5>2. QED
            BY <3>1, <5>1
        <4>2. CASE sources[s].hash = 0
          BY <3>1, <4>2
        <4>3. QED
          BY <3>1, <4>1, <4>2
      <3>3. QED
        BY <2>5, <3>1, <3>2
    <2> DEFINE changes == UpdateChanges(d, items[sources[s].item], sources[s])
    <2>7. changes["hash"] = Tracking(sources[s].hash, d.at)
          /\ changes["checked"] = Tracking(sources[s].checked, d.at)
      BY DEF UpdateChanges, Fields
    <2>8. /\ UpdatePlan(d, s).action = "update" /\ UpdatePlan(d, s).source = sources[s]
          /\ UpdatePlan(d, s).changes = changes
      BY DEF UpdatePlan
    <2> HIDE DEF changes
    <2>9. changes["hash"].proposed = d.at /\ changes["checked"].proposed = d.at
      BY <2>7 DEF Tracking, Change
    <2>10. changes["hash"].writes
      <3>1. sources[s].hash # d.at
        BY <2>5, <2>6
      <3>2. Tracking(sources[s].hash, d.at).writes
        BY <3>1, Zenon DEF Tracking, Change
      <3>3. QED
        BY <2>7, <3>2
    <2>11. QED
      BY <2>3, <2>5, <2>6, <2>8, <2>9, <2>10
  <1>3. QED
    BY <1>1, <1>2

LEMMA PreviewKeeps ==
    ASSUME ApplyInv, NEW summary, Preview(summary)
    PROVE  ApplyInv'
  <1> DEFINE d == [at |-> fetched + 1, summary |-> summary]
  <1>1. /\ fetched < MaxFetch /\ fetched' = fetched + 1
        /\ UNCHANGED <<req, standing, written, rowVars, sources>>
        /\ \/ token' = token
           \/ PlanAction # "conflict" /\ token' = [token EXCEPT ![d.at] = SignPlan(BuildPlan(d))]
    BY DEF Preview, Previewable, rowVars
  <1>2. d.at = fetched + 1 /\ d.at \in 1..MaxFetch /\ fetched \in Nat
    BY <1>1, RowsAssumption DEF ApplyInv, SourcesOK
  <1>3. SourcesOK'
    BY <1>1, <1>2 DEF ApplyInv, SourcesOK, SourceIds
  <1> HIDE DEF d
  <1>4. /\ token' = [f \in 1..MaxFetch |-> token'[f]]
        /\ \A f \in 1..MaxFetch : f # d.at => token'[f] = token[f]
    BY <1>1 DEF ApplyInv, TokensOK
  <1>5. ASSUME NEW f \in 1..MaxFetch, token'[f] # NoToken PROVE TokenOK(f)'
    <2>1. CASE token'[f] = token[f]
      <3>1. TokenOK(f)
        BY <1>5, <2>1 DEF ApplyInv, TokensOK
      <3>2. QED
        BY <1>1, <1>2, <2>1, <3>1 DEF TokenOK
    <2>2. CASE token'[f] # token[f]
      <3>1. f = d.at /\ PlanAction # "conflict" /\ token'[f] = SignPlan(BuildPlan(d))
        BY <1>1, <1>2, <1>4, <2>2 DEF ApplyInv, TokensOK
      <3>2. token'[f].plan = BuildPlan(d)
        BY <3>1 DEF SignPlan
      <3>3. QED
        BY <1>1, <1>2, <3>1, <3>2, BuiltPlan DEF ApplyInv, TokenOK
    <2>3. QED
      BY <2>1, <2>2
  <1>6. TokensOK'
    BY <1>4, <1>5 DEF TokensOK
  <1>7. \A r \in Confirm : RequestOK(r)'
    <2> SUFFICES ASSUME NEW r \in Confirm PROVE RequestOK(r)'
      OBVIOUS
    <2>1. RequestOK(r) /\ req' = req /\ written' = written
      BY <1>1 DEF ApplyInv, RequestsOK
    <2>2. req[r].tok # 0 /\ token[req[r].tok] # NoToken => token'[req[r].tok] # NoToken
      <3> SUFFICES ASSUME req[r].tok # 0, token[req[r].tok] # NoToken
                   PROVE  token'[req[r].tok] # NoToken
        OBVIOUS
      <3>1. req[r].tok \in 1..MaxFetch
        BY <2>1, RowsAssumption DEF RequestOK
      <3>2. TokenOK(req[r].tok)
        BY <3>1 DEF ApplyInv, TokensOK
      <3>3. req[r].tok # d.at
        <4>1. req[r].tok <= fetched
          BY <3>2 DEF TokenOK
        <4>2. QED
          BY <1>2, <3>1, <4>1
      <3>4. QED
        BY <1>4, <3>1, <3>3
    <2>3. QED
      BY <2>1, <2>2 DEF RequestOK, IsRequest, Leaves
  <1>8. RequestsOK'
    <2>1. \A r \in standing : Stands(r)'
      BY <1>1, StandsStays DEF ApplyInv, RequestsOK
    <2>2. QED
      BY <1>1, <1>7, <2>1 DEF ApplyInv, RequestsOK
  <1>9. QED
    BY <1>3, <1>6, <1>8 DEF ApplyInv

----------------------------------------------------------------------------
\* A plan whose pre-state holds writes one identity row, newer than the one there,
\* and no write of the same plan stands.
WrittenRow(r) == PostState(Plan(r), TargetItem(Plan(r)), TargetSource(Plan(r)))
TakenState(r) == PreState(Plan(r), TargetItem(Plan(r)), TargetSource(Plan(r)))

LEMMA MayWrite ==
    ASSUME ApplyInv, NEW r \in Confirm, req[r].pc = "begin", PreStateHolds(Plan(r)),
           TargetItem(Plan(r)) \in 1..MaxId, TargetSource(Plan(r)) \in 1..MaxId
    PROVE  LET s == TargetSource(Plan(r)) IN
           /\ \E row \in SourceRow :
                /\ WrittenRow(r).seen.identity = [x \in {s} |-> row]
                /\ row.ident /\ row.hash = req[r].tok
           /\ \/ TakenState(r).absentSource = s
              \/ /\ s \in DOMAIN TakenState(r).seen.identity
                 /\ TakenState(r).seen.identity[s].hash < req[r].tok
           /\ \A q \in standing :
                /\ req[q].tok < req[r].tok
                /\ \A x \in 1..MaxId, row \in SourceRow :
                      Leaves(q, x, row) /\ sources[x] \in SourceRow /\ sources[x].ident => x = s
  <1> DEFINE f == req[r].tok
             plan == Plan(r)
             s == TargetSource(plan)
             i == TargetItem(plan)
  <1>1. f \in 1..MaxFetch /\ TokenOK(f) /\ plan = token[f].plan
    <2>1. RequestOK(r)
      BY DEF ApplyInv, RequestsOK
    <2>2. f \in 1..MaxFetch /\ token[f] # NoToken
      BY <2>1, RowsAssumption DEF RequestOK
    <2>3. QED
      BY <2>2 DEF ApplyInv, TokensOK, Plan
  <1>2. ASSUME NEW q \in standing
        PROVE  \E x \in IdentitySources : sources[x].hash \in Nat /\ req[q].tok \in Nat
                                          /\ sources[x].hash >= req[q].tok
    <2>1. PICK x \in 1..MaxId, row \in SourceRow :
              sources[x] \in SourceRow /\ sources[x].ident /\ sources[x].hash >= req[q].tok
      BY DEF ApplyInv, RequestsOK, Stands
    <2>2. x \in IdentitySources
      BY <2>1, RowIsNotNone DEF IdentitySources, SourceIds
    <2>3. req[q].tok \in Nat
      BY RowsAssumption DEF ApplyInv, RequestsOK, RequestOK
    <2>4. sources[x].hash \in Nat
      BY <2>1 DEF SourceRow
    <2>5. QED
      BY <2>1, <2>2, <2>3, <2>4
  <1>3. CASE plan.action = "create"
    <2>1. IdentitySources = {}
      BY <1>3 DEF PreStateHolds
    <2>2. standing = {}
      BY <1>2, <2>1
    <2>3. WrittenRow(r).seen.identity = [x \in {s} |-> NewSource(plan, i)]
      BY <1>3 DEF WrittenRow, PostState
    <2>4. /\ NewSource(plan, i) \in SourceRow
          /\ NewSource(plan, i).ident /\ NewSource(plan, i).hash = f
      <3>1. plan.changes["hash"].proposed = f /\ plan.changes["checked"].proposed = f /\ f \in 0..MaxFetch
        <4> PICK k : k = f
          OBVIOUS
        <4>1. TokenOK(k) /\ plan = token[k].plan /\ k \in 1..MaxFetch
          BY <1>1
        <4> HIDE DEF f, plan, s, i
        <4>2. plan.changes["hash"].proposed = k /\ plan.changes["checked"].proposed = k
          BY <4>1 DEF TokenOK
        <4>3. QED
          BY <4>1, <4>2
      <3> HIDE DEF f, plan, s, i
      <3>2. i \in 1..MaxId
        BY DEF i, plan
      <3> PICK new : new = NewSource(plan, i)
        OBVIOUS
      <3>3. new = [item |-> i, ident |-> TRUE, url |-> TRUE, checked |-> f, hash |-> f]
        BY <3>1 DEF NewSource
      <3>4. new \in SourceRow /\ new.ident /\ new.hash = f
        BY <3>1, <3>2, <3>3 DEF SourceRow
      <3>5. QED
        BY <3>4
    <2>5. TakenState(r).absentSource = s
      BY <1>3 DEF TakenState, PreState
    <2>6. QED
      BY <2>2, <2>3, <2>4, <2>5
  <1>4. CASE plan.action # "create"
    <2>1. /\ s = plan.sourceId /\ IdentitySources = {s} /\ sources[s] = plan.source
          /\ plan.action = "update"
      BY <1>1, <1>4 DEF PreStateHolds, TargetSource, TokenOK
    <2>2. /\ sources[s] \in SourceRow /\ sources[s].ident /\ sources[s].hash < f
          /\ plan.changes["hash"].writes
          /\ plan.changes["hash"].proposed = f /\ plan.changes["checked"].proposed = f
      BY <1>1, <2>1 DEF TokenOK, IdentitySources
    <2>3. WrittenRow(r).seen.identity = [x \in {s} |-> UpdatedSource(plan)]
      BY <1>4 DEF WrittenRow, PostState
    <2>4. /\ UpdatedSource(plan) \in SourceRow
          /\ UpdatedSource(plan).ident /\ UpdatedSource(plan).hash = f
      <3>1. Written(plan, "hash", plan.source.hash) = f
        BY <2>2 DEF Written
      <3>2. Written(plan, "checked", plan.source.checked) \in 0..MaxFetch
        <4>1. plan.source \in SourceRow
          BY <2>1, <2>2
        <4>2. plan.changes["checked"].proposed \in 0..MaxFetch
          <5>1. f \in 0..MaxFetch
            BY <1>1
          <5>2. plan.changes["checked"].proposed = f
            BY <2>2
          <5>3. QED
            BY <5>1, <5>2, Zenon
        <4> HIDE DEF f, plan, s, i
        <4>3. plan.source.checked \in 0..MaxFetch
          BY <4>1 DEF SourceRow
        <4>4. QED
          BY <4>2, <4>3 DEF Written
      <3> DEFINE checked == Written(plan, "checked", plan.source.checked)
      <3>3. UpdatedSource(plan) = [plan.source EXCEPT !.checked = checked, !.hash = f]
        BY <3>1 DEF UpdatedSource
      <3>4. plan.source \in SourceRow /\ plan.source.ident /\ f \in 0..MaxFetch /\ checked \in 0..MaxFetch
        <4>1. plan.source \in SourceRow /\ plan.source.ident
          BY <2>1, <2>2
        <4>2. f \in 0..MaxFetch
          BY <1>1
        <4>3. QED
          BY <3>2, <4>1, <4>2
      <3> HIDE DEF checked, f, plan
      <3>5. [plan.source EXCEPT !.checked = checked, !.hash = f] \in SourceRow
        BY <3>4 DEF SourceRow
      <3>6. /\ [plan.source EXCEPT !.checked = checked, !.hash = f].ident
            /\ [plan.source EXCEPT !.checked = checked, !.hash = f].hash = f
        BY <3>4 DEF SourceRow
      <3>7. QED
        BY <3>3, <3>5, <3>6
    <2>5. /\ TakenState(r).seen.identity = [x \in IdentitySources |-> sources[x]]
      BY DEF TakenState, PreState, Observe
    <2>6. ASSUME NEW q \in standing
          PROVE  /\ req[q].tok < f
                 /\ \A x \in 1..MaxId, row \in SourceRow :
                      Leaves(q, x, row) /\ sources[x] \in SourceRow /\ sources[x].ident => x = s
      <3>1. req[q].tok < f
        <4>1. PICK x \in IdentitySources : sources[x].hash \in Nat /\ req[q].tok \in Nat
                                             /\ sources[x].hash >= req[q].tok
          BY <1>2
        <4>2. x = s
          BY <2>1
        <4>3. f \in Nat
          BY <1>1
        <4>4. QED
          BY <2>2, <4>1, <4>2, <4>3
      <3>2. ASSUME NEW x \in 1..MaxId, sources[x] \in SourceRow, sources[x].ident PROVE x = s
        BY <2>1, <3>2, RowIsNotNone DEF IdentitySources, SourceIds
      <3>3. QED
        BY <3>1, <3>2
    <2>7. QED
      BY <2>1, <2>2, <2>3, <2>4, <2>5, <2>6
  <1>5. QED
    BY <1>3, <1>4

LEMMA StateIsTold ==
    ASSUME NEW r \in Confirm
    PROVE  TakenState(r) # NoState
  <1>1. "seen" \in DOMAIN TakenState(r)
    BY DEF TakenState, PreState
  <1>2. "seen" \notin DOMAIN NoState
    BY DEF NoState
  <1>3. QED
    BY <1>1, <1>2

\* What a transaction does, in the names of MayWrite.
LEMMA TransactFacts ==
    ASSUME ApplyInv, NEW r \in Confirm, NEW outcome \in {"ok", "failed", "lost"}, Transact(r, outcome)
    PROVE  LET s == TargetSource(Plan(r)) IN
           /\ req[r].pc = "begin" /\ PreStateHolds(Plan(r)) /\ r \notin standing
           /\ TargetItem(Plan(r)) \in 1..MaxId /\ s \in 1..MaxId
           /\ req[r].tok # 0 /\ req[r].report = "none" /\ token[req[r].tok] # NoToken
           /\ req[r].tok \in 1..fetched
           /\ req' = [q \in Confirm |-> req'[q]] /\ \A q \in Confirm : q # r => req'[q] = req[q]
           /\ IsRequest(req'[r])
           /\ req'[r].pc = (IF outcome = "ok" THEN "verify" ELSE "inspect")
           /\ req'[r].pre = TakenState(r) /\ req'[r].post = WrittenRow(r)
           /\ req'[r].tok = req[r].tok /\ req'[r].report = "none" /\ req'[r].login = req[r].login
           /\ IF outcome = "failed" THEN UNCHANGED <<sources, standing, written>>
              ELSE /\ sources' = [sources EXCEPT ![s] = WrittenRow(r).seen.identity[s]]
                   /\ standing' = standing \cup {r}
                   /\ written' = written \cup {req[r].tok}
           /\ UNCHANGED <<fetched, token>>
  <1>1. /\ req[r].pc = "begin" /\ PreStateHolds(Plan(r))
        /\ TargetItem(Plan(r)) \in 1..MaxId /\ TargetSource(Plan(r)) \in 1..MaxId
        /\ req' = [req EXCEPT ![r].pc = IF outcome = "ok" THEN "verify" ELSE "inspect",
                              ![r].pre = TakenState(r), ![r].post = WrittenRow(r)]
        /\ IF outcome = "failed" THEN UNCHANGED <<sources, standing, written>>
           ELSE /\ sources' = [sources EXCEPT ![TargetSource(Plan(r))] =
                                 WrittenRow(r).seen.identity[TargetSource(Plan(r))]]
                /\ standing' = standing \cup {r}
                /\ written' = written \cup {req[r].tok}
        /\ UNCHANGED <<fetched, token>>
    BY DEF Transact, TakenState, WrittenRow
  <1>2. /\ r \notin standing /\ req[r].tok # 0 /\ req[r].report = "none"
        /\ token[req[r].tok] # NoToken /\ req[r].tok \in 1..MaxFetch
    BY <1>1, RowsAssumption DEF ApplyInv, RequestsOK, RequestOK
  <1>3. req[r].tok \in 1..fetched
    BY <1>2 DEF ApplyInv, TokensOK, TokenOK, SourcesOK
  <1>4. /\ req' = [q \in Confirm |-> req'[q]] /\ \A q \in Confirm : q # r => req'[q] = req[q]
        /\ req'[r] = [req[r] EXCEPT !.pc = IF outcome = "ok" THEN "verify" ELSE "inspect",
                                    !.pre = TakenState(r), !.post = WrittenRow(r)]
    BY <1>1, RequestFields
  <1>5. /\ IsRequest(req'[r])
        /\ req'[r].pc = (IF outcome = "ok" THEN "verify" ELSE "inspect")
        /\ req'[r].pre = TakenState(r) /\ req'[r].post = WrittenRow(r)
        /\ req'[r].tok = req[r].tok /\ req'[r].report = req[r].report
        /\ req'[r].login = req[r].login
    <2> DEFINE pc == IF outcome = "ok" THEN "verify" ELSE "inspect"
               pre == TakenState(r)
               post == WrittenRow(r)
               old == req[r]
               new == req'[r]
    <2>1. /\ old = [pc |-> old.pc, tok |-> old.tok, login |-> old.login,
                    pre |-> old.pre, post |-> old.post, report |-> old.report]
          /\ new = [old EXCEPT !.pc = pc, !.pre = pre, !.post = post]
      BY <1>4, RequestFields DEF IsRequest
    <2> HIDE DEF pc, pre, post, old, new
    <2>2. new = [pc |-> pc, tok |-> old.tok, login |-> old.login,
                 pre |-> pre, post |-> post, report |-> old.report]
      BY <2>1
    <2>3. /\ IsRequest(new) /\ new.pc = pc /\ new.pre = pre /\ new.post = post
          /\ new.tok = old.tok /\ new.report = old.report /\ new.login = old.login
      BY <2>2 DEF IsRequest
    <2>4. QED
      BY <2>3 DEF pc, pre, post, old, new
  <1>6. QED
    BY <1>1, <1>2, <1>3, <1>4, <1>5

LEMMA TransactKeeps ==
    ASSUME ApplyInv, NEW r \in Confirm, NEW outcome \in {"ok", "failed", "lost"}, Transact(r, outcome)
    PROVE  ApplyInv'
  <1>0. PICK s, f, pre, post :
            /\ s = TargetSource(Plan(r)) /\ f = req[r].tok
            /\ pre = TakenState(r) /\ post = WrittenRow(r)
    OBVIOUS
  <1>1. /\ s \in 1..MaxId /\ r \notin standing /\ f # 0 /\ f \in 1..fetched /\ token[f] # NoToken
        /\ req' = [q \in Confirm |-> req'[q]] /\ \A q \in Confirm : q # r => req'[q] = req[q]
        /\ IsRequest(req'[r])
        /\ req'[r].pc = (IF outcome = "ok" THEN "verify" ELSE "inspect")
        /\ req'[r].pre = pre /\ req'[r].post = post
        /\ req'[r].tok = f /\ req'[r].report = "none"
        /\ IF outcome = "failed" THEN UNCHANGED <<sources, standing, written>>
           ELSE /\ sources' = [sources EXCEPT ![s] = post.seen.identity[s]]
                /\ standing' = standing \cup {r}
                /\ written' = written \cup {f}
        /\ UNCHANGED <<fetched, token>>
    BY <1>0, TransactFacts
  <1>2. PICK row \in SourceRow : /\ post.seen.identity = [x \in {s} |-> row]
                                 /\ row.ident /\ row.hash = f
    BY <1>0, TransactFacts, MayWrite
  <1>3. /\ pre # NoState
        /\ \/ pre.absentSource = s
           \/ s \in DOMAIN pre.seen.identity /\ pre.seen.identity[s].hash < f
    BY <1>0, TransactFacts, MayWrite, StateIsTold
  <1>4. ASSUME NEW q \in standing
        PROVE  /\ req[q].tok < f
               /\ \A x \in 1..MaxId, old \in SourceRow :
                    Leaves(q, x, old) /\ sources[x] \in SourceRow /\ sources[x].ident => x = s
    BY <1>0, TransactFacts, MayWrite
  <1>5. Leaves(r, s, row)'
    BY <1>1, <1>2 DEF Leaves
  <1>6. RequestOK(r)'
    <2>1. f \in 0..MaxFetch
      BY <1>0, RequestFields DEF RequestOK
    <2>2. outcome = "ok" => f \in written'
      BY <1>1
    <2>3. \E x \in 1..MaxId, old \in SourceRow : Leaves(r, x, old)'
      BY <1>1, <1>2, <1>5
    <2>4. /\ req'[r].pc # "begin" /\ (req'[r].pc = "verify" => f \in written')
          /\ token'[f] # NoToken
      BY <1>1, <2>2
    <2>5. QED
      BY <1>1, <2>1, <2>3, <2>4 DEF RequestOK
  <1>7. CASE outcome = "failed"
    BY <1>1, <1>6, <1>7, RequestStep
  <1>8. CASE outcome # "failed"
    <2>1. /\ sources' = [sources EXCEPT ![s] = row] /\ standing' = standing \cup {r}
          /\ written' = written \cup {f} /\ UNCHANGED <<fetched, token>>
      BY <1>1, <1>2, <1>8
    <2>2. sources'[s] = row /\ \A x \in 1..MaxId : x # s => sources'[x] = sources[x]
      BY <1>1, <2>1 DEF ApplyInv, SourcesOK
    <2>3. SourcesOK'
      <3>1. sources' \in [1..MaxId -> SourceRow \cup {NoSource}]
        BY <2>1 DEF ApplyInv, SourcesOK
      <3>2. written' \subseteq 1..fetched'
        BY <1>1, <2>1 DEF ApplyInv, SourcesOK
      <3>3. ASSUME NEW x \in SourceIds' PROVE sources'[x].hash \in written' \cup {0}
        <4>1. CASE x = s
          BY <1>2, <2>1, <2>2, <4>1
        <4>2. CASE x # s
          <5>1. x \in SourceIds /\ sources'[x] = sources[x]
            BY <2>2, <4>2 DEF SourceIds
          <5>2. QED
            BY <2>1, <5>1 DEF ApplyInv, SourcesOK
        <4>3. QED
          BY <4>1, <4>2
      <3>4. QED
        BY <2>1, <3>1, <3>2, <3>3 DEF ApplyInv, SourcesOK
    <2>4. TokensOK'
      BY <2>1 DEF ApplyInv, TokensOK, TokenOK
    <2>5. ASSUME NEW q \in Confirm, q # r PROVE RequestOK(q)'
      <3>1. RequestOK(q) /\ req'[q] = req[q]
        BY <1>1, <2>5 DEF ApplyInv, RequestsOK
      <3>2. QED
        BY <2>1, <3>1 DEF RequestOK, IsRequest, Leaves
    <2>6. Stands(r)'
      <3>1. row.hash \in Nat
        BY RowsAssumption DEF SourceRow
      <3>2. req'[r].pc = "inspect" => PreIsGone(r, s)'
        BY <1>1, <1>3 DEF PreIsGone
      <3>3. QED
        BY <1>1, <1>2, <1>5, <2>2, <3>1, <3>2 DEF Stands
    <2>7. ASSUME NEW q \in standing PROVE q # r /\ Stands(q)'
      <3>1. PICK x \in 1..MaxId, old \in SourceRow :
                /\ Leaves(q, x, old)
                /\ sources[x] \in SourceRow /\ sources[x].ident /\ sources[x].hash >= req[q].tok
                /\ req[q].pc = "inspect" => PreIsGone(q, x)
        BY DEF ApplyInv, RequestsOK, Stands
      <3>2. x = s /\ req[q].tok < f
        BY <1>4, <3>1
      <3>3. q # r /\ req'[q] = req[q]
        BY <1>1 DEF ApplyInv, RequestsOK
      <3>4. row.hash >= req'[q].tok
        BY <1>1, <1>2, <3>2, <3>3, RequestFields, RowsAssumption DEF ApplyInv, RequestsOK, RequestOK
      <3>5. Leaves(q, x, old)' /\ (req'[q].pc = "inspect" => PreIsGone(q, x)')
        BY <3>1, <3>3 DEF Leaves, PreIsGone
      <3>6. QED
        BY <1>2, <2>2, <3>2, <3>3, <3>4, <3>5 DEF Stands
    <2>8. RequestsOK'
      <3>1. \A q \in Confirm : RequestOK(q)'
        BY <1>6, <2>5
      <3>2. standing' \subseteq Confirm
        BY <2>1 DEF ApplyInv, RequestsOK
      <3>3. ASSUME NEW q \in standing'
            PROVE  req'[q].pc \in {"verify", "inspect", "done"} /\ req'[q].tok # 0 /\ Stands(q)'
        <4>1. CASE q = r
          BY <1>1, <2>6, <4>1
        <4>2. CASE q # r
          BY <1>1, <2>1, <2>7, <4>2 DEF ApplyInv, RequestsOK
        <4>3. QED
          BY <4>1, <4>2
      <3>4. QED
        BY <1>1, <3>1, <3>2, <3>3 DEF RequestsOK
    <2>9. QED
      BY <2>3, <2>4, <2>8 DEF ApplyInv
  <1>9. QED
    BY <1>7, <1>8

LEMMA NextApplyInv == ApplyInv /\ [ApplyNext]_<<rowVars, applyVars>> => ApplyInv'
  <1> SUFFICES ASSUME ApplyInv, [ApplyNext]_<<rowVars, applyVars>> PROVE ApplyInv'
    OBVIOUS
  <1>1. ASSUME NEW r \in Confirm, VerifyCommit(r) \/ Classify(r) \/ LookFails(r) PROVE ApplyInv'
    BY <1>1, ReportKeeps DEF VerifyCommit, Classify, LookFails
  <1>2. QED
    BY <1>1, PageKeeps, LoginsKeep, PreviewKeeps, ConfirmTokenKeeps, BeginEndsKeep, TransactKeeps
       DEF ApplyNext

----------------------------------------------------------------------------
(* The refinement                                                          *)

\* What ConfirmOutcome sees of a request.
Asked(r) == IF req[r].report = "refused" THEN 0 ELSE req[r].tok

AskedAll == [r \in Confirm |-> Asked(r)]
AnswerAll == [r \in Confirm |-> ApplyAnswer(r)]

LEMMA OthersSame ==
    ASSUME NEW r \in Confirm, \A q \in Confirm : q # r => req'[q] = req[q]
    PROVE  \A q \in Confirm : q # r => Asked(q)' = Asked(q) /\ ApplyAnswer(q)' = ApplyAnswer(q)
  BY DEF Asked, ApplyAnswer

LEMMA InitRefines == ApplyInit => ApplyOutcome!OutcomeInit
  BY DEF ApplyInit, ApplyStart, ApplyOutcome!OutcomeInit, Idle, ApplyAnswer

LEMMA ObservedIdentity ==
    ASSUME NEW i
    PROVE  Observe(i).identity = [x \in IdentitySources |-> sources[x]]
  BY DEF Observe

\* What ends a request leaves its plan.
LEMMA EndedFields ==
    ASSUME NEW x, IsRequest(x), NEW report, NEW pre, NEW post
    PROVE  LET y == [x EXCEPT !.pc = "done", !.report = report, !.pre = pre, !.post = post]
           IN  y.tok = x.tok /\ y.report = report
  <1> DEFINE z == [pc |-> x.pc, tok |-> x.tok, login |-> x.login,
                   pre |-> x.pre, post |-> x.post, report |-> x.report]
  <1>1. x = z
    BY DEF IsRequest
  <1>2. /\ [z EXCEPT !.pc = "done", !.report = report, !.pre = pre, !.post = post].tok = z.tok
        /\ [z EXCEPT !.pc = "done", !.report = report, !.pre = pre, !.post = post].report = report
    OBVIOUS
  <1> HIDE DEF z
  <1>3. QED
    BY <1>1, <1>2

\* A row that carries the hash of the write shows that the write happened.
LEMMA PostShowsWrite ==
    ASSUME ApplyInv, NEW r \in Confirm, req[r].pc = "inspect",
           req[r].post # NoState, Matches(req[r].post)
    PROVE  req[r].tok \in written
  <1>1. PICK s \in 1..MaxId, row \in SourceRow : Leaves(r, s, row)
    BY RequestFields DEF RequestOK
  <1>2. [x \in {s} |-> row] = [x \in IdentitySources |-> sources[x]]
    BY <1>1, ObservedIdentity DEF Leaves, Matches
  <1>3. s \in IdentitySources /\ sources[s] = row
    BY <1>2
  <1>4. s \in SourceIds /\ row.hash = req[r].tok /\ req[r].tok # 0
    BY <1>1, <1>3, RequestFields DEF IdentitySources, Leaves, RequestOK
  <1>5. QED
    BY <1>3, <1>4 DEF ApplyInv, SourcesOK

\* While the write stands, the state before it is not what the look finds.
LEMMA StandingIsSeen ==
    ASSUME ApplyInv, NEW r \in standing, req[r].pc = "inspect"
    PROVE  req[r].pre # NoState /\ ~Matches(req[r].pre)
  <1>1. PICK s \in 1..MaxId, row \in SourceRow :
            /\ sources[s] \in SourceRow /\ sources[s].ident /\ sources[s].hash >= req[r].tok
            /\ PreIsGone(r, s)
    BY DEF ApplyInv, RequestsOK, Stands
  <1>2. s \in SourceIds /\ s \in IdentitySources
    BY <1>1, RowIsNotNone DEF IdentitySources, SourceIds
  <1>3. sources[s].hash \in Nat /\ req[r].tok \in Nat
    BY <1>1, RowsAssumption DEF SourceRow, ApplyInv, RequestsOK, RequestOK
  <1>4. SUFFICES ASSUME Matches(req[r].pre) PROVE FALSE
    BY <1>1 DEF PreIsGone
  <1>5. CASE req[r].pre.absentSource = s
    BY <1>2, <1>4, <1>5 DEF Matches
  <1>6. CASE s \in DOMAIN req[r].pre.seen.identity /\ req[r].pre.seen.identity[s].hash < req[r].tok
    <2>1. req[r].pre.seen.identity = [x \in IdentitySources |-> sources[x]]
      BY <1>4, ObservedIdentity DEF Matches
    <2>2. req[r].pre.seen.identity[s] = sources[s]
      BY <1>2, <2>1
    <2>3. QED
      BY <1>1, <1>3, <1>6, <2>2
  <1>7. QED
    BY <1>1, <1>5, <1>6 DEF PreIsGone

\* The look after a write says "done" or "failed" only when it is so.
LEMMA ReportRefines ==
    ASSUME ApplyInv, NEW r \in Confirm, req[r].pc \in {"verify", "inspect"},
           NEW report \in {"committed", "committed_verified_after_exception",
                           "write_failed", "commit_state_unknown"},
           Report(r, report),
           report \in {"committed", "committed_verified_after_exception"} => req[r].tok \in written,
           report = "write_failed" => r \notin standing
    PROVE  ApplyOutcome!OutcomeNext
  <1>1. /\ req' = [q \in Confirm |-> req'[q]] /\ \A q \in Confirm : q # r => req'[q] = req[q]
        /\ req'[r].tok = req[r].tok /\ req'[r].report = report
        /\ UNCHANGED <<standing, written>>
    <2> DEFINE post == IF r \in standing THEN req[r].post ELSE NoState
    <2>1. /\ req' = [req EXCEPT ![r] = [req[r] EXCEPT !.pc = "done", !.report = report,
                                                      !.pre = NoState, !.post = post]]
          /\ UNCHANGED <<standing, written>>
      BY DEF Report
    <2> HIDE DEF post
    <2>2. req'[r].tok = req[r].tok /\ req'[r].report = report
      BY <2>1, RequestFields, EndedFields
    <2>3. QED
      BY <2>1, <2>2, RequestFields
  <1>2. req[r].report = "none" /\ req[r].tok # 0
    BY RequestFields DEF RequestOK
  <1>3. ApplyAnswer(r) = "none" /\ Asked(r) = req[r].tok /\ Asked(r)' = Asked(r)
    BY <1>1, <1>2 DEF ApplyAnswer, Asked
  <1>4. PICK v \in {"done", "failed", "unknown"} :
            /\ ApplyAnswer(r)' = v
            /\ v = "done" => Asked(r) \in written
            /\ v = "failed" => r \notin standing
    BY <1>1, <1>3 DEF ApplyAnswer
  <1>5. AskedAll' = AskedAll /\ AnswerAll' = [AnswerAll EXCEPT ![r] = v]
    BY <1>1, <1>3, <1>4, OthersSame DEF AskedAll, AnswerAll
  <1>6. ApplyOutcome!Answer(r, v)
    BY <1>1, <1>3, <1>4, <1>5 DEF ApplyOutcome!Answer, AskedAll, AnswerAll, Asked
  <1>7. QED
    BY <1>6 DEF ApplyOutcome!OutcomeNext

LEMMA LooksRefine ==
    ASSUME ApplyInv, NEW r \in Confirm, VerifyCommit(r) \/ Classify(r) \/ LookFails(r)
    PROVE  ApplyOutcome!OutcomeNext
  <1>1. CASE VerifyCommit(r)
    BY <1>1, ReportRefines, RequestFields DEF VerifyCommit, RequestOK
  <1>2. CASE Classify(r)
    <2>1. req[r].pc = "inspect" /\ Report(r, Inspection(r))
      BY <1>2 DEF Classify
    <2>2. Inspection(r) \in {"committed_verified_after_exception", "write_failed", "commit_state_unknown"}
      BY DEF Inspection
    <2>3. Inspection(r) = "committed_verified_after_exception" => req[r].tok \in written
      BY <2>1, PostShowsWrite DEF Inspection
    <2>4. Inspection(r) = "write_failed" => r \notin standing
      BY <2>1, StandingIsSeen DEF Inspection
    <2>5. QED
      BY <2>1, <2>2, <2>3, <2>4, ReportRefines
  <1>3. CASE LookFails(r)
    BY <1>3, ReportRefines DEF LookFails
  <1>4. QED
    BY <1>1, <1>2, <1>3

LEMMA ConfirmTokenRefines ==
    ASSUME ApplyInv, NEW r \in Confirm, NEW f \in 1..MaxFetch, ConfirmToken(r, f)
    PROVE  ApplyOutcome!OutcomeNext
  <1>1. /\ req[r] = Idle /\ UNCHANGED <<standing, written>>
        /\ req' = [q \in Confirm |-> req'[q]] /\ \A q \in Confirm : q # r => req'[q] = req[q]
        /\ \/ req'[r].tok = f /\ req'[r].report = "none"
           \/ req'[r].report = "refused"
    <2>1. /\ req[r] = Idle /\ UNCHANGED <<standing, written>>
          /\ req' = [q \in Confirm |-> req'[q]] /\ \A q \in Confirm : q # r => req'[q] = req[q]
          /\ \/ req'[r] = [Idle EXCEPT !.pc = "begin", !.tok = f, !.login = session.login]
             \/ req'[r] = [Idle EXCEPT !.pc = "done", !.tok = f, !.report = "refused"]
      BY DEF ConfirmToken, ApplyInv, RequestsOK
    <2>2. QED
      BY <2>1 DEF Idle
  <1>2. Asked(r) = 0 /\ ApplyAnswer(r) = "none" /\ ApplyAnswer(r)' = "none"
    BY <1>1 DEF Asked, ApplyAnswer, Idle
  <1>3. AnswerAll' = AnswerAll
    BY <1>1, <1>2, OthersSame DEF AnswerAll
  <1>4. CASE req'[r].tok = f /\ req'[r].report = "none"
    <2>1. AskedAll' = [AskedAll EXCEPT ![r] = f]
      BY <1>1, <1>4, OthersSame DEF AskedAll, Asked
    <2>2. ApplyOutcome!Ask(r, f)
      BY <1>1, <1>2, <1>3, <2>1 DEF ApplyOutcome!Ask, AskedAll, AnswerAll, Asked
    <2>3. QED
      BY <2>2 DEF ApplyOutcome!OutcomeNext
  <1>5. CASE req'[r].report = "refused"
    <2>1. AskedAll' = AskedAll
      BY <1>1, <1>2, <1>5, OthersSame DEF AskedAll, Asked
    <2>2. ApplyOutcome!Undo
      BY <1>1, <1>3, <2>1 DEF ApplyOutcome!Undo, AskedAll, AnswerAll, Asked
    <2>3. QED
      BY <2>2 DEF ApplyOutcome!OutcomeNext
  <1>6. QED
    BY <1>1, <1>4, <1>5

LEMMA StaleRefines ==
    ASSUME ApplyInv, NEW r \in Confirm, Stale(r)
    PROVE  ApplyOutcome!OutcomeNext
  <1>1. /\ req' = [q \in Confirm |-> req'[q]] /\ \A q \in Confirm : q # r => req'[q] = req[q]
        /\ req'[r].tok = req[r].tok /\ req'[r].report = "stale_plan"
        /\ req[r].report = "none" /\ UNCHANGED <<standing, written>>
    <2>1. /\ req' = [q \in Confirm |-> req'[q]] /\ \A q \in Confirm : q # r => req'[q] = req[q]
          /\ req'[r] = [req[r] EXCEPT !.pc = "done", !.report = "stale_plan"]
          /\ req[r].report = "none" /\ UNCHANGED <<standing, written>>
      BY RequestFields DEF Stale, RequestOK
    <2>2. QED
      BY <2>1, RequestFields DEF IsRequest
  <1>2. /\ ApplyAnswer(r) = "none" /\ ApplyAnswer(r)' = "unknown" /\ Asked(r)' = Asked(r)
    BY <1>1 DEF ApplyAnswer, Asked
  <1>3. AskedAll' = AskedAll /\ AnswerAll' = [AnswerAll EXCEPT ![r] = "unknown"]
    BY <1>1, <1>2, OthersSame DEF AskedAll, AnswerAll
  <1>4. ApplyOutcome!Answer(r, "unknown")
    BY <1>1, <1>2, <1>3 DEF ApplyOutcome!Answer, AskedAll, AnswerAll, Asked
  <1>5. QED
    BY <1>4 DEF ApplyOutcome!OutcomeNext

\* A step that leaves what ConfirmOutcome sees, or only drops standing writes.
LEMMA UndoRefines ==
    ASSUME req' = [q \in Confirm |-> req'[q]],
           \A q \in Confirm : req'[q].tok = req[q].tok /\ req'[q].report = req[q].report,
           standing' \subseteq standing, written' = written
    PROVE  ApplyOutcome!OutcomeNext
  <1>1. AskedAll' = AskedAll /\ AnswerAll' = AnswerAll
    BY DEF AskedAll, AnswerAll, Asked, ApplyAnswer
  <1>2. ApplyOutcome!Undo
    BY <1>1 DEF ApplyOutcome!Undo, AskedAll, AnswerAll, Asked
  <1>3. QED
    BY <1>2 DEF ApplyOutcome!OutcomeNext

\* The transaction writes its plan, which no standing request confirms.
LEMMA TransactRefines ==
    ASSUME ApplyInv, NEW r \in Confirm, NEW outcome \in {"ok", "failed", "lost"}, Transact(r, outcome)
    PROVE  ApplyOutcome!OutcomeNext
  <1>1. /\ req' = [q \in Confirm |-> req'[q]] /\ \A q \in Confirm : q # r => req'[q] = req[q]
        /\ req'[r].tok = req[r].tok /\ req'[r].report = "none" /\ req[r].report = "none"
        /\ req[r].tok # 0
    BY TransactFacts
  <1>2. CASE outcome = "failed"
    BY <1>1, <1>2, TransactFacts, UndoRefines
  <1>3. CASE outcome # "failed"
    <2>1. standing' = standing \cup {r} /\ written' = written \cup {req[r].tok}
      BY <1>3, TransactFacts
    <2>2. \A q \in standing : q \in Confirm /\ req[q].tok < req[r].tok
      <3>1. standing \subseteq Confirm
        BY DEF ApplyInv, RequestsOK
      <3>2. /\ req[r].pc = "begin" /\ PreStateHolds(Plan(r))
            /\ TargetItem(Plan(r)) \in 1..MaxId /\ TargetSource(Plan(r)) \in 1..MaxId
        BY TransactFacts
      <3>3. \A q \in standing : req[q].tok < req[r].tok
        BY <3>2, MayWrite
      <3>4. QED
        BY <3>1, <3>3
    <2>3. req[r].tok \in Nat /\ \A q \in standing : req[q].tok \in Nat
      BY <2>2, RowsAssumption DEF ApplyInv, RequestsOK, RequestOK
    <2>4. /\ AskedAll' = AskedAll /\ AnswerAll' = AnswerAll
          /\ AskedAll[r] = req[r].tok /\ AnswerAll[r] = "none"
      BY <1>1 DEF AskedAll, AnswerAll, Asked, ApplyAnswer
    <2>5. \A q \in standing : AskedAll[q] # AskedAll[r]
      BY <1>1, <2>2, <2>3, <2>4 DEF AskedAll, Asked
    <2>6. ApplyOutcome!Write(r)
      BY <1>1, <2>1, <2>4, <2>5 DEF ApplyOutcome!Write, AskedAll, AnswerAll, Asked
    <2>7. QED
      BY <2>6 DEF ApplyOutcome!OutcomeNext
  <1>4. QED
    BY <1>2, <1>3

LEMMA NextRefines ==
    ApplyInv /\ [ApplyNext]_<<rowVars, applyVars>>
        => [ApplyOutcome!OutcomeNext]_ApplyOutcome!outcomeVars
  <1> SUFFICES ASSUME ApplyInv, [ApplyNext]_<<rowVars, applyVars>>
               PROVE  ApplyOutcome!OutcomeNext
    OBVIOUS
  <1>1. ASSUME UNCHANGED <<req, written>>, standing' \subseteq standing PROVE ApplyOutcome!OutcomeNext
    BY <1>1, UndoRefines DEF ApplyInv, RequestsOK
  <1>2. CASE Page
    BY <1>1, <1>2 DEF Page
  <1>3. CASE Login \/ Logout \/ UNCHANGED <<rowVars, applyVars>>
    BY <1>1, <1>3 DEF Login, Logout, applyVars
  <1>4. ASSUME NEW summary, Preview(summary) PROVE ApplyOutcome!OutcomeNext
    BY <1>1, <1>4 DEF Preview
  <1>5. ASSUME NEW r \in Confirm, BeginFails(r) PROVE ApplyOutcome!OutcomeNext
    <2>1. /\ req' = [q \in Confirm |-> req'[q]]
          /\ \A q \in Confirm : req'[q].tok = req[q].tok /\ req'[q].report = req[q].report
          /\ UNCHANGED <<standing, written>>
      <3>1. /\ req' = [req EXCEPT ![r] = [req[r] EXCEPT !.pc = "inspect"]]
            /\ UNCHANGED <<standing, written>>
        BY <1>5 DEF BeginFails
      <3>2. \A q \in Confirm : q # r => req'[q] = req[q]
        BY <3>1, RequestFields
      <3>3. req'[r].tok = req[r].tok /\ req'[r].report = req[r].report
        BY <3>1, RequestFields DEF IsRequest
      <3>4. QED
        BY <3>1, <3>2, <3>3, RequestFields
    <2>2. QED
      BY <2>1, UndoRefines
  <1>6. QED
    BY <1>2, <1>3, <1>4, <1>5, ConfirmTokenRefines, StaleRefines, LooksRefine, TransactRefines
       DEF ApplyNext

\* The confirmation of a provider detail implements ConfirmOutcome
\* (app/provider_apply/transaction.py): a plan is not written again while its
\* write stands, "committed" is answered only for a written plan, and a failure
\* only when no write of the request stands, whatever pages edit meanwhile and
\* however the commit fails.
THEOREM ConfirmationKeepsPromise == ApplySpec => ApplyKeepsPromise
  <1>1. ApplySpec => []ApplyInv
    BY InitApplyInv, NextApplyInv, PTL DEF ApplySpec
  <1>2. QED
    BY <1>1, InitRefines, NextRefines, PTL
       DEF ApplySpec, ApplyKeepsPromise, ApplyOutcome!OutcomeSpec

----------------------------------------------------------------------------
(* Plans, logins and relation rows                                          *)

InFlight(r) == req[r].pc \in {"begin", "verify", "inspect"} \/ r \in standing

\* A request that was let through goes on in the login that signed its token.
LoginOK(r) ==
    InFlight(r) => /\ req[r].tok \in 1..MaxFetch /\ token[req[r].tok] # NoToken
                   /\ req[r].login = token[req[r].tok].login

\* What a standing create left is no id of a deleted item's relation rows.
LeftClean(r) == r \in standing => (req[r].post.clean => req[r].post.itemId \notin orphans)

SoundInv == ApplyInv /\ \A r \in Confirm : LoginOK(r) /\ LeftClean(r)

LEMMA OrphansStay == [ApplyNext]_<<rowVars, applyVars>> => orphans' = orphans
  <1>1. Page => orphans' = orphans
    BY DEF Page, PageEdit, EditItem, DeleteItem, AddItemSource, DeleteItemSource
  <1>2. Login \/ Logout \/ UNCHANGED <<rowVars, applyVars>> => orphans' = orphans
    BY DEF Login, Logout, rowVars
  <1>3. ASSUME NEW summary, Preview(summary) PROVE orphans' = orphans
    BY <1>3 DEF Preview, rowVars
  <1>4. ASSUME NEW r \in Confirm,
               \/ \E f \in 1..MaxFetch : ConfirmToken(r, f)
               \/ BeginFails(r) \/ Stale(r)
        PROVE  orphans' = orphans
    BY <1>4 DEF ConfirmToken, BeginFails, Stale, rowVars
  <1>5. ASSUME NEW r \in Confirm, VerifyCommit(r) \/ Classify(r) \/ LookFails(r)
        PROVE  orphans' = orphans
    BY <1>5 DEF VerifyCommit, Classify, LookFails, Report, rowVars
  <1>6. ASSUME NEW r \in Confirm, NEW outcome, Transact(r, outcome) PROVE orphans' = orphans
    BY <1>6 DEF Transact
  <1>7. QED
    BY <1>1, <1>2, <1>3, <1>4, <1>5, <1>6 DEF ApplyNext

\* A token that was signed is never replaced.
LEMMA TokensStay ==
    ASSUME ApplyInv, [ApplyNext]_<<rowVars, applyVars>>, NEW f \in 1..MaxFetch, token[f] # NoToken
    PROVE  token'[f] = token[f]
  <1>1. ASSUME NEW summary, Preview(summary) PROVE token'[f] = token[f]
    <2> PICK at, new : at = fetched + 1 /\ new = SignPlan(BuildPlan([at |-> at, summary |-> summary]))
      OBVIOUS
    <2>1. token' = token \/ token' = [token EXCEPT ![at] = new]
      BY <1>1 DEF Preview
    <2>2. f # at
      BY RowsAssumption DEF ApplyInv, SourcesOK, TokensOK, TokenOK
    <2>3. QED
      BY <2>1, <2>2 DEF ApplyInv, TokensOK
  <1>2. Page \/ Login \/ Logout \/ UNCHANGED <<rowVars, applyVars>> => token' = token
    BY DEF Page, Login, Logout, applyVars
  <1>3. ASSUME NEW r \in Confirm,
               \/ \E g \in 1..MaxFetch : ConfirmToken(r, g)
               \/ BeginFails(r) \/ Stale(r)
        PROVE  token' = token
    BY <1>3 DEF ConfirmToken, BeginFails, Stale
  <1>4. ASSUME NEW r \in Confirm, VerifyCommit(r) \/ Classify(r) \/ LookFails(r)
        PROVE  token' = token
    BY <1>4 DEF VerifyCommit, Classify, LookFails, Report
  <1>5. ASSUME NEW r \in Confirm, NEW outcome, Transact(r, outcome) PROVE token' = token
    BY <1>5 DEF Transact
  <1>6. QED
    BY <1>1, <1>2, <1>3, <1>4, <1>5 DEF ApplyNext

\* What a step does to a request: it keeps the token and the login.
Kept(r) ==
    /\ req'[r].tok = req[r].tok /\ req'[r].login = req[r].login
    /\ InFlight(r)' => InFlight(r)
    /\ r \in standing' => r \in standing /\ req'[r].post = req[r].post

LEMMA SameIsKept ==
    ASSUME NEW r, req'[r] = req[r], r \in standing' => r \in standing
    PROVE  Kept(r)
  BY DEF Kept, InFlight

LEMMA ReportKept ==
    ASSUME ApplyInv, NEW r \in Confirm, req[r].pc \in {"verify", "inspect"}, NEW report, Report(r, report)
    PROVE  Kept(r)
  <1> PICK post : post = IF r \in standing THEN req[r].post ELSE NoState
    OBVIOUS
  <1> PICK z : z = [pc |-> req[r].pc, tok |-> req[r].tok, login |-> req[r].login,
                    pre |-> req[r].pre, post |-> req[r].post, report |-> req[r].report]
    OBVIOUS
  <1>1. req[r] = z
    BY RequestFields DEF IsRequest
  <1>2. req' = [req EXCEPT ![r] = [z EXCEPT !.pc = "done", !.report = report, !.pre = NoState, !.post = post]]
    BY <1>1, RequestFields DEF Report
  <1>3. LET y == [z EXCEPT !.pc = "done", !.report = report, !.pre = NoState, !.post = post]
        IN  y.pc = "done" /\ y.tok = z.tok /\ y.login = z.login /\ y.post = post
    OBVIOUS
  <1>4. req'[r].pc = "done" /\ req'[r].tok = req[r].tok /\ req'[r].login = req[r].login /\ req'[r].post = post
    BY <1>1, <1>2, <1>3, RequestFields
  <1>5. standing' = standing
    BY DEF Report
  <1>6. QED
    BY <1>4, <1>5 DEF Kept, InFlight

LEMMA BeginEndsKept ==
    ASSUME ApplyInv, NEW r \in Confirm, BeginFails(r) \/ Stale(r)
    PROVE  Kept(r)
  <1> PICK z : z = [pc |-> req[r].pc, tok |-> req[r].tok, login |-> req[r].login,
                    pre |-> req[r].pre, post |-> req[r].post, report |-> req[r].report]
    OBVIOUS
  <1>1. req[r] = z /\ req[r].pc = "begin" /\ standing' = standing
    BY RequestFields DEF IsRequest, BeginFails, Stale
  <1>2. \/ req'[r] = [z EXCEPT !.pc = "inspect"]
        \/ req'[r] = [z EXCEPT !.pc = "done", !.report = "stale_plan"]
    BY <1>1, RequestFields DEF BeginFails, Stale
  <1>3. req'[r].tok = z.tok /\ req'[r].login = z.login /\ req'[r].post = z.post
    BY <1>2
  <1>4. QED
    BY <1>1, <1>3 DEF Kept, InFlight

LEMMA ConfirmTokenLogin ==
    ASSUME SoundInv, NEW r \in Confirm, NEW f \in 1..MaxFetch, ConfirmToken(r, f)
    PROVE  LoginOK(r)' /\ r \notin standing'
  <1>1. /\ req[r] = Idle /\ token[f] # NoToken /\ UNCHANGED <<token, standing>>
        /\ \/ /\ req'[r] = [Idle EXCEPT !.pc = "begin", !.tok = f, !.login = session.login]
              /\ token[f].login = session.login
           \/ req'[r] = [Idle EXCEPT !.pc = "done", !.tok = f, !.report = "refused"]
    BY RequestFields DEF ConfirmToken, TokenAccepted, SoundInv
  <1>2. r \notin standing
    BY <1>1 DEF SoundInv, ApplyInv, RequestsOK, Idle
  <1>3. CASE /\ req'[r] = [Idle EXCEPT !.pc = "begin", !.tok = f, !.login = session.login]
             /\ token[f].login = session.login
    <2>1. req'[r].tok = f /\ req'[r].login = session.login
      BY <1>3 DEF Idle
    <2>2. QED
      BY <1>1, <1>2, <1>3, <2>1 DEF LoginOK
  <1>4. CASE req'[r] = [Idle EXCEPT !.pc = "done", !.tok = f, !.report = "refused"]
    <2>1. req'[r].pc = "done"
      BY <1>4 DEF Idle
    <2>2. QED
      BY <1>1, <1>2, <2>1 DEF LoginOK, InFlight
  <1>5. QED
    BY <1>1, <1>2, <1>3, <1>4

LEMMA KeptIsSound ==
    ASSUME SoundInv, [ApplyNext]_<<rowVars, applyVars>>, NEW r \in Confirm, Kept(r)
    PROVE  LoginOK(r)' /\ LeftClean(r)'
  <1>1. LoginOK(r)'
    BY TokensStay DEF SoundInv, LoginOK, Kept
  <1>2. LeftClean(r)'
    BY OrphansStay DEF SoundInv, LeftClean, Kept
  <1>3. QED
    BY <1>1, <1>2

LEMMA TransactSound ==
    ASSUME SoundInv, NEW r \in Confirm, NEW outcome \in {"ok", "failed", "lost"}, Transact(r, outcome),
           orphans' = orphans
    PROVE  LoginOK(r)' /\ LeftClean(r)'
  <1>1. /\ req[r].pc = "begin" /\ req'[r].tok = req[r].tok /\ req'[r].login = req[r].login
        /\ req'[r].post = WrittenRow(r) /\ r \notin standing /\ UNCHANGED token
        /\ outcome = "failed" => standing' = standing
    BY TransactFacts DEF SoundInv
  <1>2. LoginOK(r)'
    BY <1>1 DEF SoundInv, LoginOK, InFlight
  <1>3. outcome # "failed" => PostCheck(Plan(r), TargetItem(Plan(r)))
    BY DEF Transact
  <1>4. WrittenRow(r).itemId = TargetItem(Plan(r)) /\ (WrittenRow(r).clean = (Plan(r).action = "create"))
    BY DEF WrittenRow, PostState
  <1>5. LeftClean(r)'
    BY <1>1, <1>3, <1>4 DEF LeftClean, PostCheck
  <1>6. QED
    BY <1>2, <1>5

LEMMA InitSoundInv == ApplyInit => SoundInv
  BY InitApplyInv DEF SoundInv, ApplyInit, ApplyStart, LoginOK, InFlight, LeftClean, Idle

LEMMA NextSoundInv ==
    ASSUME SoundInv, [ApplyNext]_<<rowVars, applyVars>>
    PROVE  SoundInv'
  <1>0. ApplyInv /\ ApplyInv'
    BY NextApplyInv DEF SoundInv
  <1>1. orphans' = orphans
    BY OrphansStay
  <1>2. ASSUME NEW r \in Confirm PROVE LoginOK(r)' /\ LeftClean(r)'
    <2>1. CASE Page
      BY <2>1, SameIsKept, KeptIsSound DEF Page
    <2>2. CASE Login \/ Logout \/ UNCHANGED <<rowVars, applyVars>>
      BY <2>2, SameIsKept, KeptIsSound DEF Login, Logout, applyVars
    <2>3. CASE \E summary \in {Blank, "provided"} : Preview(summary)
      BY <2>3, SameIsKept, KeptIsSound DEF Preview
    <2>4. ASSUME NEW q \in Confirm, q # r,
                 \/ \E f \in 1..MaxFetch : ConfirmToken(q, f)
                 \/ BeginFails(q) \/ Stale(q) \/ VerifyCommit(q) \/ Classify(q) \/ LookFails(q)
                 \/ \E outcome \in {"ok", "failed", "lost"} : Transact(q, outcome)
          PROVE  LoginOK(r)' /\ LeftClean(r)'
      <3>1. req'[r] = req[r] /\ (r \in standing' => r \in standing)
        <4>1. CASE \E f \in 1..MaxFetch : ConfirmToken(q, f)
          BY <1>0, <2>4, <4>1, RequestFields DEF ConfirmToken
        <4>2. CASE BeginFails(q) \/ Stale(q)
          BY <1>0, <2>4, <4>2, RequestFields DEF BeginFails, Stale
        <4>3. CASE VerifyCommit(q) \/ Classify(q) \/ LookFails(q)
          <5>1. \E report : Report(q, report)
            BY <4>3 DEF VerifyCommit, Classify, LookFails
          <5>2. QED
            BY <1>0, <2>4, <5>1, RequestFields DEF Report
        <4>4. ASSUME NEW outcome \in {"ok", "failed", "lost"}, Transact(q, outcome)
              PROVE  req'[r] = req[r] /\ (r \in standing' => r \in standing)
          BY <1>0, <2>4, <4>4, TransactFacts
        <4>5. QED
          BY <2>4, <4>1, <4>2, <4>3, <4>4
      <3>2. QED
        BY <3>1, SameIsKept, KeptIsSound
    <2>5. ASSUME NEW f \in 1..MaxFetch, ConfirmToken(r, f) PROVE LoginOK(r)' /\ LeftClean(r)'
      BY <2>5, ConfirmTokenLogin DEF LeftClean
    <2>6. CASE BeginFails(r) \/ Stale(r)
      BY <1>0, <2>6, BeginEndsKept, KeptIsSound
    <2>7. CASE VerifyCommit(r) \/ Classify(r) \/ LookFails(r)
      BY <1>0, <2>7, ReportKept, KeptIsSound DEF VerifyCommit, Classify, LookFails
    <2>8. ASSUME NEW outcome \in {"ok", "failed", "lost"}, Transact(r, outcome)
          PROVE  LoginOK(r)' /\ LeftClean(r)'
      BY <1>1, <2>8, TransactSound
    <2>9. QED
      BY <2>1, <2>2, <2>3, <2>4, <2>5, <2>6, <2>7, <2>8 DEF ApplyNext
  <1>3. QED
    BY <1>0, <1>2 DEF SoundInv

LEMMA ChangeFields ==
    ASSUME NEW policy, NEW current, NEW proposed, NEW writes
    PROVE  /\ Change(policy, current, proposed, writes).policy = policy
           /\ Change(policy, current, proposed, writes).current = current
           /\ Change(policy, current, proposed, writes).proposed = proposed
           /\ Change(policy, current, proposed, writes).writes = writes
  <1>1. /\ Change(policy, current, proposed, writes).policy = policy
        /\ Change(policy, current, proposed, writes).current = current
        /\ Change(policy, current, proposed, writes).proposed = proposed
    BY DEF Change
  <1>2. Change(policy, current, proposed, writes).writes = writes
    BY Zenon DEF Change
  <1>3. QED
    BY <1>1, <1>2

LEMMA TrackedFields ==
    ASSUME NEW x, NEW current, NEW proposed, x = Tracking(current, proposed)
    PROVE  /\ x.policy = "refresh_tracking" /\ x.current = current /\ x.proposed = proposed
           /\ x.writes = (x.current # x.proposed)
  <1>1. x = Change("refresh_tracking", current, proposed, current # proposed)
    BY Zenon DEF Tracking
  <1>2. /\ x.policy = "refresh_tracking" /\ x.current = current /\ x.proposed = proposed
        /\ x.writes = (current # proposed)
    BY <1>1, ChangeFields
  <1>3. QED
    BY <1>2, Zenon

KeepLocal(current, proposed) == Change("keep_local", current, proposed, FALSE)

LEMMA KeptFields ==
    ASSUME NEW x, NEW current, NEW proposed, x = KeepLocal(current, proposed)
    PROVE  x.policy = "keep_local" /\ x.current = current /\ ~x.writes
  BY DEF KeepLocal, Change

\* The plan contract holds of what the rows allow, whatever they are.
LEMMA CreatePlanValid ==
    ASSUME NEW at \in 1..MaxFetch, NEW summary
    PROVE  PlanValid(CreatePlan([at |-> at, summary |-> summary]))
  <1> PICK d : d = [at |-> at, summary |-> summary]
    OBVIOUS
  <1> PICK plan : plan = CreatePlan(d)
    OBVIOUS
  <1>1. d.at = at /\ at # 0 /\ "provider title" # Blank
    BY RowsAssumption DEF Blank
  <1>2. /\ plan.action = "create" /\ plan.itemId = 0 /\ plan.sourceId = 0
        /\ plan.detail = d /\ plan.changes = CreateChanges(d)
    BY DEF CreatePlan
  <1>3. \A f \in Fields : plan.changes[f] = Change("create_value", Empty(f), Proposed(d, f), Proposed(d, f) # Empty(f))
    BY <1>2 DEF CreateChanges
  <1>4. \A f \in Fields : /\ plan.changes[f].policy = "create_value" /\ plan.changes[f].current = Empty(f)
                          /\ plan.changes[f].proposed = Proposed(d, f)
                          /\ plan.changes[f].writes = (Proposed(d, f) # Empty(f))
    BY <1>3, ChangeFields
  <1>5. \A f \in Fields : ChangeValid(f, plan.changes[f])
    BY <1>4, Zenon DEF ChangeValid
  <1>6. \A f \in Fields \ {"summary"} : Proposed(d, f) # Empty(f)
    BY <1>1 DEF Fields, Proposed, Empty
  <1>7. CreateValid(plan)
    BY <1>2, <1>4, <1>6 DEF CreateValid
  <1>8. ProjectionValid(plan)
    BY <1>2, <1>4 DEF ProjectionValid, Fields, Proposed
  <1>9. QED
    BY <1>2, <1>5, <1>7, <1>8 DEF PlanValid

LEMMA UpdatePlanValid ==
    ASSUME sources \in [1..MaxId -> SourceRow \cup {NoSource}],
           NEW at \in 1..MaxFetch, NEW summary, NEW s \in SourceIds
    PROVE  PlanValid(UpdatePlan([at |-> at, summary |-> summary], s))
  <1> PICK d : d = [at |-> at, summary |-> summary]
    OBVIOUS
  <1> PICK item, row, i : row = sources[s] /\ i = row.item /\ item = items[i]
    OBVIOUS
  <1> PICK plan : plan = UpdatePlan(d, s)
    OBVIOUS
  <1>1. s \in 1..MaxId /\ row \in SourceRow /\ i \in 1..MaxId
    BY DEF SourceIds, SourceRow
  <1>2. i # 0 /\ s # 0
    BY <1>1, RowsAssumption
  <1>3. /\ plan.action = "update" /\ plan.itemId = i /\ plan.sourceId = s /\ plan.item = item
        /\ plan.source = row /\ plan.dups = Duplicates("provider title", i)
        /\ plan.detail = d /\ plan.changes = UpdateChanges(d, item, row)
    BY DEF UpdatePlan
  <1>4. /\ plan.changes["title"] = KeepLocal(item.title, "provider title")
        /\ plan.changes["summary"] = ProtectedChange(item.summary, d.summary)
        /\ plan.changes["checked"] = Tracking(row.checked, d.at)
        /\ plan.changes["hash"] = Tracking(row.hash, d.at)
    BY <1>3 DEF UpdateChanges, Fields, Proposed, KeepLocal
  <1>5. /\ plan.changes["title"].policy = "keep_local" /\ ~plan.changes["title"].writes
        /\ plan.changes["title"].current = item.title
    <2>a. PICK x, t, proposed : x = plan.changes["title"] /\ t = item.title /\ proposed = "provider title"
      OBVIOUS
    <2>1. x = KeepLocal(t, proposed)
      BY <1>4, <2>a, Zenon
    <2>2. x.policy = "keep_local" /\ x.current = t /\ ~x.writes
      BY <2>1, KeptFields
    <2>3. QED
      BY <2>2, <2>a, Zenon
  <1>6. /\ plan.changes["summary"].current = item.summary
        /\ \/ /\ plan.changes["summary"].policy = "fill_blank" /\ plan.changes["summary"].writes
              /\ plan.changes["summary"].current = Blank /\ plan.changes["summary"].proposed # Blank
           \/ plan.changes["summary"].policy = "keep_local" /\ ~plan.changes["summary"].writes
    <2>1. CASE item.summary = Blank /\ d.summary # Blank
      <3>1. plan.changes["summary"] = Change("fill_blank", item.summary, d.summary, TRUE)
        BY <1>4, <2>1, Zenon DEF ProtectedChange
      <3>2. QED
        BY <2>1, <3>1 DEF Change
    <2>2. CASE ~(item.summary = Blank /\ d.summary # Blank)
      <3>1. plan.changes["summary"] = Change("keep_local", item.summary, d.summary, FALSE)
        BY <1>4, <2>2, Zenon DEF ProtectedChange
      <3>2. QED
        BY <2>2, <3>1 DEF Change
    <2>3. QED
      BY <2>1, <2>2
  <1>7. /\ plan.changes["checked"].policy = "refresh_tracking"
        /\ plan.changes["checked"].current = row.checked /\ plan.changes["checked"].proposed = d.at
        /\ plan.changes["checked"].writes = (plan.changes["checked"].current # plan.changes["checked"].proposed)
    <2> PICK x : x = plan.changes["checked"]
      OBVIOUS
    <2>1. x = Tracking(row.checked, d.at)
      BY <1>4, Zenon
    <2>2. /\ x.policy = "refresh_tracking" /\ x.current = row.checked /\ x.proposed = d.at
          /\ x.writes = (x.current # x.proposed)
      BY <2>1, TrackedFields
    <2>3. QED
      BY <2>2, Zenon
  <1>8. /\ plan.changes["hash"].policy = "refresh_tracking"
        /\ plan.changes["hash"].current = row.hash /\ plan.changes["hash"].proposed = d.at
        /\ plan.changes["hash"].writes = (plan.changes["hash"].current # plan.changes["hash"].proposed)
    <2> PICK x : x = plan.changes["hash"]
      OBVIOUS
    <2>1. x = Tracking(row.hash, d.at)
      BY <1>4, Zenon
    <2>2. /\ x.policy = "refresh_tracking" /\ x.current = row.hash /\ x.proposed = d.at
          /\ x.writes = (x.current # x.proposed)
      BY <2>1, TrackedFields
    <2>3. QED
      BY <2>2, Zenon
  <1>9. ASSUME NEW f \in Fields PROVE ChangeValid(f, plan.changes[f])
    <2>1. CASE f = "title"
      BY <1>5, <2>1 DEF ChangeValid
    <2>2. CASE f = "summary"
      BY <1>6, <2>2 DEF ChangeValid
    <2>3. CASE f = "checked"
      <3>1. plan.changes[f].writes = (plan.changes[f].current # plan.changes[f].proposed)
        BY <1>7, <2>3, Zenon
      <3>2. QED
        BY <1>7, <2>3, <3>1 DEF ChangeValid
    <2>4. CASE f = "hash"
      <3>1. plan.changes[f].writes = (plan.changes[f].current # plan.changes[f].proposed)
        BY <1>8, <2>4, Zenon
      <3>2. QED
        BY <1>8, <2>4, <3>1 DEF ChangeValid
    <2>5. QED
      BY <2>1, <2>2, <2>3, <2>4 DEF Fields
  <1>10. \A f \in Fields : plan.changes[f].policy \in AllowedPolicies(f)
    BY <1>5, <1>6, <1>7, <1>8 DEF Fields, AllowedPolicies
  <1>11. i \notin plan.dups
    BY <1>3 DEF Duplicates
  <1>12. UpdateValid(plan)
    <2>1. /\ plan.itemId # 0 /\ plan.sourceId # 0 /\ plan.source.item = plan.itemId
          /\ plan.itemId \notin plan.dups
      BY <1>2, <1>3, <1>11
    <2>2. /\ plan.changes["title"].current = plan.item.title
          /\ plan.changes["summary"].current = plan.item.summary
          /\ plan.changes["checked"].current = plan.source.checked
          /\ plan.changes["hash"].current = plan.source.hash
      BY <1>3, <1>5, <1>6, <1>7, <1>8
    <2>3. QED
      BY <1>10, <2>1, <2>2 DEF UpdateValid
  <1>13. ProjectionValid(plan)
    BY <1>3, <1>7, <1>8 DEF ProjectionValid
  <1>14. QED
    BY <1>3, <1>9, <1>12, <1>13 DEF PlanValid

LEMMA RowsAllowValidPlans == sources \in [1..MaxId -> SourceRow \cup {NoSource}] => BuiltPlansValid
  <1> SUFFICES ASSUME sources \in [1..MaxId -> SourceRow \cup {NoSource}], PlanAction # "conflict",
                      NEW at \in 1..MaxFetch, NEW summary \in {Blank, "provided"}
               PROVE  PlanValid(BuildPlan([at |-> at, summary |-> summary]))
    BY DEF BuiltPlansValid
  <1> PICK d : d = [at |-> at, summary |-> summary]
    OBVIOUS
  <1>1. CASE PlanAction = "create"
    BY <1>1, CreatePlanValid DEF BuildPlan
  <1>2. CASE PlanAction # "create"
    <2>1. IdentitySources # {}
      BY <1>2 DEF PlanAction
    <2> PICK s : s = CHOOSE x \in IdentitySources : TRUE
      OBVIOUS
    <2>2. s \in SourceIds
      BY <2>1 DEF IdentitySources
    <2>3. BuildPlan(d) = UpdatePlan(d, s)
      BY <1>2 DEF BuildPlan
    <2>4. QED
      BY <2>2, <2>3, UpdatePlanValid
  <1>3. QED
    BY <1>1, <1>2

\* A plan the rows allow passes its contract, is written only in the login that
\* signed it, and leaves a new item without the relations of a deleted one
\* (build_provider_apply_plan, verify_provider_apply_token, the checks before the
\* commit), whatever pages edit and whoever logs out in between.
THEOREM ConfirmationSound == ApplySpec => []ApplySound
  <1>1. ApplySpec => []SoundInv
    BY InitSoundInv, NextSoundInv, PTL DEF ApplySpec
  <1>2. SoundInv => CreatedItemsClean
    BY DEF SoundInv, LeftClean, CreatedItemsClean, ApplyInv, RequestsOK
  <1>3. SoundInv => WritesStayInSession
    BY DEF SoundInv, LoginOK, InFlight, WritesStayInSession, ApplyInv, RequestsOK
  <1>4. SoundInv => BuiltPlansValid
    BY RowsAllowValidPlans DEF SoundInv, ApplyInv, SourcesOK
  <1>5. SoundInv => ApplySound
    BY <1>2, <1>3, <1>4 DEF ApplySound
  <1>6. QED
    BY <1>1, <1>5, PTL
============================================================================
