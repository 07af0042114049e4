--------------------------- MODULE ProviderApply ---------------------------
(***************************************************************************)
(* A provider detail becomes an item: preview builds a plan and signs it,    *)
(* confirm verifies the token and writes the plan in one transaction, then    *)
(* looks at the result from a second session (app/provider_apply).            *)
(*                                                                          *)
(* A detail is known by the number of its fetch; its projection hash covers   *)
(* received_at and is therefore that number too.  The transaction holds       *)
(* SQLite's write lock from BEGIN IMMEDIATE to its commit and is one step;    *)
(* the commit may fail, or be durable and raise all the same.                 *)
(***************************************************************************)
EXTENDS CatalogRows

CONSTANTS
    Confirm,    \* confirm requests
    MaxLogin    \* bound: logins

ASSUME ApplyAssumption == MaxLogin \in Nat \ {0}

Fields == {"title", "summary", "checked", "hash"}
NoToken == [login |-> 0]

VARIABLES
    fetched,    \* details received so far
    token,      \* the token signed for the plan of each detail
    session,    \* the browser session: login number, signed in, has a nonce
    req,        \* confirm requests
    standing,   \* history: requests whose write is still in the database
    written     \* history: details whose plan was ever written

applyVars == <<fetched, token, session, req, standing, written>>

NoState == [itemId |-> 0]
Idle == [pc |-> "idle", tok |-> 0, login |-> 0, pre |-> NoState, post |-> NoState, report |-> "none"]

----------------------------------------------------------------------------
(* Building a plan                                                          *)

\* What stands for "no value" in a field.
Empty(f) == IF f \in {"checked", "hash"} THEN 0 ELSE Blank

Proposed(d, field) ==
    CASE field = "title" -> "provider title"
      [] field = "summary" -> d.summary
      [] OTHER -> d.at

Change(policy, current, proposed, writes) ==
    [policy |-> policy, current |-> current, proposed |-> proposed, writes |-> writes]

CreateChanges(d) ==
    [f \in Fields |-> Change("create_value", Empty(f), Proposed(d, f), Proposed(d, f) # Empty(f))]

\* A local value is never replaced; a blank one is filled.
ProtectedChange(current, proposed) ==
    IF current = Blank /\ proposed # Blank
    THEN Change("fill_blank", current, proposed, TRUE)
    ELSE Change("keep_local", current, proposed, FALSE)

Tracking(current, proposed) ==
    Change("refresh_tracking", current, proposed, current # proposed)

UpdateChanges(d, item, source) ==
    [f \in Fields |->
       CASE f = "title" -> Change("keep_local", item.title, Proposed(d, f), FALSE)
         [] f = "summary" -> ProtectedChange(item.summary, d.summary)
         [] f = "checked" -> Tracking(source.checked, d.at)
         [] f = "hash" -> Tracking(source.hash, d.at)]

HasWrites(plan) == \E f \in Fields : plan.changes[f].writes

\* Which plan the rows allow; "conflict" stands for the refusals.
PlanAction ==
    CASE IdentitySources = {} /\ UrlSources = {} -> "create"
      [] IdentitySources # {} /\ UrlSources = IdentitySources -> "update"
      [] OTHER -> "conflict"

CreatePlan(d) ==
    [action |-> "create", detail |-> d, itemId |-> 0, item |-> NoItem,
     sourceId |-> 0, source |-> NoSource, changes |-> CreateChanges(d),
     dups |-> Duplicates("provider title", 0)]

UpdatePlan(d, s) ==
    LET i == sources[s].item
    IN  [action |-> "update", detail |-> d, itemId |-> i, item |-> items[i],
         sourceId |-> s, source |-> sources[s],
         changes |-> UpdateChanges(d, items[i], sources[s]),
         dups |-> Duplicates("provider title", i)]

\* build_provider_apply_plan
BuildPlan(d) ==
    IF PlanAction = "create" THEN CreatePlan(d)
    ELSE UpdatePlan(d, CHOOSE s \in IdentitySources : TRUE)

----------------------------------------------------------------------------
(* The contract every plan is checked against, when it is built and when it  *)
(* comes back in a token                                                     *)

ChangeValid(f, c) ==
    CASE c.policy = "create_value" ->
            c.current = Empty(f) /\ c.writes = (c.proposed # Empty(f))
      [] c.policy = "fill_blank" ->
            f = "summary" /\ c.current = Blank /\ c.proposed # Blank /\ c.writes
      [] c.policy = "keep_local" -> f \in {"title", "summary"} /\ ~c.writes
      [] c.policy = "refresh_tracking" ->
            f \in {"checked", "hash"} /\ c.writes = (c.current # c.proposed)

AllowedPolicies(f) ==
    CASE f = "title" -> {"keep_local"}
      [] f = "summary" -> {"keep_local", "fill_blank"}
      [] OTHER -> {"refresh_tracking"}

CreateValid(plan) ==
    /\ plan.itemId = 0 /\ plan.sourceId = 0
    /\ \A f \in Fields : plan.changes[f].policy = "create_value"
    /\ \A f \in Fields \ {"summary"} : plan.changes[f].proposed # Empty(f)

UpdateValid(plan) ==
    /\ plan.itemId # 0 /\ plan.sourceId # 0
    /\ plan.source.item = plan.itemId
    /\ plan.itemId \notin plan.dups
    /\ \A f \in Fields : plan.changes[f].policy \in AllowedPolicies(f)
    /\ plan.changes["title"].current = plan.item.title
    /\ plan.changes["summary"].current = plan.item.summary
    /\ plan.changes["checked"].current = plan.source.checked
    /\ plan.changes["hash"].current = plan.source.hash

ProjectionValid(plan) ==
    /\ plan.changes["checked"].proposed = plan.detail.at
    /\ plan.changes["hash"].proposed = plan.detail.at

PlanValid(plan) ==
    /\ \A f \in Fields : ChangeValid(f, plan.changes[f])
    /\ IF plan.action = "create" THEN CreateValid(plan) ELSE UpdateValid(plan)
    /\ ProjectionValid(plan)

----------------------------------------------------------------------------
(* Session material and tokens                                              *)

\* A token is shown when the rows allow a plan that writes something.
Previewable(d) ==
    /\ PlanAction # "conflict"
    /\ PlanValid(BuildPlan(d))
    /\ HasWrites(BuildPlan(d))

\* sign_provider_apply_plan: the context is the session's, so the login is in it.
SignPlan(plan) == [login |-> session.login, plan |-> plan]

\* The detail page: one fetch, a plan, and a token bound to this session.  The
\* first preview of a session makes its nonce.
Preview(summary) ==
    LET d == [at |-> fetched + 1, summary |-> summary]
    IN  /\ session.signedIn
        /\ fetched < MaxFetch
        /\ fetched' = fetched + 1
        /\ IF Previewable(d)
           THEN /\ token' = [token EXCEPT ![d.at] =
                               SignPlan(BuildPlan(d))]
                /\ session' = [session EXCEPT !.nonce = TRUE]
           ELSE UNCHANGED <<token, session>>
        /\ UNCHANGED <<req, standing, written, rowVars>>

\* Logging out replaces the generation: no session of before is valid again.
Logout ==
    /\ session.signedIn
    /\ session' = [session EXCEPT !.signedIn = FALSE, !.nonce = FALSE]
    /\ UNCHANGED <<fetched, token, req, standing, written, rowVars>>

Login ==
    /\ ~session.signedIn
    /\ session.login < MaxLogin
    /\ session' = [login |-> session.login + 1, signedIn |-> TRUE, nonce |-> FALSE]
    /\ UNCHANGED <<fetched, token, req, standing, written, rowVars>>

\* get_provider_apply_web_material, then verify_provider_apply_token at a
\* moment that is before the token was issued, in its lifetime or after it.
TokenAccepted(t, when) ==
    /\ session.signedIn /\ session.nonce
    /\ when = "valid"
    /\ t.login = session.login
    /\ PlanValid(t.plan)
    /\ HasWrites(t.plan)

\* The confirm handler up to the transaction.
ConfirmToken(r, f) ==
    /\ req[r] = Idle
    /\ token[f] # NoToken
    /\ \E when \in {"early", "valid", "expired"} :
          IF TokenAccepted(token[f], when)
          THEN req' = [req EXCEPT ![r].pc = "begin", ![r].tok = f, ![r].login = session.login]
          ELSE req' = [req EXCEPT ![r].pc = "done", ![r].tok = f, ![r].report = "refused"]
    /\ UNCHANGED <<fetched, token, session, standing, written, rowVars>>

----------------------------------------------------------------------------
(* The transaction                                                          *)

Plan(r) == token[req[r].tok].plan

\* What _observe sees, for an item id that may be absent.
Observe(i) ==
    [identity |-> [s \in IdentitySources |-> sources[s]],
     url |-> [s \in UrlSources |-> sources[s]],
     item |-> IF i = 0 THEN NoItem ELSE items[i],
     dups |-> Duplicates("provider title", i)]

\* _validated_pre_state: the rows are exactly the ones the preview showed.
PreStateHolds(plan) ==
    LET seen == Observe(plan.itemId)
    IN  /\ seen.dups = plan.dups
        /\ IF plan.action = "create"
           THEN IdentitySources = {} /\ UrlSources = {}
           ELSE /\ IdentitySources = {plan.sourceId} /\ UrlSources = {plan.sourceId}
                /\ sources[plan.sourceId] = plan.source
                /\ seen.item # NoItem
                /\ seen.item = plan.item

\* The expected states by which an outcome is told later; "absent" are ids a
\* rolled back create must not have left behind.
PreState(plan, i, s) ==
    [seen |-> Observe(plan.itemId), itemId |-> plan.itemId,
     absentItem |-> IF plan.action = "create" THEN i ELSE 0,
     absentSource |-> IF plan.action = "create" THEN s ELSE 0, clean |-> FALSE]

NewItem(plan) == [title |-> plan.changes["title"].proposed,
                  summary |-> plan.changes["summary"].proposed]
NewSource(plan, i) == [item |-> i, ident |-> TRUE, url |-> TRUE,
                       checked |-> plan.changes["checked"].proposed,
                       hash |-> plan.changes["hash"].proposed]

Written(plan, f, old) == IF plan.changes[f].writes THEN plan.changes[f].proposed ELSE old

UpdatedItem(plan) == [plan.item EXCEPT !.summary = Written(plan, "summary", plan.item.summary)]
UpdatedSource(plan) ==
    [plan.source EXCEPT !.checked = Written(plan, "checked", plan.source.checked),
                        !.hash = Written(plan, "hash", plan.source.hash)]

\* _apply_create or _execute_exact_update, and the state they should leave.
TargetItem(plan) == IF plan.action = "create" THEN NextId(ItemIds) ELSE plan.itemId
TargetSource(plan) == IF plan.action = "create" THEN NextId(SourceIds) ELSE plan.sourceId

PostState(plan, i, s) ==
    LET item == IF plan.action = "create" THEN NewItem(plan) ELSE UpdatedItem(plan)
        source == IF plan.action = "create" THEN NewSource(plan, i) ELSE UpdatedSource(plan)
    IN  [seen |-> [identity |-> [x \in {s} |-> source], url |-> [x \in {s} |-> source],
                   item |-> item, dups |-> plan.dups],
         itemId |-> i, absentItem |-> 0, absentSource |-> 0,
         clean |-> plan.action = "create"]

\* _matches_expected_state, on the committed rows.
Matches(e) ==
    /\ Observe(e.itemId) = e.seen
    /\ e.clean => e.itemId \notin orphans
    /\ e.absentItem \notin ItemIds
    /\ e.absentSource \notin SourceIds

\* BEGIN IMMEDIATE fails: nothing to compare with but the plan itself.
BeginFails(r) ==
    /\ req[r].pc = "begin"
    /\ req' = [req EXCEPT ![r].pc = "inspect"]
    /\ UNCHANGED <<fetched, token, session, standing, written, rowVars>>

Stale(r) ==
    /\ req[r].pc = "begin"
    /\ ~PreStateHolds(Plan(r))
    /\ req' = [req EXCEPT ![r].pc = "done", ![r].report = "stale_plan"]
    /\ UNCHANGED <<fetched, token, session, standing, written, rowVars>>

\* From BEGIN IMMEDIATE to the commit: ok, failed (nothing durable) or lost
\* (durable, but the commit raises).  A created row that inherits relation rows
\* of a former item fails the check inside the transaction.
PostCheckMutant(plan, i) == TRUE
PostCheck(plan, i) == plan.action = "create" => i \notin orphans

Transact(r, outcome) ==
    LET plan == Plan(r)
        i == TargetItem(plan)
        s == TargetSource(plan)
        post == PostState(plan, i, s)
    IN  /\ req[r].pc = "begin"
        /\ PreStateHolds(plan)
        /\ i \in 1..MaxId /\ s \in 1..MaxId
        /\ outcome # "failed" => PostCheck(plan, i)
        /\ req' = [req EXCEPT ![r].pc = IF outcome = "ok" THEN "verify" ELSE "inspect",
                              ![r].pre = PreState(plan, i, s), ![r].post = post]
        /\ IF outcome = "failed"
           THEN UNCHANGED <<items, sources, standing, written>>
           ELSE /\ items' = [items EXCEPT ![i] = post.seen.item]
                /\ sources' = [sources EXCEPT ![s] = post.seen.identity[s]]
                /\ standing' = standing \cup {r}
                /\ written' = written \cup {req[r].tok}
        /\ UNCHANGED <<fetched, token, session, orphans, edits>>

----------------------------------------------------------------------------
(* The independent look                                                     *)

\* Only what still stands is remembered of a request that ended.
Report(r, report) ==
    /\ req' = [req EXCEPT ![r].pc = "done", ![r].report = report, ![r].pre = NoState,
                          ![r].post = IF r \in standing THEN req[r].post ELSE NoState]
    /\ UNCHANGED <<fetched, token, session, standing, written, rowVars>>

\* After a commit that returned: only the exact result counts as committed.
VerifyCommit(r) ==
    /\ req[r].pc = "verify"
    /\ Report(r, IF Matches(req[r].post) THEN "committed" ELSE "commit_state_unknown")

\* After an exception: the post state, else the pre state, else unknown.
InspectionMutant(r) ==
    IF req[r].post # NoState /\ Matches(req[r].post)
    THEN "committed_verified_after_exception" ELSE "write_failed"
Inspection(r) ==
    IF req[r].post # NoState /\ Matches(req[r].post) THEN "committed_verified_after_exception"
    ELSE IF \/ req[r].pre # NoState /\ Matches(req[r].pre)
            \/ req[r].pre = NoState /\ PreStateHolds(Plan(r))
         THEN "write_failed"
    ELSE "commit_state_unknown"
Classify(r) ==
    /\ req[r].pc = "inspect"
    /\ Report(r, Inspection(r))

\* The second session cannot be opened or read.
LookFails(r) ==
    /\ req[r].pc \in {"verify", "inspect"}
    /\ Report(r, "commit_state_unknown")

----------------------------------------------------------------------------

\* A page edit takes back what it overwrites or deletes.
StillThere(r) ==
    LET e == req[r].post
    IN  /\ items'[e.itemId] # NoItem
        /\ \A s \in DOMAIN e.seen.identity : sources'[s] = e.seen.identity[s]

Page ==
    /\ PageEdit
    /\ standing' = {r \in standing : StillThere(r)}
    /\ UNCHANGED <<fetched, token, session, req, written>>

ApplyStart ==
    /\ fetched = 0
    /\ token = [f \in 1..MaxFetch |-> NoToken]
    /\ session = [login |-> 1, signedIn |-> TRUE, nonce |-> FALSE]
    /\ req = [r \in Confirm |-> Idle]
    /\ standing = {}
    /\ written = {}

ApplyNext ==
    \/ Page \/ Login \/ Logout
    \/ \E summary \in {Blank, "provided"} : Preview(summary)
    \/ \E r \in Confirm :
          \/ \E f \in 1..MaxFetch : ConfirmToken(r, f)
          \/ BeginFails(r) \/ Stale(r) \/ VerifyCommit(r) \/ Classify(r) \/ LookFails(r)
          \/ \E outcome \in {"ok", "failed", "lost"} : Transact(r, outcome)

ApplyInit == RowsInit /\ ApplyStart
ApplySpec == ApplyInit /\ [][ApplyNext]_<<rowVars, applyVars>>

----------------------------------------------------------------------------
(* Properties                                                               *)

\* Rows, tokens and requests have the shape the code gives them.
ApplyTypeOK ==
    /\ RowsTypeOK
    /\ fetched \in 0..MaxFetch
    /\ \A f \in 1..MaxFetch : token[f] = NoToken \/ token[f].login \in 1..MaxLogin
    /\ session \in [login: 1..MaxLogin, signedIn: BOOLEAN, nonce: BOOLEAN]
    /\ \A r \in Confirm : req[r].pc \in {"idle", "begin", "verify", "inspect", "done"}
    /\ standing \subseteq Confirm
    /\ written \subseteq 1..MaxFetch

\* An item the provider created never takes over relation rows of a deleted
\* item whose id it was given (post-state check before the commit).
CreatedItemsClean ==
    \A r \in standing : req[r].post.clean => req[r].post.itemId \notin orphans

\* A write happens only in the login that signed its token.
WritesStayInSession == \A r \in standing : req[r].login = token[req[r].tok].login

\* Every plan the rows allow passes the plan contract: no preview fails on it.
BuiltPlansValid ==
    PlanAction # "conflict" =>
        \A at \in 1..MaxFetch, summary \in {Blank, "provided"} :
            PlanValid(BuildPlan([at |-> at, summary |-> summary]))

\* The confirmation keeps what ConfirmOutcome promises: a plan is not written
\* again while its write stands, "committed" is said only of what was written,
\* and a failure only when nothing of it is there.
ApplyAnswer(r) ==
    CASE req[r].report \in {"none", "refused"} -> "none"
      [] req[r].report \in {"committed", "committed_verified_after_exception"} -> "done"
      [] req[r].report = "write_failed" -> "failed"
      [] OTHER -> "unknown"

ApplyOutcome == INSTANCE ConfirmOutcome WITH
    Request <- Confirm, Authority <- 1..MaxFetch, None <- 0,
    asked <- [r \in Confirm |-> IF req[r].report = "refused" THEN 0 ELSE req[r].tok],
    stands <- standing, applied <- written,
    answer <- [r \in Confirm |-> ApplyAnswer(r)]

ApplyKeepsPromise == ApplyOutcome!OutcomeSpec

\* A plan the rows allow passes its contract, is written only in the login that
\* signed it, and leaves a new item without the relations of a deleted one, also
\* when pages edit and log out between preview, confirmation and inspection.
ApplySound == CreatedItemsClean /\ WritesStayInSession /\ BuiltPlansValid
============================================================================
