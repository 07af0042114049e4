--------------------------- MODULE ConfirmOutcome ---------------------------
(***************************************************************************)
(* What a confirmation promises, whatever writes it: it writes at most once  *)
(* while an earlier write of the same authority stands, and its answer never *)
(* says more than is true.                                                   *)
(***************************************************************************)
CONSTANTS Request, Authority, None

VARIABLES
    asked,      \* the authority (signed plan) each request confirms
    stands,     \* requests whose write is in the database
    applied,    \* authorities that were ever written
    answer      \* what each request told the user

outcomeVars == <<asked, stands, applied, answer>>

OutcomeInit ==
    /\ asked = [r \in Request |-> None]
    /\ stands = {}
    /\ applied = {}
    /\ answer = [r \in Request |-> "none"]

Ask(r, a) ==
    /\ asked[r] = None
    /\ asked' = [asked EXCEPT ![r] = a]
    /\ UNCHANGED <<stands, applied, answer>>

Write(r) ==
    /\ asked[r] # None
    /\ answer[r] = "none"
    /\ \A q \in stands : asked[q] # asked[r]
    /\ stands' = stands \cup {r}
    /\ applied' = applied \cup {asked[r]}
    /\ UNCHANGED <<asked, answer>>

\* Page edits and deletions may undo what was written.
Undo ==
    /\ stands' \subseteq stands
    /\ UNCHANGED <<asked, applied, answer>>

\* "done" only for what was written, "failed" only while nothing of it stands,
\* and a failure that is told of what was written has a name of its own.
Answer(r, v) ==
    /\ answer[r] = "none"
    /\ v = "done" => asked[r] \in applied
    /\ v = "failed" => r \notin stands
    /\ v = "misled" => asked[r] \in applied
    /\ answer' = [answer EXCEPT ![r] = v]
    /\ UNCHANGED <<asked, stands, applied>>

OutcomeNext ==
    \/ Undo
    \/ \E r \in Request :
          \/ \E a \in Authority : Ask(r, a)
          \/ Write(r)
          \/ \E v \in {"done", "failed", "misled", "unknown"} : Answer(r, v)

OutcomeSpec == OutcomeInit /\ [][OutcomeNext]_outcomeVars
============================================================================
