--------------------------- MODULE MCMediaFailures ---------------------------
\* Two settings on the same state, one per behaviour: every operation with failing
\* commits, unlinks and index writes and no page assigning references; and, with
\* the same failing unlinks and index writes but commits that hold, references
\* assigned beside every operation but duplicate cleanup.
EXTENDS MediaMutations, TLC

VARIABLE edits

Raced == {"rename", "alias", "restore", "delete"}
Races == INSTANCE MediaMutations WITH
            Operations <- Raced, Assigning <- {"none"} \cup Raced,
            FailingCommits <- {}, LosingCommits <- {}

FailuresInit == Init /\ edits \in BOOLEAN
FailuresNext ==
    \/ ~edits /\ Next /\ UNCHANGED edits
    \/ edits /\ Races!Next /\ UNCHANGED edits
FailuresSpec == FailuresInit /\ [][FailuresNext]_<<vars, edits>>

Symmetry ==
    Permutations(Paths) \cup Permutations(Spares) \cup Permutations(Objects)
        \cup Permutations(Digests \ {Damaged}) \cup Permutations(Numbers)
=============================================================================
