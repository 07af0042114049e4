--------------------------- MODULE MCMediaOutsiders ---------------------------
\* Other programs beside the operations that take names away, two settings on the
\* same state, one per behaviour: duplicate cleanup and restore; and rename and
\* alias normalisation, where the commit of a rename may also fail.
EXTENDS MediaMutations, TLC

VARIABLE renames

Renames == INSTANCE MediaMutations WITH
              Operations <- {"rename", "alias"}, FailingCommits <- {"rename"}

OutsidersInit == Init /\ renames \in BOOLEAN
OutsidersNext ==
    \/ ~renames /\ Next /\ UNCHANGED renames
    \/ renames /\ Renames!Next /\ UNCHANGED renames
OutsidersSpec == OutsidersInit /\ [][OutsidersNext]_<<vars, renames>>

Symmetry ==
    Permutations(Paths) \cup Permutations(Spares) \cup Permutations(Objects)
        \cup Permutations(Digests \ {Damaged}) \cup Permutations(Numbers)
=============================================================================
