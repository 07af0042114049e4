--------------------------- MODULE MCMediaMutations ---------------------------
\* Model instances of the media operations: the sets of names are interchangeable.
EXTENDS MediaMutations, TLC

Symmetry ==
    Permutations(Paths) \cup Permutations(Spares) \cup Permutations(Objects)
        \cup Permutations(Digests \ {Damaged}) \cup Permutations(Numbers)
=============================================================================
