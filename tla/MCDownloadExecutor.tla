------------------------- MODULE MCDownloadExecutor -------------------------
(* Small instances of DownloadExecutor. *)
EXTENDS DownloadExecutor, TLC

Symmetry == Permutations(Executors) \cup Permutations(Inodes)
=============================================================================
