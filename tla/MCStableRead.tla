----------------------------- MODULE MCStableRead -----------------------------
(* Instances of StableRead for TLC. *)
EXTENDS StableRead, TLC

CONSTANTS i1, i2, x, y

\* The file objects are alike, and so are the chunks.
Symmetry == Permutations(Inodes) \cup Permutations(Chunks)
=============================================================================
