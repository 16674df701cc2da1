------------------------- MODULE MCChronologicalSplit -------------------------
(* Instances of ChronologicalSplit for TLC. *)
EXTENDS ChronologicalSplit

\* Fewer times than rows: every frame of the largest size has ties.
MCTimes == 1 .. 5
=============================================================================
