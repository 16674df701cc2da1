--------------------------- MODULE MCFeatureHistory ---------------------------
(* Instances of FeatureHistory for TLC. *)
EXTENDS FeatureHistory

\* Two and a half seconds in half-second ticks, against windows of none and of
\* one second: ties, rows within a second of each other, and rows too old.
MCTimes == 0 .. 4
=============================================================================
