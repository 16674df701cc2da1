---------------------------- MODULE MCSourcePatch -----------------------------
(* Instances of SourcePatch for TLC. *)
EXTENDS SourcePatch, TLC

CONSTANTS cat, trees, earlier, earliest, d1, d2

MCVersion == [r \in Runs |-> CASE r = earliest -> "v0.9.2"
                               [] r = earlier -> "v0.9.3"
                               [] OTHER -> "v0.9.4"]

AllOld == [i \in Edits |-> "old"]

\* The source of v0.9.2, the same with one of the insertions already there,
\* with a stretch that is not recognized, and the source after the patch.
MCOriginals == {AllOld, [AllOld EXCEPT ![1] = "new"], [AllOld EXCEPT ![10] = "other"], Patched}

\* The directories are alike.
Symmetry == Permutations(Dirs)
=============================================================================
