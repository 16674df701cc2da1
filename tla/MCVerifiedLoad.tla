--------------------------- MODULE MCVerifiedLoad ---------------------------
(* Instances of VerifiedLoad for TLC. *)
EXTENDS VerifiedLoad

CONSTANTS old, new, model, table

\* The newer bundle no longer lists the second artifact, so that a caller can
\* ask for a file that the verified release does not have.
MCListed == [v \in {old, new} |-> IF v = old THEN {model, table} ELSE {model}]

\* Some of each kind are replaced without the lock; or all files are.
ManifestAndModel == {"manifest", model}
EveryFile == Files
=============================================================================
