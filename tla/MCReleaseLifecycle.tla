------------------------- MODULE MCReleaseLifecycle -------------------------
(* Instances of ReleaseLifecycle for TLC. *)
EXTENDS ReleaseLifecycle

CONSTANTS promoted, held, secret, team, default

MCStateOf == [r \in Runs |-> IF r = held THEN "HOLD" ELSE "PROMOTE"]
=============================================================================
