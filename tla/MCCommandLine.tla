--------------------------- MODULE MCCommandLine ----------------------------
(* Instances of CommandLine for TLC. *)
EXTENDS CommandLine

CONSTANTS old, new, model, table, team, other

\* As in MCVerifiedLoad.
MCListed == [v \in {old, new} |-> IF v = old THEN {model, table} ELSE {model}]
ManifestAndModel == {"manifest", model}

\* The versions differ in all that a contract asks about.
MCStateOf == [v \in {old, new} |-> IF v = old THEN "PROMOTE" ELSE "HOLD"]
MCSequenceOf == [v \in {old, new} |-> IF v = old THEN 1 ELSE 0]
MCKeyIdOf == [v \in {old, new} |-> IF v = old THEN team ELSE other]

\* One contract that asks for little, one rendering of each outcome.
Lax == [require |-> FALSE, keyId |-> None, minimum |-> None, states |-> {"HOLD"}]
MCHandwritten == {Lax}
MCInputs == {[keyId |-> team, minimum |-> 1], [keyId |-> team, minimum |-> -1]}
=============================================================================
