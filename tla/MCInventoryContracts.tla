------------------------- MODULE MCInventoryContracts -------------------------
(* Instances of InventoryContracts for TLC. *)
EXTENDS InventoryContracts

CONSTANTS csv, long, full, short, garbage

\* Three contents: a long table, a shorter one, and no table at all.  One
\* contract takes any table, the other long ones; both record the rows.
MCAccepts == [c \in {csv, long} |-> IF c = csv THEN {full, short} ELSE {full}]
MCObserve == [c \in {csv, long} |-> [d \in {full, short, garbage} |->
                                       IF d = full THEN 2 ELSE IF d = short THEN 1 ELSE 0]]
=============================================================================
