------------------------ MODULE MCControlTransaction ------------------------
(* Instances of ControlTransaction for TLC. *)
EXTENDS ControlTransaction, TLC

CONSTANTS p1, p2, a, b

\* One signed and one unsigned release, so that a finalization both writes
\* and unlinks the signature, and no two releases share a control.
MCReleases == {[manifest |-> a, inventory |-> a, signature |-> a],
               [manifest |-> b, inventory |-> b, signature |-> Absent]}

\* One content for all: where it is only told what a control was before, with
\* a signature that comes and goes.
MCSignedAndUnsigned == {[manifest |-> a, inventory |-> a, signature |-> a],
                        [manifest |-> a, inventory |-> a, signature |-> Absent]}

Symmetry == Permutations({p1, p2})
=============================================================================
