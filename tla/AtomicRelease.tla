--------------------------- MODULE AtomicRelease ---------------------------
(***************************************************************************)
(* What the release-hardening layer promises to its callers, with no       *)
(* files, journal or lock: a release is one value (the manifest, the       *)
(* inventory and the signature together), a finalization replaces it in    *)
(* one step or not at all, a verification answers with the value as it     *)
(* stands, and a caller told "ok" by a finalization keeps its release      *)
(* across a power loss.                                                    *)
(*                                                                         *)
(* `durable' is the value a power loss may bring back.  It trails          *)
(* `committed' only while a finalization has taken effect and has not yet  *)
(* returned (or was killed before it could).                               *)
(***************************************************************************)
CONSTANTS Processes,   \* pipelines and serving processes
          Controls,    \* names of the control files
          Contents,    \* what a control file may hold
          Absent       \* a control file that does not exist

States == [Controls -> Contents \cup {Absent}]

VARIABLES committed,  \* the release every caller must see
          durable,    \* the release a power loss may bring back
          op,         \* the call each process is in
          outcome,    \* how each process's last call ended
          told        \* the release its last successful call was about

vars == <<committed, durable, op, outcome, told>>

Ops == {"idle", "writing", "effected", "reading"}
Outcomes == {"none", "ok", "error", "rejected"}

Init == /\ committed \in States
        /\ durable = committed
        /\ op = [p \in Processes |-> "idle"]
        /\ outcome = [p \in Processes |-> "none"]
        /\ told = [p \in Processes |-> committed]

Begin(p) == /\ op[p] = "idle"
            /\ \E o \in {"writing", "reading"} : op' = [op EXCEPT ![p] = o]
            /\ outcome' = [outcome EXCEPT ![p] = "none"]
            /\ UNCHANGED <<committed, durable, told>>

\* The only step that changes the release.
Commit(p) == /\ op[p] = "writing"
             /\ op' = [op EXCEPT ![p] = "effected"]
             /\ \E r \in States : committed' = r
             /\ UNCHANGED <<durable, outcome, told>>

\* Storage catches up on its own.
Settle == /\ durable' = committed
          /\ UNCHANGED <<committed, op, outcome, told>>

\* A finalization returns only once its release can no longer be lost.
Finish(p) == /\ op[p] = "effected"
             /\ durable' = committed
             /\ op' = [op EXCEPT ![p] = "idle"]
             /\ outcome' = [outcome EXCEPT ![p] = "ok"]
             /\ told' = [told EXCEPT ![p] = committed]
             /\ UNCHANGED committed

Read(p) == /\ op[p] = "reading"
           /\ op' = [op EXCEPT ![p] = "idle"]
           /\ outcome' = [outcome EXCEPT ![p] = "ok"]
           /\ told' = [told EXCEPT ![p] = committed]
           /\ UNCHANGED <<committed, durable>>

\* A call that reports an error has had no effect.
Fail(p) == /\ op[p] \in {"writing", "reading"}
           /\ op' = [op EXCEPT ![p] = "idle"]
           /\ \E o \in {"error", "rejected"} : outcome' = [outcome EXCEPT ![p] = o]
           /\ UNCHANGED <<committed, durable, told>>

Kill(p) == /\ op' = [op EXCEPT ![p] = "idle"]
           /\ outcome' = [outcome EXCEPT ![p] = "none"]
           /\ UNCHANGED <<committed, durable, told>>

PowerLoss == /\ committed' \in {committed, durable}
             /\ durable' = committed'
             /\ op' = [p \in Processes |-> "idle"]
             /\ outcome' = [p \in Processes |-> "none"]
             /\ UNCHANGED told

Next == \/ Settle
        \/ PowerLoss
        \/ \E p \in Processes : \/ Begin(p)
                                \/ Commit(p)
                                \/ Finish(p)
                                \/ Read(p)
                                \/ Fail(p)
                                \/ Kill(p)

Spec == Init /\ [][Next]_vars
=============================================================================
