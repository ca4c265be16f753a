----------------------------- MODULE DurableMap -----------------------------
(***************************************************************************)
(* What the vector store promises once a call has returned: a map that     *)
(* changes by whole calls, in their order, and that no crash, no failed    *)
(* snapshot and no restart changes.                                        *)
(***************************************************************************)
EXTENDS VectorOps

VARIABLE store     \* what a restart would find

Init == store = [k \in Ids |-> None]

Call(ops) == store' = Replay(store, ops)

Next == store' # store /\ \E ops \in Calls : Call(ops)

Spec == Init /\ [][Next]_store
=============================================================================
