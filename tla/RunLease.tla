------------------------------ MODULE RunLease ------------------------------
(***************************************************************************)
(* What the leases of the preparations promise: each goes to one run,      *)
(* once, and is completed by that run, once.  One step may do so for       *)
(* several preparations: synchronising a directory keeps all its names.    *)
(***************************************************************************)
CONSTANTS Preps,    \* preparations
          Runs,     \* runs that want one
          Nobody

VARIABLES holder,     \* the run each preparation is bound to
          completed   \* whether that run is over

Init == /\ holder = [p \in Preps |-> Nobody]
        /\ completed = [p \in Preps |-> FALSE]

Grant(p) == /\ holder[p] = Nobody /\ holder'[p] \in Runs
            /\ completed'[p] = completed[p]
Complete(p) == /\ holder[p] # Nobody /\ holder'[p] = holder[p]
               /\ completed'[p] = TRUE
Stay(p) == holder'[p] = holder[p] /\ completed'[p] = completed[p]

Next == /\ DOMAIN holder' = Preps /\ DOMAIN completed' = Preps
        /\ \A p \in Preps : Grant(p) \/ Complete(p) \/ Stay(p)

Spec == Init /\ [][Next]_<<holder, completed>>
=============================================================================
