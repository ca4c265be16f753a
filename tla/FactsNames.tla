----------------------------- MODULE FactsNames -----------------------------
(***************************************************************************)
(* The names in the store of certified facts, by directory, and what a     *)
(* file holds.                                                             *)
(***************************************************************************)
CONSTANTS Blobs,       \* the full chunks of the artifact
          Bindings,    \* certification bindings of the artifact
          Preps,       \* bound: the preparations created
          Runs,        \* runs that ask for a lease
          Absent       \* no such file

Refs == [dir : {"blobs"}, id : Blobs] \cup [dir : {"artifacts"}, id : {"artifact"}]
        \cup [dir : {"certifications", "receipts"}, id : Bindings]
        \cup [dir : {"preparations", "leases"}, id : Preps]
Ref(d, i) == [dir |-> d, id |-> i]

Lease(r, s) == [run |-> r, state |-> s]
Leases == [run : Runs, state : {"active", "completed"}]
Holds(f) == CASE f.dir = "leases" -> Leases
              [] f.dir = "preparations" -> Bindings
              [] OTHER -> {"whole"}

ASSUME AbsentAssumption == /\ \A f \in Refs : Absent \notin Holds(f)
                           /\ Absent \notin Runs
=============================================================================
