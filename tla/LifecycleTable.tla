--------------------------- MODULE LifecycleTable ---------------------------
(***************************************************************************)
(* The six lifecycle states of a recipe and the transition table           *)
(* (domain/knowledge/Lifecycle.ts).                                        *)
(***************************************************************************)
States == {"pending", "staging", "active", "evolving", "decaying", "deprecated"}

ValidTransitions ==
    [pending    |-> {"staging", "active", "deprecated"},
     staging    |-> {"active", "pending"},
     active     |-> {"evolving", "decaying", "deprecated"},
     evolving   |-> {"staging", "active", "decaying"},
     decaying   |-> {"active", "deprecated"},
     deprecated |-> {"pending"}]

IsValidTransition(from, to) == to \in ValidTransitions[from]
=============================================================================
