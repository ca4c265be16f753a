------------------------ MODULE MCProposalExecution ------------------------
(***************************************************************************)
(* Instances of ProposalExecution for TLC.  One recipe: proposals of       *)
(* different recipes meet only in the loops that visit them.               *)
(*                                                                         *)
(* A behaviour has one of five casts, each ProposalExecution with fewer    *)
(* actors, so that its behaviours are behaviours of the whole: any three   *)
(* of the tasks at a time ("tasks"), or any two of them and others who     *)
(* move and delete the recipe, while no transition throws ("others"); two  *)
(* proposals, the spare one created second, and the executor's own tasks,  *)
(* any number of them at a time with a cap of one ("pair") or one at a     *)
(* time with any cap ("batch"); or one proposal, for which every cap is    *)
(* the same, those tasks and those others ("outside").                     *)
(***************************************************************************)
EXTENDS ProposalExecution

CONSTANT Spare   \* the proposals only "pair" and "batch" create

VARIABLE cast

(* Nobody else moves or deletes a recipe. *)
Inside == INSTANCE ProposalExecution WITH Outside <- FALSE
(* No transition throws. *)
Calm == INSTANCE ProposalExecution WITH MayThrow <- FALSE

(* No cap leaves room for more than one. *)
Single == INSTANCE ProposalExecution WITH Caps <- {1}
InsideSingle == INSTANCE ProposalExecution WITH Outside <- FALSE, Caps <- {1}

(* Bound: the tasks at work at a time. *)
AtWork(n) == Cardinality({t \in Tasks : task[t] # IdleTask}) <= n

RaceInit == Init /\ cast \in {"tasks", "others"}
RaceNext == /\ UNCHANGED cast
            /\ \/ cast = "tasks" /\ Inside!Next /\ AtWork(3)'
               \/ cast = "others" /\ Calm!Next /\ AtWork(2)'
RaceSpec == RaceInit /\ [][RaceNext]_<<vars, cast>>

CastInit == Init /\ cast \in {"pair", "batch", "outside"}
SpareIsSecond == \A p \in Spare : prop'[p] # NoProposal =>
                    \A q \in Proposals \ Spare : prop[q] # NoProposal
CastNext == /\ UNCHANGED cast
            /\ \/ cast = "pair" /\ InsideSingle!Next /\ SpareIsSecond
               \/ cast = "batch" /\ Inside!Next /\ AtWork(1)' /\ SpareIsSecond
               \/ /\ cast = "outside"
                  /\ Single!Next
                  /\ \A p \in Spare : prop'[p] = NoProposal
CastSpec == CastInit /\ [][CastNext]_<<vars, cast>> /\ Fairness
=============================================================================
