---------------------- MODULE ProposalExecution_proofs ----------------------
(***************************************************************************)
(* Theorems about ProposalExecution, for any sets of recipes, proposals    *)
(* and tasks: however signals, sweeps, manual executions and the gateway   *)
(* interleave and fail, a recipe has one open proposal of a kind, a        *)
(* decision is final, "executed" means done, and nothing stays in flight.  *)
(***************************************************************************)
EXTENDS ProposalExecution, FiniteSetTheorems, TLAPS

-----------------------------------------------------------------------------
(***************************************************************************)
(* The inductive invariant: what a task that works on a proposal knows     *)
(* about it, by the stage of the execution it is in.                       *)
(***************************************************************************)
Working == {"guard", "write", "patch", "settle"}
Known(pr) == {p \in Proposals : pr[p].status # "none"}

Attaching(x, pr, mv) ==
    /\ x.stage = "attach" /\ x.want = "evolving" /\ x.pc # "settle"
    /\ x.p \in Known(pr) /\ pr[x.p].kind = "update"
    /\ x.pc = "patch" => "evolving" \in mv[x.p]
Completing(x, pr, mv, pa) ==
    /\ x.stage = "complete" /\ x.want \in {"staging", "active"} /\ x.pc # "patch"
    /\ x.p \in Known(pr) /\ pr[x.p].kind = "update" /\ "evolving" \in mv[x.p]
    /\ x.want = "staging" => x.p \in pa
    /\ x.pc = "settle" => x.want \in mv[x.p]
Reverting(x, pr) ==
    x.stage = "revert" /\ x.want = "active" /\ x.pc # "patch" /\ x.p \in Known(pr)
Deprecating(x, pr, mv) ==
    /\ x.stage = "deprecate" /\ x.want \in {"deprecated", "decaying"} /\ x.pc # "patch"
    /\ x.p \in Known(pr) /\ pr[x.p].kind = "deprecate"
    /\ x.pc = "settle" => x.want \in mv[x.p]
AtGateway(x) ==
    x.stage = "gateway" /\ x.want = "deprecated" /\ x.pc # "patch" /\ x.p = "none"

JobOK(x, pr, mv, pa) ==
    /\ x.todo \subseteq Known(pr)
    /\ x.pc = "gate" => x.p \in Known(pr)
    /\ x.pc \in Working =>
         /\ x.r \in Recipes
         /\ \/ Attaching(x, pr, mv) \/ Completing(x, pr, mv, pa) \/ Reverting(x, pr)
            \/ Deprecating(x, pr, mv) \/ AtGateway(x)

JobsOK == \A t \in Tasks : JobOK(task[t], prop, moved, patched)

(* A proposal has a target once it is created. *)
Targeted == \A p \in Proposals : IF prop[p].status = "none" THEN prop[p].target = "none"
                                 ELSE prop[p].target \in Recipes

(* What the sweep is about to judge is out of its observation window. *)
SweepsLate == \A t \in Tasks : t \in Sweepers /\ task[t].pc = "gate" => prop[task[t].p].late

Inv == TypeOK /\ JobsOK /\ Targeted /\ SweepsLate

-----------------------------------------------------------------------------
(* The statements of the repository, one proposal at a time. *)
LEMMA ResolvedCases ==
    ASSUME TypeOK, NEW ps, NEW from, NEW status, NEW why, NEW p \in Proposals
    PROVE  LET q == Resolved(ps, from, status, why)[p] IN
           \/ q = prop[p]
           \/ /\ p \in ps /\ prop[p].status \in from
              /\ q.status = status /\ q.why = why /\ q.kind = prop[p].kind
              /\ q.target = prop[p].target /\ q.merge = prop[p].merge /\ q.late = prop[p].late
BY DEF Resolved, TypeOK, Proposal

LEMMA ResolvedType ==
    ASSUME TypeOK, NEW ps, NEW from, NEW status \in Statuses, NEW why \in Whys
    PROVE  Resolved(ps, from, status, why) \in [Proposals -> Proposal]
BY DEF Resolved, TypeOK, Proposal

LEMMA CountType == ASSUME NEW S \in SUBSET Proposals PROVE Cardinality(S) \in Nat
BY BoundsAssumption, FS_Subset, FS_CardinalityType

(* A task that becomes another record of tasks keeps the type. *)
LEMMA BecomesType == ASSUME TypeOK, NEW t \in Tasks, NEW x \in Task, Becomes(t, x)
                     PROVE  /\ task' \in [Tasks -> Task]
                            /\ task'[t] = x
                            /\ \A u \in Tasks \ {t} : task'[u] = task[u]
BY DEF Becomes, TypeOK

-----------------------------------------------------------------------------
(***************************************************************************)
(* What a step may do to a proposal.                                       *)
(***************************************************************************)
Same(p) == /\ prop'[p].kind = prop[p].kind /\ prop'[p].target = prop[p].target
           /\ prop'[p].merge = prop[p].merge
Kept(p) == prop'[p] = prop[p]
Created(p) == /\ prop[p].status = "none"
              /\ prop'[p].status \in Open /\ prop'[p].target \in Recipes
              /\ prop'[p].why = "none"
              /\ ~HasDuplicate(prop'[p].target, prop'[p].kind)
              /\ \A q \in Proposals \ {p} : prop'[q] = prop[q]
Waits(p) == /\ Same(p)
            /\ prop[p].status \in Open /\ prop'[p].status \in Open
            /\ prop'[p].why = prop[p].why
            /\ prop[p].late => prop'[p].late
Refuted(p) == /\ Same(p)
              /\ prop[p].status \in Open /\ prop'[p].status \in {"rejected", "expired"}
              /\ prop'[p].late = prop[p].late
              /\ prop'[p].why = "gate" => prop[p].late
Effected(p) ==
    \/ /\ prop[p].kind = "update"
       /\ "evolving" \in moved[p]
       /\ IF prop[p].merge THEN "staging" \in moved[p] /\ p \in patched
          ELSE moved[p] \cap {"staging", "active"} # {}
    \/ prop[p].kind = "deprecate" /\ moved[p] \cap {"deprecated", "decaying"} # {}
Executed(p) == /\ Same(p)
               /\ prop[p].status = "observing" /\ prop'[p].status = "executed"
               /\ prop'[p].late = prop[p].late
               /\ prop'[p].why \in {"gateway", "other"}
               /\ prop'[p].why = "gateway" => prop[p].kind = "deprecate"
               /\ prop'[p].why = "other" => Effected(p)
Removed(p) == /\ Same(p)
              /\ prop[p].status # "none" /\ prop'[p].status = "deleted"
              /\ prop'[p].late = prop[p].late /\ prop'[p].why = prop[p].why

PropChange(p) == \/ Kept(p) \/ Created(p) \/ Waits(p) \/ Refuted(p) \/ Executed(p)
                 \/ Removed(p)

(* create makes at most one proposal, and it is not a duplicate. *)
LEMMA CreateCases ==
    ASSUME TypeOK, NEW r \in Recipes, NEW kind \in Kinds, CreateProposal(r, kind)
    PROVE  /\ prop' \in [Proposals -> Proposal]
           /\ \A p \in Proposals : Kept(p) \/ Created(p)
<1>1. CASE UNCHANGED prop
  BY <1>1 DEF Kept, TypeOK
<1>2. CASE ~HasDuplicate(r, kind)
  <2>1. PICK q \in Proposals, status \in Open, merge \in BOOLEAN :
             /\ prop[q].status = "none"
             /\ prop' = [prop EXCEPT ![q] = [NoProposal EXCEPT !.status = status,
                            !.kind = kind, !.target = r, !.merge = merge,
                            !.nth = 1 + Cardinality({x \in Proposals : prop[x].nth # 0})]]
    BY <1>2 DEF CreateProposal
  <2>8. Cardinality({x \in Proposals : prop[x].nth # 0}) \in Nat BY CountType
  <2>0. 1 + Cardinality({x \in Proposals : prop[x].nth # 0}) \in Nat BY <2>8
  <2>7. PICK nth \in Nat :
             prop' = [prop EXCEPT ![q] = [NoProposal EXCEPT !.status = status,
                            !.kind = kind, !.target = r, !.merge = merge, !.nth = nth]]
    BY <2>0, <2>1
  <2> DEFINE new == [NoProposal EXCEPT !.status = status,
                            !.kind = kind, !.target = r, !.merge = merge, !.nth = nth]
  <2>2. /\ new \in Proposal /\ new.status = status /\ new.kind = kind /\ new.target = r
        /\ new.why = "none"
    BY DEF NoProposal, Proposal, Statuses, Open, Whys
  <2>3. prop' = [prop EXCEPT ![q] = new] BY <2>7
  <2> HIDE DEF new
  <2>4. prop' \in [Proposals -> Proposal] BY <2>2, <2>3 DEF TypeOK
  <2>5. ASSUME NEW p \in Proposals PROVE Kept(p) \/ Created(p)
    BY <1>2, <2>1, <2>2, <2>3 DEF Kept, Created, TypeOK
  <2> QED BY <2>4, <2>5
<1> QED BY <1>1, <1>2 DEF CreateProposal

-----------------------------------------------------------------------------
(***************************************************************************)
(* What a task knows stays true while others work.                         *)
(***************************************************************************)
Grows(pr, mv, pa, pr2, mv2, pa2) ==
    /\ \A p \in Known(pr) : p \in Known(pr2) /\ pr2[p].kind = pr[p].kind
    /\ \A p \in Proposals : mv[p] \subseteq mv2[p]
    /\ pa \subseteq pa2

LEMMA JobStays ==
    ASSUME NEW x, NEW pr, NEW mv, NEW pa, NEW pr2, NEW mv2, NEW pa2,
           JobOK(x, pr, mv, pa), Grows(pr, mv, pa, pr2, mv2, pa2)
    PROVE  JobOK(x, pr2, mv2, pa2)
<1>1. \A p \in Known(pr) : p \in Proposals BY DEF Known
<1> QED BY <1>1 DEF JobOK, Grows, Attaching, Completing, Reverting, Deprecating, AtGateway

(* No change of a proposal makes it unknown or of another kind. *)
LEMMA KnownStays == ASSUME \A p \in Proposals : PropChange(p)
                    PROVE  \A p \in Known(prop) : p \in Known(prop') /\ prop'[p].kind = prop[p].kind
BY DEF PropChange, Kept, Created, Waits, Refuted, Executed, Removed, Same, Known, Open

(* What an action of task t has to show. *)
ProposalsOK == /\ prop' \in [Proposals -> Proposal]
               /\ \A p \in Proposals : PropChange(p)
MovesOK == /\ life' \in [Recipes -> States \cup {"gone"}]
           /\ moved' \in [Proposals -> SUBSET States]
           /\ \A p \in Proposals : moved[p] \subseteq moved'[p]
           /\ patched \subseteq patched' /\ patched' \subseteq Proposals
TaskOK(t) == \E x \in Task :
                /\ Becomes(t, x)
                /\ JobOK(x, prop', moved', patched')
                /\ t \in Sweepers /\ x.pc = "gate" => prop'[x.p].late

(* The proposals' part, when a step leaves them alone. *)
LEMMA PropSame == ASSUME TypeOK, UNCHANGED prop PROVE ProposalsOK
BY DEF TypeOK, ProposalsOK, PropChange, Kept
LEMMA MovesSame == ASSUME TypeOK, UNCHANGED <<life, moved, patched>> PROVE MovesOK
BY DEF TypeOK, MovesOK

(* An action that shows these three preserves the invariant. *)
LEMMA ActionInv ==
    ASSUME Inv, NEW t \in Tasks, ProposalsOK, MovesOK, TaskOK(t), inFlight' \subseteq Proposals
    PROVE  Inv'
<1>1. PICK x \in Task : /\ Becomes(t, x) /\ JobOK(x, prop', moved', patched')
                        /\ t \in Sweepers /\ x.pc = "gate" => prop'[x.p].late
  BY DEF TaskOK
<1>2. /\ task' \in [Tasks -> Task] /\ task'[t] = x
      /\ \A u \in Tasks \ {t} : task'[u] = task[u]
  BY <1>1, BecomesType DEF Inv
<1>3. TypeOK' BY <1>2 DEF TypeOK, ProposalsOK, MovesOK
<1>4. /\ \A p \in Known(prop) : p \in Known(prop') /\ prop'[p].kind = prop[p].kind
      /\ Grows(prop, moved, patched, prop', moved', patched')
  BY KnownStays DEF ProposalsOK, MovesOK, Grows
<1>5. JobsOK'
  <2> SUFFICES ASSUME NEW u \in Tasks PROVE JobOK(task'[u], prop', moved', patched')
    BY DEF JobsOK
  <2>1. CASE u = t BY <1>1, <1>2, <2>1
  <2>2. CASE u # t
    <3>1. JobOK(task[u], prop, moved, patched) BY DEF Inv, JobsOK
    <3>2. JobOK(task[u], prop', moved', patched') BY <3>1, <1>4, JobStays
    <3> QED BY <1>2, <2>2, <3>2
  <2> QED BY <2>1, <2>2
<1>6. Targeted'
  BY DEF Targeted, Inv, ProposalsOK, PropChange, Kept, Created, Waits, Refuted, Executed,
         Removed, Same, Known, Open
<1>7. SweepsLate'
  <2> SUFFICES ASSUME NEW u \in Tasks, u \in Sweepers, task'[u].pc = "gate"
               PROVE  prop'[task'[u].p].late
    BY DEF SweepsLate
  <2>1. CASE u = t BY <1>1, <1>2, <2>1
  <2>2. CASE u # t
    <3>1. /\ task'[u] = task[u] /\ prop[task[u].p].late /\ task[u].p \in Known(prop)
      BY <1>2, <2>2 DEF Inv, SweepsLate, JobsOK, JobOK
    <3> QED BY <3>1 DEF ProposalsOK, PropChange, Kept, Created, Waits, Refuted, Executed,
                        Removed, Known
  <2> QED BY <2>1, <2>2
<1> QED BY <1>3, <1>5, <1>6, <1>7 DEF Inv

(* So does a step without a task. *)
LEMMA OtherInv ==
    ASSUME Inv, ProposalsOK, MovesOK, UNCHANGED <<task, inFlight>>
    PROVE  Inv'
<1>3. TypeOK' BY DEF TypeOK, ProposalsOK, MovesOK, Inv
<1>4. Grows(prop, moved, patched, prop', moved', patched')
  BY KnownStays DEF ProposalsOK, MovesOK, Grows
<1>5. JobsOK'
  BY <1>4, JobStays DEF JobsOK, Inv
<1>6. Targeted'
  BY DEF Targeted, Inv, ProposalsOK, PropChange, Kept, Created, Waits, Refuted, Executed,
         Removed, Same, Known, Open
<1>7. SweepsLate'
  <2> SUFFICES ASSUME NEW u \in Tasks, u \in Sweepers, task[u].pc = "gate"
               PROVE  prop'[task[u].p].late
    BY DEF SweepsLate
  <2>1. prop[task[u].p].late /\ task[u].p \in Known(prop)
    BY DEF Inv, SweepsLate, JobsOK, JobOK
  <2> QED BY <2>1 DEF ProposalsOK, PropChange, Kept, Created, Waits, Refuted, Executed,
                      Removed, Known
<1> QED BY <1>3, <1>5, <1>6, <1>7 DEF Inv

-----------------------------------------------------------------------------
(***************************************************************************)
(* How a task goes on.                                                     *)
(***************************************************************************)
LEMMA IdleType == IdleTask \in Task
BY DEF IdleTask, Task

LEMMA ProceedsOK == ASSUME Inv, NEW t \in Tasks, ProposalsOK, Proceeds(t)
                    PROVE  TaskOK(t)
<1> DEFINE x == [IdleTask EXCEPT !.pc = IF t \in SignalTasks \cup Sweepers
                                        THEN "next" ELSE "idle",
                                 !.todo = task[t].todo, !.room = task[t].room]
<1>1. task[t] \in Task /\ JobOK(task[t], prop, moved, patched)
  BY DEF Inv, TypeOK, JobsOK
<1>2. x \in Task /\ x.pc \in {"next", "idle"} /\ x.todo = task[t].todo
  BY <1>1 DEF IdleTask, Task
<1>3. Becomes(t, x) BY DEF Proceeds
<1>4. x.todo \subseteq Known(prop')
  BY <1>1, <1>2, KnownStays DEF ProposalsOK, JobOK
<1> QED BY <1>2, <1>3, <1>4 DEF TaskOK, JobOK, Working

(* The record of a task that starts. *)
LEMMA StartedType ==
    /\ \A ps \in SUBSET Proposals :
         LET x == [IdleTask EXCEPT !.pc = "next", !.todo = ps] IN
         x \in Task /\ x.pc = "next" /\ x.todo = ps
    /\ \A p \in Proposals :
         LET x == [IdleTask EXCEPT !.pc = "gate", !.p = p] IN
         x \in Task /\ x.pc = "gate" /\ x.p = p /\ x.todo = {}
<1>1. ASSUME NEW ps \in SUBSET Proposals
      PROVE  LET x == [IdleTask EXCEPT !.pc = "next", !.todo = ps] IN
             x \in Task /\ x.pc = "next" /\ x.todo = ps
  BY IdleType DEF Task
<1>3. IdleTask.todo = {} BY DEF IdleTask
<1>2. ASSUME NEW p \in Proposals
      PROVE  LET x == [IdleTask EXCEPT !.pc = "gate", !.p = p] IN
             x \in Task /\ x.pc = "gate" /\ x.p = p /\ x.todo = {}
  BY IdleType, <1>3 DEF Task
<1> QED BY <1>1, <1>2

LEMMA EndsOK == ASSUME Inv, NEW t \in Tasks, Ends(t) PROVE TaskOK(t)
<1>1. IdleTask.pc = "idle" /\ IdleTask.todo = {} BY DEF IdleTask
<1> QED BY <1>1, IdleType DEF TaskOK, Ends, JobOK, Working

(* The record of a task that calls transition. *)
LEMMA CallsCases ==
    ASSUME Inv, NEW t \in Tasks, NEW p \in Proposals \cup {"none"}, NEW r \in Recipes,
           NEW stage \in {"attach", "complete", "revert", "deprecate", "gateway"},
           NEW want \in {"evolving", "staging", "active", "decaying", "deprecated"},
           Calls(t, p, r, stage, want)
    PROVE  \E x \in Task : /\ Becomes(t, x)
                           /\ x.pc = "guard" /\ x.todo = task[t].todo
                           /\ x.p = p /\ x.r = r /\ x.stage = stage /\ x.want = want
<1> DEFINE x == [pc |-> "guard", todo |-> task[t].todo, p |-> p, r |-> r, want |-> want,
                 seen |-> life[r], stage |-> stage, room |-> task[t].room]
<1>1. task[t] \in Task /\ life[r] \in States \cup {"gone"} BY DEF Inv, TypeOK
<1>2. x \in Task BY <1>1 DEF Task
<1>3. Becomes(t, x) BY DEF Calls
<1> QED BY <1>2, <1>3

(* A task in the middle of an execution. *)
LEMMA WorkingFacts ==
    ASSUME Inv, NEW t \in Tasks, task[t].pc \in Working
    PROVE  LET x == task[t] IN
           /\ x \in Task /\ x.r \in Recipes /\ x.todo \subseteq Known(prop)
           /\ \/ Attaching(x, prop, moved) \/ Completing(x, prop, moved, patched)
              \/ Reverting(x, prop) \/ Deprecating(x, prop, moved) \/ AtGateway(x)
           /\ x.stage # "gateway" => x.p \in Proposals /\ x.p # "none"
           /\ x.stage = "gateway" => x.p = "none"
           /\ x.p \in Proposals \cup {"none"}
BY NamesAssumption DEF Inv, TypeOK, JobsOK, JobOK, Known, Attaching, Completing, Reverting,
                       Deprecating, AtGateway, Task

-----------------------------------------------------------------------------
(***************************************************************************)
(* The entries.                                                            *)
(***************************************************************************)
LEMMA OnSignalInv == ASSUME Inv, NEW t \in Tasks, OnSignal(t) PROVE ProposalsOK /\ Inv'
<1>1. ProposalsOK /\ MovesOK /\ inFlight' \subseteq Proposals
  BY PropSame, MovesSame DEF OnSignal, Inv, TypeOK
<1>2. TaskOK(t)
  <2>1. PICK ps \in SUBSET Known(prop) : Becomes(t, [IdleTask EXCEPT !.pc = "next", !.todo = ps])
    BY DEF OnSignal, FindByTarget, Known, Open
  <2> DEFINE x == [IdleTask EXCEPT !.pc = "next", !.todo = ps]
  <2>5. x = [IdleTask EXCEPT !.pc = "next", !.todo = ps] /\ ps \in SUBSET Proposals
    BY DEF Known
  <2>2. x \in Task /\ x.pc = "next" /\ x.todo = ps BY <2>5, StartedType
  <2>3. UNCHANGED prop BY DEF OnSignal
  <2> HIDE DEF x
  <2>4. Becomes(t, x) BY <2>1 DEF x
  <2> QED BY <2>2, <2>3, <2>4 DEF TaskOK, JobOK, Working
<1> QED BY <1>1, <1>2, ActionInv

LEMMA CheckAndExecuteInv == ASSUME Inv, NEW t \in Tasks, CheckAndExecute(t) PROVE ProposalsOK /\ Inv'
<1>1. ProposalsOK /\ MovesOK /\ inFlight' \subseteq Proposals
  BY PropSame, MovesSame DEF CheckAndExecute, Inv, TypeOK
<1>2. TaskOK(t)
  <2>0. PICK cap \in Caps :
             Becomes(t, [IdleTask EXCEPT !.pc = "next", !.todo = Oldest(Observing, cap),
                                         !.room = cap - Cardinality(Oldest(Observing, cap))])
    BY DEF CheckAndExecute
  <2> DEFINE ps == Oldest(Observing, cap)
             room == cap - Cardinality(ps)
             x == [IdleTask EXCEPT !.pc = "next", !.todo = ps, !.room = room]
  <2>1. ps \subseteq Known(prop) BY DEF Observing, Known, Oldest
  <2>5. ps \in SUBSET Proposals BY <2>1 DEF Known
  <2>6. Cardinality(ps) \in Nat /\ cap \in Nat BY <2>5, CountType, BoundsAssumption
  <2>7. room \in Int BY <2>6
  <2>3. UNCHANGED prop BY DEF CheckAndExecute
  <2>4. Becomes(t, x) BY <2>0
  <2> HIDE DEF ps, room
  <2>2. x \in Task /\ x.pc = "next" /\ x.todo = ps BY <2>5, <2>7 DEF IdleTask, Task
  <2> HIDE DEF x
  <2> QED BY <2>1, <2>2, <2>3, <2>4 DEF TaskOK, JobOK, Working
<1> QED BY <1>1, <1>2, ActionInv

LEMMA ExecuteOneInv == ASSUME Inv, NEW t \in Tasks, ExecuteOne(t) PROVE ProposalsOK /\ Inv'
<1>1. PICK p \in Proposals : /\ t \in Manuals /\ prop[p].status \in Open
                             /\ prop' = [prop EXCEPT ![p].status = "observing"]
                             /\ Becomes(t, [IdleTask EXCEPT !.pc = "gate", !.p = p])
  BY DEF ExecuteOne
<1>2. ProposalsOK
  <2>1. prop' \in [Proposals -> Proposal]
    BY <1>1 DEF Inv, TypeOK, Proposal, Statuses, Open
  <2>2. ASSUME NEW q \in Proposals PROVE Kept(q) \/ Waits(q)
    BY <1>1 DEF Inv, TypeOK, Proposal, Kept, Waits, Same, Open
  <2> QED BY <2>1, <2>2 DEF ProposalsOK, PropChange
<1>3. MovesOK /\ inFlight' \subseteq Proposals
  BY MovesSame DEF ExecuteOne, Inv, TypeOK
<1>4. TaskOK(t)
  <2> DEFINE x == [IdleTask EXCEPT !.pc = "gate", !.p = p]
  <2>2. x \in Task /\ x.pc = "gate" /\ x.p = p /\ x.todo = {} BY StartedType
  <2>3. p \in Known(prop') BY <1>1, <1>2, KnownStays DEF Known, Open, ProposalsOK
  <2>4. t \notin Sweepers BY <1>1, NamesAssumption
  <2> HIDE DEF x
  <2>5. Becomes(t, x) BY <1>1 DEF x
  <2> QED BY <2>2, <2>3, <2>4, <2>5 DEF TaskOK, JobOK, Working
<1> QED BY <1>2, <1>3, <1>4, ActionInv

LEMMA SubmitDeprecateInv == ASSUME Inv, NEW t \in Tasks, SubmitDeprecate(t) PROVE ProposalsOK /\ Inv'
<1>1. ProposalsOK /\ MovesOK /\ inFlight' \subseteq Proposals
  BY PropSame, MovesSame DEF SubmitDeprecate, Inv, TypeOK
<1>2. TaskOK(t)
  <2>1. PICK r \in Recipes : Calls(t, "none", r, "gateway", "deprecated")
    BY DEF SubmitDeprecate
  <2>2. PICK x \in Task : /\ Becomes(t, x)
                          /\ x.pc = "guard" /\ x.todo = task[t].todo
                          /\ x.p = "none" /\ x.r = r /\ x.stage = "gateway"
                          /\ x.want = "deprecated"
    BY <2>1, CallsCases
  <2>3. x.todo \subseteq Known(prop') BY <2>2 DEF SubmitDeprecate, Inv, JobsOK, JobOK
  <2> QED BY <2>2, <2>3 DEF TaskOK, JobOK, AtGateway
<1> QED BY <1>1, <1>2, ActionInv

-----------------------------------------------------------------------------
(***************************************************************************)
(* The loops, and the verdict.                                             *)
(***************************************************************************)
LEMMA TakeNextInv == ASSUME Inv, NEW t \in Tasks, TakeNext(t) PROVE ProposalsOK /\ Inv'
<1>1. ProposalsOK /\ MovesOK /\ inFlight' \subseteq Proposals
  BY PropSame, MovesSame DEF TakeNext, Inv, TypeOK
<1>2. TaskOK(t)
  <2>1. PICK p \in task[t].todo :
             /\ task[t].pc = "next"
             /\ IF Taken(t, p) THEN Becomes(t, [task[t] EXCEPT !.pc = "gate", !.p = p, !.todo = @ \ {p}])
                               ELSE Becomes(t, [task[t] EXCEPT !.todo = @ \ {p}])
             /\ UNCHANGED prop
    BY DEF TakeNext
  <2>2. task[t] \in Task /\ p \in Proposals /\ task[t].todo \subseteq Known(prop)
    BY <2>1 DEF Inv, TypeOK, JobsOK, JobOK, Known
  <2>3. CASE Taken(t, p)
    <3> DEFINE x == [task[t] EXCEPT !.pc = "gate", !.p = p, !.todo = @ \ {p}]
    <3>1. x \in Task /\ x.pc = "gate" /\ x.p = p /\ x.todo = task[t].todo \ {p}
      BY <2>2 DEF Task
    <3>2. Becomes(t, x) BY <2>1, <2>3
    <3>3. t \in Sweepers => prop[p].late BY <2>3 DEF Taken
    <3> HIDE DEF x
    <3> QED BY <2>1, <2>2, <3>1, <3>2, <3>3 DEF TaskOK, JobOK, Working
  <2>4. CASE ~Taken(t, p)
    <3> DEFINE x == [task[t] EXCEPT !.todo = @ \ {p}]
    <3>1. x \in Task /\ x.pc = "next" /\ x.todo = task[t].todo \ {p}
      BY <2>1, <2>2 DEF Task
    <3>2. Becomes(t, x) BY <2>1, <2>4
    <3> HIDE DEF x
    <3> QED BY <2>1, <2>2, <3>1, <3>2 DEF TaskOK, JobOK, Working
  <2> QED BY <2>3, <2>4
<1> QED BY <1>1, <1>2, ActionInv

(* The statements as changes of a proposal. *)
LEMMA RejectedOK ==
    ASSUME Inv, NEW ps, NEW why \in {"gate", "transition", "other"},
           prop' = MarkedRejected(ps, why),
           why = "gate" => \A p \in Proposals : p \in ps => prop[p].late
    PROVE  ProposalsOK
<1>1. prop' \in [Proposals -> Proposal]
  BY ResolvedType DEF Inv, MarkedRejected, Statuses, Whys
<1>2. ASSUME NEW p \in Proposals PROVE Kept(p) \/ Refuted(p)
  BY <1>2, ResolvedCases DEF Inv, MarkedRejected, Kept, Refuted, Same
<1> QED BY <1>1, <1>2 DEF ProposalsOK, PropChange

LEMMA ExpiredOK == ASSUME Inv, NEW ps, prop' = MarkedExpired(ps) PROVE ProposalsOK
<1>1. prop' \in [Proposals -> Proposal]
  BY ResolvedType DEF Inv, MarkedExpired, Statuses, Whys
<1>2. ASSUME NEW p \in Proposals PROVE Kept(p) \/ Refuted(p)
  BY <1>2, ResolvedCases DEF Inv, MarkedExpired, Kept, Refuted, Same
<1> QED BY <1>1, <1>2 DEF ProposalsOK, PropChange

LEMMA ExecutedOK ==
    ASSUME Inv, NEW ps, NEW why \in {"gateway", "other"}, prop' = MarkedExecuted(ps, why),
           \A p \in Proposals : p \in ps =>
               IF why = "gateway" THEN prop[p].kind = "deprecate" ELSE Effected(p)
    PROVE  ProposalsOK
<1>1. prop' \in [Proposals -> Proposal]
  BY ResolvedType DEF Inv, MarkedExecuted, Statuses, Whys
<1>2. ASSUME NEW p \in Proposals PROVE Kept(p) \/ Executed(p)
  BY <1>2, ResolvedCases DEF Inv, MarkedExecuted, Kept, Executed, Same
<1> QED BY <1>1, <1>2 DEF ProposalsOK, PropChange

LEMMA DoneInv == ASSUME Inv, NEW t \in Tasks, Done(t) PROVE ProposalsOK /\ Inv'
<1>1. ProposalsOK
  <2>1. CASE t \in Sweepers BY <2>1, ExpiredOK DEF Done
  <2>2. CASE t \notin Sweepers BY <2>2, PropSame DEF Done, Inv
  <2> QED BY <2>1, <2>2
<1>2. MovesOK /\ TaskOK(t) /\ inFlight' \subseteq Proposals
  BY MovesSame, EndsOK DEF Done, Inv, TypeOK
<1> QED BY <1>1, <1>2, ActionInv

(* The start of an execution. *)
LEMMA ExecutesOK ==
    ASSUME Inv, NEW t \in Tasks, NEW want, task[t].pc = "gate", Executes(t, task[t].p, want),
           UNCHANGED prop,
           want \in IF prop[task[t].p].kind = "update" THEN {"evolving"}
                    ELSE {"deprecated", "decaying"}
    PROVE  TaskOK(t) /\ inFlight' \subseteq Proposals
<1> DEFINE p == task[t].p
           stage == IF prop[p].kind = "update" THEN "attach" ELSE "deprecate"
<1>1. p \in Known(prop) /\ p \in Proposals /\ task[t].todo \subseteq Known(prop)
  BY DEF Inv, JobsOK, JobOK, Known
<1>2. prop[p].target \in Recipes /\ prop[p].kind \in Kinds
  BY <1>1 DEF Inv, Targeted, TypeOK, Proposal, Known
<1>3. Calls(t, p, prop[p].target, stage, want) BY DEF Executes
<1>4. /\ stage \in {"attach", "deprecate"}
      /\ want \in {"evolving", "decaying", "deprecated"}
      /\ stage = "attach" => want = "evolving" /\ prop[p].kind = "update"
      /\ stage = "deprecate" => want \in {"deprecated", "decaying"} /\ prop[p].kind = "deprecate"
  BY <1>2 DEF Kinds
<1> HIDE DEF stage, p
<1>5. PICK x \in Task : /\ Becomes(t, x)
                        /\ x.pc = "guard" /\ x.todo = task[t].todo
                        /\ x.p = p /\ x.r = prop[p].target /\ x.stage = stage /\ x.want = want
  BY <1>1, <1>2, <1>3, <1>4, CallsCases
<1>6. JobOK(x, prop', moved', patched')
  BY <1>1, <1>2, <1>4, <1>5 DEF JobOK, Attaching, Deprecating, Working
<1>7. inFlight' \subseteq Proposals BY <1>1 DEF Executes, Inv, TypeOK, p
<1> QED BY <1>5, <1>6, <1>7 DEF TaskOK

LEMMA GateInv == ASSUME Inv, NEW t \in Tasks, Gate(t) PROVE ProposalsOK /\ Inv'
<1> DEFINE p == task[t].p
<1>1. MovesOK /\ task[t].pc = "gate" BY MovesSame DEF Gate, Inv
<1>2. CASE \E want \in IF prop[p].kind = "update" THEN {"evolving"}
                       ELSE {"deprecated", "decaying"} : Executes(t, p, want) /\ UNCHANGED prop
  BY <1>1, <1>2, ExecutesOK, PropSame, ActionInv DEF Inv
<1>3. CASE t \in Sweepers /\ prop' = MarkedRejected({p}, "gate") /\ Proceeds(t)
           /\ UNCHANGED inFlight
  <2>1. prop[p].late BY <1>1, <1>3 DEF Inv, SweepsLate
  <2>2. ProposalsOK BY <1>3, <2>1, RejectedOK
  <2> QED BY <1>1, <1>3, <2>2, ProceedsOK, ActionInv DEF Inv, TypeOK
<1>4. CASE /\ UNCHANGED prop \/ prop' = MarkedRejected({p}, "other")
           /\ Proceeds(t) /\ UNCHANGED inFlight
  <2>1. ProposalsOK BY <1>4, RejectedOK, PropSame DEF Inv
  <2> QED BY <1>1, <1>4, <2>1, ProceedsOK, ActionInv DEF Inv, TypeOK
<1> QED BY <1>2, <1>3, <1>4 DEF Gate

-----------------------------------------------------------------------------
(***************************************************************************)
(* transition, and what its callers do with the answer.                    *)
(***************************************************************************)
LEMMA GuardInv == ASSUME Inv, NEW t \in Tasks, Guard(t) PROVE ProposalsOK /\ Inv'
<1>1. ProposalsOK /\ MovesOK /\ inFlight' \subseteq Proposals
  BY PropSame, MovesSame DEF Guard, Inv, TypeOK
<1>2. TaskOK(t)
  <2> DEFINE x == [task[t] EXCEPT !.pc = "write"]
  <2>1. task[t] \in Task /\ JobOK(task[t], prop, moved, patched) /\ task[t].pc = "guard"
    BY DEF Inv, TypeOK, JobsOK, Guard
  <2>2. /\ x \in Task /\ x.pc = "write" /\ x.todo = task[t].todo /\ x.p = task[t].p
        /\ x.r = task[t].r /\ x.want = task[t].want /\ x.stage = task[t].stage
    BY <2>1 DEF Task
  <2>3. Becomes(t, x) BY DEF Guard
  <2> HIDE DEF x
  <2>4. JobOK(x, prop, moved, patched)
    BY <2>1, <2>2 DEF JobOK, Working, Attaching, Completing, Reverting, Deprecating, AtGateway
  <2>5. UNCHANGED <<prop, moved, patched>> BY DEF Guard
  <2> QED BY <2>2, <2>3, <2>4, <2>5 DEF TaskOK
<1> QED BY <1>1, <1>2, ActionInv

LEMMA RefusedInv == ASSUME Inv, NEW t \in Tasks, Refused(t) PROVE ProposalsOK /\ Inv'
<1>1. ProposalsOK
  <2>1. PICK why \in {"transition", "other"} : prop' = MarkedRejected({task[t].p}, why)
    BY DEF Refused
  <2> QED BY <2>1, RejectedOK
<1>2. MovesOK /\ TaskOK(t) /\ inFlight' \subseteq Proposals
  BY <1>1, MovesSame, ProceedsOK DEF Refused, Leaves, Inv, TypeOK
<1> QED BY <1>1, <1>2, ActionInv

LEMMA RefusedGatewayInv ==
    ASSUME Inv, NEW t \in Tasks, RefusedGateway(t) PROVE ProposalsOK /\ Inv'
<1>1. ProposalsOK
  <2>1. CASE UNCHANGED prop BY <2>1, PropSame DEF Inv
  <2>2. CASE CreateProposal(task[t].r, "deprecate")
    <3>1. task[t].r \in Recipes BY WorkingFacts DEF RefusedGateway, Working
    <3> QED BY <2>2, <3>1, CreateCases DEF Inv, Kinds, ProposalsOK, PropChange
  <2> QED BY <2>1, <2>2 DEF RefusedGateway
<1>2. MovesOK /\ TaskOK(t) /\ inFlight' \subseteq Proposals
  BY MovesSame, EndsOK DEF RefusedGateway, Inv, TypeOK
<1> QED BY <1>1, <1>2, ActionInv

(* The state a transition writes is recorded for its proposal, and what is *)
(* known afterwards is what the next stage needs.                          *)
LEMMA WriteInv == ASSUME Inv, NEW t \in Tasks, Write(t) PROVE ProposalsOK /\ Inv'
<1> DEFINE y == task[t]
           x == [y EXCEPT !.seen = "none", !.pc = IF y.stage = "attach" THEN "patch" ELSE "settle"]
<1>1. /\ y \in Task /\ y.pc = "write" /\ y.pc \in Working
      /\ y.todo \subseteq Known(prop) /\ y.r \in Recipes /\ y.p \in Proposals \cup {"none"}
      /\ \/ Attaching(y, prop, moved) \/ Completing(y, prop, moved, patched)
         \/ Reverting(y, prop) \/ Deprecating(y, prop, moved) \/ AtGateway(y)
  BY WorkingFacts DEF Write, Working
<1>2. /\ life' = [life EXCEPT ![y.r] = y.want]
      /\ moved' = IF y.p = "none" THEN moved ELSE [moved EXCEPT ![y.p] = @ \cup {y.want}]
      /\ Becomes(t, x)
      /\ UNCHANGED <<prop, inFlight, patched>>
  BY DEF Write
<1>3. /\ x \in Task /\ x.pc = (IF y.stage = "attach" THEN "patch" ELSE "settle")
      /\ x.todo = y.todo /\ x.p = y.p /\ x.r = y.r /\ x.want = y.want /\ x.stage = y.stage
  BY <1>1 DEF Task
<1> HIDE DEF x, y
<1>4. y.want \in States
  BY <1>1 DEF Attaching, Completing, Reverting, Deprecating, AtGateway, States
<1>5. ProposalsOK BY <1>2, PropSame DEF Inv
<1>6. MovesOK /\ inFlight' \subseteq Proposals
  BY <1>1, <1>2, <1>4 DEF MovesOK, Inv, TypeOK
<1>7. y.p # "none" => y.want \in moved'[y.p]
  BY <1>1, <1>2, <1>4 DEF Inv, TypeOK
<1>8. \A p \in Proposals : moved[p] \subseteq moved'[p] BY <1>6 DEF MovesOK
<1>9. JobOK(x, prop', moved', patched')
  <2>1. \/ Attaching(x, prop, moved') \/ Completing(x, prop, moved', patched)
        \/ Reverting(x, prop) \/ Deprecating(x, prop, moved') \/ AtGateway(x)
    BY <1>1, <1>3, <1>7, <1>8, NamesAssumption
       DEF Attaching, Completing, Reverting, Deprecating, AtGateway, Known
  <2> QED BY <1>1, <1>2, <1>3, <2>1 DEF JobOK
<1>10. TaskOK(t) BY <1>2, <1>3, <1>9 DEF TaskOK
<1> QED BY <1>5, <1>6, <1>10, ActionInv

LEMMA ThrowInv == ASSUME Inv, NEW t \in Tasks, Throw(t) PROVE ProposalsOK /\ Inv'
<1>1. ProposalsOK /\ MovesOK BY PropSame, MovesSame DEF Throw, Inv
<1>2. inFlight' \subseteq Proposals BY DEF Throw, Leaves, Inv, TypeOK
<1>3. TaskOK(t)
  <2>1. CASE Ends(t) BY <2>1, EndsOK
  <2>2. CASE task[t].stage = "complete" /\ Calls(t, task[t].p, task[t].r, "revert", "active")
    <3>1. /\ task[t].r \in Recipes /\ task[t].p \in Proposals
          /\ task[t].todo \subseteq Known(prop) /\ task[t].p \in Known(prop)
      BY <2>2, WorkingFacts DEF Throw, Working, Attaching, Completing, Reverting, Deprecating,
                                AtGateway
    <3>2. PICK x \in Task : /\ Becomes(t, x)
                            /\ x.pc = "guard" /\ x.todo = task[t].todo
                            /\ x.p = task[t].p /\ x.r = task[t].r /\ x.stage = "revert"
                            /\ x.want = "active"
      BY <2>2, <3>1, CallsCases
    <3>3. UNCHANGED prop BY DEF Throw
    <3> QED BY <3>1, <3>2, <3>3 DEF TaskOK, JobOK, Reverting
  <2> QED BY <2>1, <2>2 DEF Throw
<1> QED BY <1>1, <1>2, <1>3, ActionInv

LEMMA PatchInv == ASSUME Inv, NEW t \in Tasks, Patch(t) PROVE ProposalsOK /\ Inv'
<1>1. ProposalsOK /\ UNCHANGED <<life, prop, inFlight, moved>> /\ task[t].pc = "patch"
  BY PropSame DEF Patch, Inv
<1>2. /\ task[t].r \in Recipes /\ task[t].todo \subseteq Known(prop)
      /\ task[t].p \in Known(prop) /\ task[t].p \in Proposals
      /\ prop[task[t].p].kind = "update" /\ "evolving" \in moved[task[t].p]
  BY <1>1, WorkingFacts DEF Working, Attaching, Completing, Reverting, Deprecating, AtGateway,
                            Known
<1>3. PICK want \in {"staging", "active"} :
           /\ Calls(t, task[t].p, task[t].r, "complete", want)
           /\ patched' = IF want = "staging" THEN patched \cup {task[t].p} ELSE patched
  BY DEF Patch
<1>4. MovesOK /\ inFlight' \subseteq Proposals BY <1>1, <1>2, <1>3 DEF MovesOK, Inv, TypeOK
<1>5. PICK x \in Task : /\ Becomes(t, x)
                        /\ x.pc = "guard" /\ x.todo = task[t].todo
                        /\ x.p = task[t].p /\ x.r = task[t].r /\ x.stage = "complete"
                        /\ x.want = want
  BY <1>2, <1>3, CallsCases
<1>6. JobOK(x, prop', moved', patched')
  BY <1>1, <1>2, <1>3, <1>5 DEF JobOK, Completing
<1>7. TaskOK(t) BY <1>5, <1>6 DEF TaskOK
<1> QED BY <1>1, <1>4, <1>7, ActionInv

LEMMA SettleInv == ASSUME Inv, NEW t \in Tasks, Settle(t) PROVE ProposalsOK /\ Inv'
<1> DEFINE x == task[t]
<1>1. /\ x.pc = "settle" /\ x.stage # "gateway" /\ x.p \in Proposals
      /\ prop' = Outcome(x)
      /\ \/ Completing(x, prop, moved, patched) \/ Reverting(x, prop)
         \/ Deprecating(x, prop, moved)
  BY WorkingFacts DEF Settle, Working, Attaching, AtGateway
<1>2. ProposalsOK
  <2>1. CASE prop' = MarkedRejected({x.p}, "other") BY <2>1, RejectedOK
  <2>2. CASE /\ prop' = MarkedExecuted({x.p}, "other")
             /\ x.stage # "revert"
             /\ ~(x.stage = "complete" /\ x.want = "active" /\ prop[x.p].merge)
    <3>1. Effected(x.p)
      BY <1>1, <2>2 DEF Effected, Completing, Reverting, Deprecating
    <3> QED BY <2>2, <3>1, ExecutedOK
  <2> QED BY <1>1, <2>1, <2>2 DEF Outcome
<1>3. MovesOK /\ TaskOK(t) /\ inFlight' \subseteq Proposals
  BY <1>2, MovesSame, ProceedsOK DEF Settle, Leaves, Inv, TypeOK
<1> QED BY <1>2, <1>3, ActionInv

LEMMA SettleGatewayInv ==
    ASSUME Inv, NEW t \in Tasks, SettleGateway(t) PROVE ProposalsOK /\ Inv'
<1>1. ProposalsOK BY ExecutedOK DEF SettleGateway
<1>2. MovesOK /\ TaskOK(t) /\ inFlight' \subseteq Proposals
  BY MovesSame, EndsOK DEF SettleGateway, Inv, TypeOK
<1> QED BY <1>1, <1>2, ActionInv

-----------------------------------------------------------------------------
(***************************************************************************)
(* The gateway's other decisions, and the world.                           *)
(***************************************************************************)
LEMMA RecipeInv ==
    ASSUME Inv, NEW r \in Recipes, SubmitUpdate(r) \/ SubmitValid(r) \/ Move(r) \/ Delete(r)
    PROVE  ProposalsOK /\ Inv'
<1>1. CASE SubmitUpdate(r)
  <2>1. ProposalsOK BY <1>1, CreateCases DEF SubmitUpdate, Inv, ProposalsOK, PropChange
  <2> QED BY <1>1, <2>1, MovesSame, OtherInv DEF SubmitUpdate, Inv
<1>2. CASE SubmitValid(r)
  <2>1. ProposalsOK BY <1>2, RejectedOK DEF SubmitValid
  <2> QED BY <1>2, <2>1, MovesSame, OtherInv DEF SubmitValid, Inv
<1>3. CASE Move(r)
  <2>1. ValidTransitions[life[r]] \subseteq States /\ MovesOK
    BY <1>3 DEF Move, Inv, TypeOK, MovesOK, ValidTransitions, States
  <2> QED BY <1>3, <2>1, PropSame, OtherInv DEF Move, Inv
<1>4. CASE Delete(r)
  <2>1. MovesOK BY <1>4 DEF Delete, Inv, TypeOK, MovesOK
  <2>2. prop' \in [Proposals -> Proposal]
    BY <1>4 DEF Delete, Inv, TypeOK, Proposal, Statuses
  <2>3. ASSUME NEW p \in Proposals PROVE Kept(p) \/ Removed(p)
    BY <1>4, NamesAssumption DEF Delete, Inv, Targeted, TypeOK, Proposal, Kept, Removed, Same
  <2> QED BY <1>4, <2>1, <2>2, <2>3, OtherInv DEF Delete, ProposalsOK, PropChange
<1> QED BY <1>1, <1>2, <1>3, <1>4

LEMMA ElapseInv == ASSUME Inv, NEW p \in Proposals, Elapse(p) PROVE ProposalsOK /\ Inv'
<1>1. prop' \in [Proposals -> Proposal] BY DEF Elapse, Inv, TypeOK, Proposal
<1>2. ASSUME NEW q \in Proposals PROVE Kept(q) \/ Waits(q)
  BY DEF Elapse, Inv, TypeOK, Proposal, Kept, Waits, Same
<1>3. ProposalsOK BY <1>1, <1>2 DEF ProposalsOK, PropChange
<1> QED BY <1>3, MovesSame, OtherInv DEF Elapse, Inv

(* The record of what was done only grows. *)
LEMMA MovedGrows ==
    ASSUME Inv, [Next]_vars, NEW p \in Proposals
    PROVE  moved[p] \subseteq moved'[p] /\ patched \subseteq patched'
<1>1. CASE UNCHANGED <<moved, patched>> BY <1>1
<1>2. ASSUME NEW t \in Tasks, Write(t) PROVE moved[p] \subseteq moved'[p] /\ UNCHANGED patched
  BY <1>2 DEF Write, Inv, TypeOK
<1>3. ASSUME NEW t \in Tasks, Patch(t) PROVE UNCHANGED moved /\ patched \subseteq patched'
  BY <1>3 DEF Patch
<1> QED
  BY <1>1, <1>2, <1>3 DEF Next, Work, vars, OnSignal, CheckAndExecute, ExecuteOne,
     SubmitDeprecate, TakeNext, Done, Gate, Guard, Refused, RefusedGateway, Throw, Settle,
     SettleGateway, SubmitUpdate, SubmitValid, Move, Delete, Elapse

-----------------------------------------------------------------------------
(***************************************************************************)
(* The theorems.                                                           *)
(***************************************************************************)
LEMMA InitInv == Init => Inv
<1> SUFFICES ASSUME Init PROVE Inv OBVIOUS
<1>1. NoProposal \in Proposal /\ NoProposal.status = "none" /\ NoProposal.target = "none"
  BY DEF NoProposal, Proposal, Statuses, Kinds, Whys
<1>2. /\ IdleTask.pc = "idle" /\ IdleTask.todo = {}
      /\ \A t \in Tasks : task[t] = IdleTask
      /\ \A p \in Proposals : prop[p] = NoProposal
  BY DEF Init, IdleTask
<1>3. TypeOK BY <1>1, IdleType DEF Init, TypeOK, States
<1>4. JobsOK /\ SweepsLate BY <1>2 DEF JobsOK, JobOK, Working, SweepsLate
<1>5. Targeted BY <1>1, <1>2 DEF Targeted
<1> QED BY <1>3, <1>4, <1>5 DEF Inv

(* Every step keeps each proposal or changes it in one of five ways. *)
LEMMA StepInv == Inv /\ [Next]_vars => ProposalsOK /\ Inv'
<1> SUFFICES ASSUME Inv, [Next]_vars PROVE ProposalsOK /\ Inv' OBVIOUS
<1>1. ASSUME NEW t \in Tasks, OnSignal(t) \/ CheckAndExecute(t) \/ ExecuteOne(t)
                              \/ SubmitDeprecate(t)
      PROVE  ProposalsOK /\ Inv'
  BY <1>1, OnSignalInv, CheckAndExecuteInv, ExecuteOneInv, SubmitDeprecateInv
<1>2. ASSUME NEW t \in Tasks, Work(t) PROVE ProposalsOK /\ Inv'
  BY <1>2, TakeNextInv, DoneInv, GateInv, GuardInv, RefusedInv, RefusedGatewayInv, WriteInv,
     ThrowInv, PatchInv, SettleInv, SettleGatewayInv DEF Work
<1>3. CASE UNCHANGED vars
  BY <1>3, PropSame, MovesSame, OtherInv DEF vars, Inv
<1> QED BY <1>1, <1>2, <1>3, RecipeInv, ElapseInv DEF Next

(* The invariant holds however the tasks interleave. *)
THEOREM InvHolds == Spec => []Inv
BY InitInv, StepInv, PTL DEF Spec

(* Tasks and proposals have their type in every state: no execution writes *)
(* a state, a status or a reason the code does not know.                   *)
THEOREM TypeHolds == Spec => []TypeOK
<1>1. Inv => TypeOK BY DEF Inv
<1> QED BY InvHolds, <1>1, PTL

(* A recipe never has two open proposals of a kind: create refuses the     *)
(* second, and no statement reopens a decided one.                         *)
THEOREM NoDuplicatesHolds == Spec => []NoDuplicates
<1>1. Init => NoDuplicates
  BY DEF Init, NoDuplicates, NoProposal, Open
<1>2. NoDuplicates /\ ProposalsOK => NoDuplicates'
  <2> SUFFICES ASSUME NoDuplicates, ProposalsOK, NEW p \in Proposals, NEW q \in Proposals,
                      p # q, prop'[p].status \in Open, prop'[q].status \in Open,
                      prop'[p].kind = prop'[q].kind
               PROVE  prop'[p].target # prop'[q].target
    BY DEF NoDuplicates
  <2>1. \A u \in {p, q} : \/ Created(u)
                          \/ Same(u) /\ prop[u].status \in Open
    BY DEF ProposalsOK, PropChange, Kept, Created, Waits, Refuted, Executed, Removed, Same, Open
  <2>2. ASSUME NEW u \in {p, q}, NEW v \in {p, q}, u # v, Created(u)
        PROVE  prop'[u].target # prop'[v].target
    <3>1. prop'[v] = prop[v] BY <2>2 DEF Created
    <3>2. prop[v].status \in Open /\ prop[v].kind = prop'[u].kind BY <3>1, <2>2
    <3> QED BY <2>2, <3>1, <3>2 DEF Created, HasDuplicate, FindByTarget
  <2>3. CASE Same(p) /\ Same(q) /\ prop[p].status \in Open /\ prop[q].status \in Open
    BY <2>3 DEF Same, NoDuplicates
  <2> QED BY <2>1, <2>2, <2>3
<1> QED BY InvHolds, StepInv, <1>1, <1>2, PTL DEF Spec

(* A decision is final: whatever races it, a decided proposal is at most   *)
(* deleted with its recipe.                                                *)
THEOREM DecisionsHold == Spec => DecisionsAreFinal
<1>1. ProposalsOK => (\A p \in Proposals : prop[p].status \in {"executed", "rejected", "expired"}
                        => prop'[p].status \in {prop[p].status, "deleted"})
  BY DEF ProposalsOK, PropChange, Kept, Created, Waits, Refuted, Executed, Removed, Open
<1>2. Inv /\ [Next]_vars => [\A p \in Proposals : prop[p].status \in {"executed", "rejected", "expired"}
                        => prop'[p].status \in {prop[p].status, "deleted"}]_vars
  BY StepInv, <1>1
<1> QED BY InvHolds, <1>2, PTL DEF Spec, DecisionsAreFinal

(* Executed means done: a proposal is marked executed only when the        *)
(* transitions of its own execution were written (and a merge patched), or *)
(* by the gateway's deprecation.                                           *)
THEOREM ExecutedHolds == Spec => []ExecutedMeansDone
<1> DEFINE Cause(p) == \/ prop[p].why = "gateway" /\ prop[p].kind = "deprecate"
                       \/ Effected(p)
           Caused == \A p \in Proposals : prop[p].status = "executed" => Cause(p)
<1>1. Init => Caused BY DEF Init, NoProposal
<1>2. Caused /\ Inv /\ [Next]_vars => Caused'
  <2> SUFFICES ASSUME Caused, Inv, [Next]_vars, NEW p \in Proposals,
                      prop'[p].status = "executed"
               PROVE  Cause(p)'
    OBVIOUS
  <2>1. ProposalsOK /\ PropChange(p) BY StepInv DEF ProposalsOK
  <2>2. CASE Kept(p)
    <3>1. Cause(p) BY <2>2 DEF Kept
    <3> QED BY <3>1, <2>2, MovedGrows DEF Kept, Effected
  <2>3. CASE Executed(p)
    BY <2>3, MovedGrows DEF Executed, Same, Effected
  <2> QED BY <2>1, <2>2, <2>3 DEF PropChange, Created, Waits, Refuted, Removed, Open
<1>3. Caused => ExecutedMeansDone BY DEF Effected, ExecutedMeansDone
<1> QED BY InvHolds, <1>1, <1>2, <1>3, PTL DEF Spec

(* The verdict of the sweep never ends a proposal that is still inside its *)
(* observation window.                                                     *)
THEOREM YoungHolds == Spec => YoungUpdatesAreNotJudged
<1>1. ProposalsOK => (\A p \in Proposals :
         (prop[p].status = "observing" /\ prop'[p].why = "gate" /\ prop[p].why # "gate")
         => prop[p].late)
  BY DEF ProposalsOK, PropChange, Kept, Created, Waits, Refuted, Executed, Removed
<1>2. Inv /\ [Next]_vars => [\A p \in Proposals :
         (prop[p].status = "observing" /\ prop'[p].why = "gate" /\ prop[p].why # "gate")
         => prop[p].late]_vars
  BY StepInv, <1>1
<1> QED BY InvHolds, <1>2, PTL DEF Spec, YoungUpdatesAreNotJudged

-----------------------------------------------------------------------------
(***************************************************************************)
(* #inFlight.  What a step of a task leaves in it was there before and is  *)
(* not this task's, or is what the task executes now.                      *)
(***************************************************************************)
FlightOK(t) == \A p \in inFlight' : \/ p \in Executing(t)'
                                    \/ p \in inFlight /\ p \notin Executing(t)

LEMMA FlightStart ==
    ASSUME Inv, NEW t \in Tasks, OnSignal(t) \/ CheckAndExecute(t) \/ ExecuteOne(t)
                                 \/ SubmitDeprecate(t) \/ TakeNext(t) \/ Done(t)
    PROVE  FlightOK(t)
<1>1. task[t].pc \in {"idle", "next"}
  BY DEF OnSignal, CheckAndExecute, ExecuteOne, SubmitDeprecate, TakeNext, Done
<1>2. Executing(t) = {} BY <1>1 DEF Executing
<1>3. inFlight' = inFlight
  BY DEF OnSignal, CheckAndExecute, ExecuteOne, SubmitDeprecate, TakeNext, Done
<1> QED BY <1>2, <1>3 DEF FlightOK

(* A call of transition executes its proposal. *)
LEMMA CallsExecuting ==
    ASSUME Inv, NEW t \in Tasks, NEW p, NEW r, NEW stage, NEW want, Calls(t, p, r, stage, want)
    PROVE  Executing(t)' = {p}
<1>1. /\ task'[t].pc = "guard" /\ task'[t].p = p
  BY DEF Calls, Becomes, Inv, TypeOK
<1> QED BY <1>1 DEF Executing

LEMMA FlightGate == ASSUME Inv, NEW t \in Tasks, Gate(t) PROVE FlightOK(t)
<1>1. Executing(t) = {} BY DEF Gate, Executing
<1>2. CASE \E want : Executes(t, task[t].p, want)
  <2>1. PICK want : Executes(t, task[t].p, want) BY <1>2
  <2>2. Executing(t)' = {task[t].p} BY <2>1, CallsExecuting DEF Executes
  <2> QED BY <1>1, <2>1, <2>2 DEF Executes, FlightOK
<1>3. CASE UNCHANGED inFlight BY <1>1, <1>3 DEF FlightOK
<1> QED BY <1>2, <1>3 DEF Gate

LEMMA FlightWork ==
    ASSUME Inv, NEW t \in Tasks,
           Guard(t) \/ Refused(t) \/ RefusedGateway(t) \/ Write(t) \/ Throw(t) \/ Patch(t)
           \/ Settle(t) \/ SettleGateway(t)
    PROVE  FlightOK(t)
<1>1. /\ Executing(t) = {task[t].p} /\ task[t].pc \in Working
      /\ task[t].stage = "gateway" => task[t].p = "none"
      /\ task[t] \in Task
  <2>1. task[t].pc \in Working
    BY DEF Guard, Refused, RefusedGateway, Write, Throw, Patch, Settle, SettleGateway, Working
  <2> QED BY <2>1, WorkingFacts DEF Executing, Working
<1>2. CASE Refused(t) \/ Settle(t)
  BY <1>1, <1>2 DEF Refused, Settle, Leaves, FlightOK
<1>3. CASE RefusedGateway(t) \/ SettleGateway(t)
  <2>1. Executing(t) = {"none"} /\ inFlight' = inFlight
    BY <1>1, <1>3 DEF RefusedGateway, SettleGateway
  <2>2. "none" \notin inFlight BY NamesAssumption DEF Inv, TypeOK
  <2> QED BY <2>1, <2>2 DEF FlightOK
<1>4. CASE Throw(t)
  <2>1. CASE Leaves(t) BY <1>1, <2>1 DEF Leaves, FlightOK
  <2>2. CASE Calls(t, task[t].p, task[t].r, "revert", "active") /\ UNCHANGED inFlight
    BY <1>1, <2>2, CallsExecuting DEF FlightOK
  <2> QED BY <1>4, <2>1, <2>2 DEF Throw
<1>5. CASE Patch(t)
  <2>1. PICK want : Calls(t, task[t].p, task[t].r, "complete", want) BY <1>5 DEF Patch
  <2> QED BY <1>1, <1>5, <2>1, CallsExecuting DEF FlightOK, Patch
<1>6. CASE Guard(t) \/ Write(t)
  <2>1. PICK pc \in {"write", "patch", "settle"}, seen \in {task[t].seen, "none"} :
             Becomes(t, [task[t] EXCEPT !.seen = seen, !.pc = pc])
    <3>1. CASE Guard(t)
      <4>1. [task[t] EXCEPT !.pc = "write"]
              = [task[t] EXCEPT !.seen = task[t].seen, !.pc = "write"]
        BY <1>1 DEF Task
      <4> QED BY <3>1, <4>1 DEF Guard
    <3>2. CASE Write(t)
      BY <3>2 DEF Write
    <3> QED BY <1>6, <3>1, <3>2
  <2> DEFINE x == [task[t] EXCEPT !.seen = seen, !.pc = pc]
  <2>2. x.pc \in Working /\ x.p = task[t].p BY <1>1 DEF Task, Working
  <2> HIDE DEF x
  <2>3. task'[t] = x BY <2>1 DEF x, Becomes, Inv, TypeOK
  <2>4. inFlight' = inFlight BY <1>6 DEF Guard, Write
  <2> QED BY <1>1, <2>2, <2>3, <2>4 DEF FlightOK, Executing, Working
<1> QED BY <1>2, <1>3, <1>4, <1>5, <1>6

(* A step of a task leaves the others where they are. *)
LEMMA OthersStay ==
    ASSUME Inv, NEW t \in Tasks,
           OnSignal(t) \/ CheckAndExecute(t) \/ ExecuteOne(t) \/ SubmitDeprecate(t) \/ Work(t)
    PROVE  \A u \in Tasks \ {t} : task'[u] = task[u]
<1>1. \E x : Becomes(t, x)
  BY DEF OnSignal, CheckAndExecute, ExecuteOne, SubmitDeprecate, Work, TakeNext, Done, Gate,
         Guard, Refused, RefusedGateway, Write, Throw, Patch, Settle, SettleGateway, Executes,
         Calls, Proceeds, Ends
<1> QED BY <1>1 DEF Becomes, Inv, TypeOK

(* However an execution ends - done, refused, reverted or by an exception  *)
(* - its proposal does not stay in flight, where signals and sweeps would  *)
(* pass over it for ever.                                                  *)
THEOREM NothingLeaksHolds == Spec => []NothingLeaksInFlight
<1>1. Init => NothingLeaksInFlight BY DEF Init, NothingLeaksInFlight
<1>2. NothingLeaksInFlight /\ Inv /\ [Next]_vars => NothingLeaksInFlight'
  <2> SUFFICES ASSUME NothingLeaksInFlight, Inv, [Next]_vars
               PROVE  NothingLeaksInFlight'
    OBVIOUS
  <2>1. ASSUME NEW t \in Tasks,
               OnSignal(t) \/ CheckAndExecute(t) \/ ExecuteOne(t) \/ SubmitDeprecate(t) \/ Work(t)
        PROVE  NothingLeaksInFlight'
    <3>1. FlightOK(t) BY <2>1, FlightStart, FlightGate, FlightWork DEF Work
    <3>2. \A u \in Tasks \ {t} : Executing(u)' = Executing(u)
      BY <2>1, OthersStay DEF Executing
    <3>3. ASSUME NEW p \in inFlight' PROVE \E u \in Tasks : p \in Executing(u)'
      BY <3>1, <3>2 DEF FlightOK, NothingLeaksInFlight
    <3> QED BY <3>3 DEF NothingLeaksInFlight
  <2>2. CASE UNCHANGED <<task, inFlight>>
    BY <2>2 DEF NothingLeaksInFlight, Executing
  <2> QED BY <2>1, <2>2 DEF Next, vars, SubmitUpdate, SubmitValid, Move, Delete, Elapse
<1> QED BY InvHolds, <1>1, <1>2, PTL DEF Spec
=============================================================================
