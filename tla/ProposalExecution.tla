------------------------- MODULE ProposalExecution -------------------------
(***************************************************************************)
(* Evolution proposals: the repository, the gateway that creates them and  *)
(* the executor that carries them out (repository/evolution/               *)
(* ProposalRepository.ts, service/sustain/ProposalGateway.ts and           *)
(* ProposalExecutor.ts), in one process.                                   *)
(*                                                                         *)
(* The executor has three entries - a signal on the bus, the sweep         *)
(* checkAndExecute, and executeOne from the dashboard - and nothing keeps  *)
(* them apart but #inFlight.  The code between two awaits is one step; the *)
(* steps of different tasks interleave in any order.  SignalBus.emit calls *)
(* its subscribers at once, so a signal is a task that may begin in any    *)
(* state, those in the middle of an execution included.                    *)
(*                                                                         *)
(* An execution calls LifecycleStateMachine.transition, which reads the    *)
(* recipe's state, then checks it (Guard), then writes (Write).  A verdict *)
(* of EvolutionPolicy, the outcome of a patch and the readiness of the     *)
(* content are any of the possible ones.                                   *)
(***************************************************************************)
EXTENDS LifecycleTable, Integers, FiniteSets

CONSTANTS Recipes,
          Proposals,     \* bound: the proposals created in a behaviour
          SignalTasks,   \* bound: the signals handled at the same time
          Sweepers,      \* callers of checkAndExecute
          Caps,          \* the caps they give; one for all the proposals is like none
          Manuals,       \* callers of executeOne
          Gateways,      \* callers of submit whose deprecation is immediate
          MayThrow,      \* whether a transition may throw (file or database)
          Outside        \* whether others move and delete recipes

Tasks == SignalTasks \cup Sweepers \cup Manuals \cup Gateways

ASSUME NamesAssumption == /\ "none" \notin Recipes \cup Proposals
                          /\ Sweepers \cap Manuals = {}
ASSUME BoundsAssumption == IsFiniteSet(Proposals) /\ Caps \subseteq Nat \ {0}

VARIABLES life,       \* the recipes' lifecycle; "gone" once deleted
          prop,       \* the table evolution_proposals
          inFlight,   \* ProposalExecutor.#inFlight
          task,       \* where each task is
          moved,      \* history: the states a proposal's execution moved its recipe to
          patched     \* history: the proposals whose patch was applied

vars == <<life, prop, inFlight, task, moved, patched>>

(* A proposal is late when its time is over: an observed one's observation *)
(* window, a pending one's 14 days.  Its nth is its place by proposedAt.   *)
Open == {"pending", "observing"}
Statuses == Open \cup {"none", "executed", "rejected", "expired", "deleted"}
Kinds == {"update", "deprecate"}
Whys == {"none", "gate", "transition", "gateway", "other"}  \* what decided a proposal

NoProposal == [status |-> "none", kind |-> "update", target |-> "none", merge |-> FALSE,
               late |-> FALSE, nth |-> 0, why |-> "none"]
IdleTask == [pc |-> "idle", todo |-> {}, p |-> "none", r |-> "none", want |-> "none",
             seen |-> "none", stage |-> "none", room |-> 0]

(* Published recipes without proposals. *)
Init == /\ life = [r \in Recipes |-> "active"]
        /\ prop = [p \in Proposals |-> NoProposal]
        /\ inFlight = {}
        /\ task = [t \in Tasks |-> IdleTask]
        /\ moved = [p \in Proposals |-> {}]
        /\ patched = {}

-----------------------------------------------------------------------------
(***************************************************************************)
(* ProposalRepository.  Each operation is one SQL statement whose WHERE    *)
(* names the statuses it may change.                                       *)
(***************************************************************************)
Resolved(ps, from, status, why) ==
    [p \in Proposals |-> IF p \in ps /\ prop[p].status \in from
                         THEN [prop[p] EXCEPT !.status = status, !.why = why]
                         ELSE prop[p]]
(* Mutant: markExecuted without its WHERE on the status. *)
MarkedExecutedAnyway(ps, why) == Resolved(ps, Statuses \ {"none"}, "executed", why)
MarkedExecuted(ps, why) == Resolved(ps, {"observing"}, "executed", why)
MarkedRejected(ps, why) == Resolved(ps, Open, "rejected", why)
MarkedExpired(ps) == Resolved(ps, Open, "expired", "other")

FindByTarget(r) == {p \in Proposals : prop[p].target = r /\ prop[p].status \in Open}
Observing == {p \in Proposals : prop[p].status = "observing"}
Pending == {p \in Proposals : prop[p].status = "pending"}
(* find with a limit and oldestFirst *)
Oldest(ps, limit) ==
    {p \in ps : Cardinality({q \in ps : prop[q].nth < prop[p].nth}) < limit}

(* Mutant: only a pending proposal counts as a duplicate. *)
HasPendingDuplicate(r, kind) ==
    \E p \in FindByTarget(r) : prop[p].kind = kind /\ prop[p].status = "pending"

(* create: a duplicate is refused, and the gateway then at most enriches   *)
(* the evidence of the proposal that is there.  A deprecation is observed  *)
(* at once, an update according to its confidence.                         *)
HasDuplicate(r, kind) == \E p \in FindByTarget(r) : prop[p].kind = kind

CreateProposal(r, kind) ==
    IF HasDuplicate(r, kind) THEN UNCHANGED prop
    ELSE \E p \in Proposals, status \in Open, merge \in BOOLEAN :
            /\ prop[p].status = "none"
            /\ kind = "deprecate" => status = "observing" /\ ~merge
            /\ prop' = [prop EXCEPT ![p] = [NoProposal EXCEPT !.status = status,
                            !.kind = kind, !.target = r, !.merge = merge,
                            !.nth = 1 + Cardinality({q \in Proposals : prop[q].nth # 0})]]

-----------------------------------------------------------------------------
(* A task goes on with its next proposal, or ends. *)
Becomes(t, x) == task' = [task EXCEPT ![t] = x]
Proceeds(t) == Becomes(t, [IdleTask EXCEPT !.pc = IF t \in SignalTasks \cup Sweepers
                                                  THEN "next" ELSE "idle",
                                           !.todo = task[t].todo, !.room = task[t].room])
Ends(t) == Becomes(t, IdleTask)

(* The synchronous part of transition: the read of the recipe. *)
Calls(t, p, r, stage, want) ==
    Becomes(t, [pc |-> "guard", todo |-> task[t].todo, p |-> p, r |-> r, want |-> want,
                seen |-> life[r], stage |-> stage, room |-> task[t].room])

(* runWithReentrancyGuard up to the first await of the execution. *)
Executes(t, p, want) ==
    /\ inFlight' = inFlight \cup {p}
    /\ Calls(t, p, prop[p].target, IF prop[p].kind = "update" THEN "attach" ELSE "deprecate",
             want)
Leaves(t) == inFlight' = inFlight \ {task[t].p}

-----------------------------------------------------------------------------
(* #onSignal: the observing proposals of the recipe that are not in flight.*)
OnSignal(t) == \E r \in Recipes :
    LET ps == {p \in FindByTarget(r) : prop[p].status = "observing" /\ p \notin inFlight} IN
    /\ t \in SignalTasks
    /\ task[t].pc = "idle"
    /\ ps # {}
    /\ Becomes(t, [IdleTask EXCEPT !.pc = "next", !.todo = ps])
    /\ UNCHANGED <<life, prop, inFlight, moved, patched>>

(* checkAndExecute: at most cap rows are looked at, the oldest first; what *)
(* the observed ones leave of it is the room for pending ones.             *)
CheckAndExecute(t) == \E cap \in Caps :
    LET ps == Oldest(Observing, cap) IN
    /\ t \in Sweepers
    /\ task[t].pc = "idle"
    /\ Becomes(t, [IdleTask EXCEPT !.pc = "next", !.todo = ps, !.room = cap - Cardinality(ps)])
    /\ UNCHANGED <<life, prop, inFlight, moved, patched>>

ExecuteOne(t) == \E p \in Proposals :
    /\ t \in Manuals
    /\ task[t].pc = "idle"
    /\ prop[p].status \in Open
    /\ prop' = [prop EXCEPT ![p].status = "observing"]
    /\ Becomes(t, [IdleTask EXCEPT !.pc = "gate", !.p = p])
    /\ UNCHANGED <<life, inFlight, moved, patched>>

(* Mutant: the sweep takes proposals of any age. *)
TakenAtAnyAge(t, p) == t \in Sweepers => p \notin inFlight

(* The sweep passes over a proposal that is in flight, or younger than its *)
(* observation window.                                                     *)
Taken(t, p) == t \in Sweepers => p \notin inFlight /\ prop[p].late

(* The metrics of the next proposal are read. *)
TakeNext(t) == \E p \in task[t].todo :
    /\ task[t].pc = "next"
    /\ IF Taken(t, p) THEN Becomes(t, [task[t] EXCEPT !.pc = "gate", !.p = p, !.todo = @ \ {p}])
                      ELSE Becomes(t, [task[t] EXCEPT !.todo = @ \ {p}])
    /\ UNCHANGED <<life, prop, inFlight, moved, patched>>

(* Mutant: the sweep forgets the pending proposals. *)
DoneWithoutExpiry(t) ==
    /\ task[t].pc = "next"
    /\ task[t].todo = {}
    /\ Ends(t)
    /\ UNCHANGED <<life, prop, inFlight, moved, patched>>

(* The end of a loop; the sweep then expires old pending proposals. *)
Done(t) ==
    /\ task[t].pc = "next"
    /\ task[t].todo = {}
    /\ prop' = IF t \in Sweepers
               THEN MarkedExpired({p \in Oldest(Pending, task[t].room) : prop[p].late})
               ELSE prop
    /\ Ends(t)
    /\ UNCHANGED <<life, inFlight, moved, patched>>

(* Mutant: a verdict of 'reject' is taken for the state to move to. *)
GateWithoutReject(t) == LET p == task[t].p IN
    /\ task[t].pc = "gate"
    /\ \E want \in IF prop[p].kind = "update" THEN {"evolving"}
                   ELSE {"deprecated", "decaying", "reject"} : Executes(t, p, want)
    /\ UNCHANGED <<life, prop, moved, patched>>

(* The verdict.  On a signal, a proposal that does not pass waits for the  *)
(* next one, unless the recipe has recovered or its sources are being      *)
(* modified; in the sweep it is rejected; executeOne does not ask.         *)
Gate(t) == LET p == task[t].p IN
    /\ task[t].pc = "gate"
    /\ \/ /\ \E want \in IF prop[p].kind = "update" THEN {"evolving"}
                         ELSE IF t \in Manuals THEN {"deprecated"}
                         ELSE {"deprecated", "decaying"} : Executes(t, p, want)
          /\ UNCHANGED prop
       \/ /\ t \in Sweepers
          /\ prop' = MarkedRejected({p}, "gate")
          /\ Proceeds(t)
          /\ UNCHANGED inFlight
       \/ /\ t \in SignalTasks
          /\ \/ UNCHANGED prop
             \/ /\ prop[p].kind = "deprecate"
                /\ prop' = MarkedRejected({p}, "other")
          /\ Proceeds(t)
          /\ UNCHANGED inFlight
    /\ UNCHANGED <<life, moved, patched>>

-----------------------------------------------------------------------------
(***************************************************************************)
(* transition, and what its callers do with the answer.                    *)
(***************************************************************************)
(* Refused: invalid edge, unready content, or no recipe. *)
Admitted(t) == task[t].seen # "gone" /\ IsValidTransition(task[t].seen, task[t].want)

Guard(t) ==
    /\ task[t].pc = "guard"
    /\ Admitted(t)
    /\ Becomes(t, [task[t] EXCEPT !.pc = "write"])
    /\ UNCHANGED <<life, prop, inFlight, moved, patched>>

(* Mutant: a refused execution stays in flight. *)
RefusedStaysInFlight(t) == LET x == task[t] IN
    /\ x.pc = "guard"
    /\ ~Admitted(t) \/ x.want = "active"
    /\ x.stage # "gateway"
    /\ prop' = MarkedRejected({x.p}, IF x.stage = "revert" THEN "other" ELSE "transition")
    /\ Proceeds(t)
    /\ UNCHANGED <<life, inFlight, moved, patched>>

Refused(t) == LET x == task[t] IN
    /\ x.pc = "guard"
    /\ ~Admitted(t) \/ x.want = "active"
    /\ x.stage # "gateway"
    /\ prop' = MarkedRejected({x.p}, IF x.stage = "revert" THEN "other" ELSE "transition")
    /\ Leaves(t)
    /\ Proceeds(t)
    /\ UNCHANGED <<life, moved, patched>>

(* The gateway turns a refused deprecation into a proposal. *)
RefusedGateway(t) ==
    /\ task[t].pc = "guard"
    /\ task[t].stage = "gateway"
    /\ ~Admitted(t)
    /\ IF life[task[t].r] = "gone" THEN UNCHANGED prop ELSE CreateProposal(task[t].r, "deprecate")
    /\ Ends(t)
    /\ UNCHANGED <<life, inFlight, moved, patched>>

Write(t) == LET x == task[t] IN
    /\ x.pc = "write"
    /\ life[x.r] # "gone"
    /\ life' = [life EXCEPT ![x.r] = x.want]
    /\ moved' = IF x.p = "none" THEN moved ELSE [moved EXCEPT ![x.p] = @ \cup {x.want}]
    /\ Becomes(t, [x EXCEPT !.seen = "none",
                            !.pc = IF x.stage = "attach" THEN "patch" ELSE "settle"])
    /\ UNCHANGED <<prop, inFlight, patched>>

(* An exception: the second transition of an update is inside its try, any *)
(* other ends the task and leaves the proposal as it is.                   *)
Throw(t) == LET x == task[t] IN
    /\ x.pc = "write"
    /\ MayThrow \/ life[x.r] = "gone"
    /\ IF x.stage = "complete"
       THEN Calls(t, x.p, x.r, "revert", "active") /\ UNCHANGED inFlight
       ELSE Ends(t) /\ Leaves(t)
    /\ UNCHANGED <<life, prop, moved, patched>>

(* ContentPatcher.applyProposal; whatever it throws counts as skipped. *)
Patch(t) == LET x == task[t] IN
    /\ x.pc = "patch"
    /\ \/ /\ life[x.r] # "gone"
          /\ patched' = patched \cup {x.p}
          /\ Calls(t, x.p, x.r, "complete", "staging")
       \/ /\ Calls(t, x.p, x.r, "complete", "active")
          /\ UNCHANGED patched
    /\ UNCHANGED <<life, prop, inFlight, moved>>

(* Mutant: a merge without a patch counts as executed. *)
OutcomeOfEmptyMerge(x) == CASE x.stage = "revert" -> MarkedRejected({x.p}, "other")
                            [] OTHER -> MarkedExecuted({x.p}, "other")

(* A merge that patched nothing was not executed. *)
Outcome(x) ==
    CASE x.stage = "revert" -> MarkedRejected({x.p}, "other")
      [] x.stage = "complete" /\ x.want = "active" /\ prop[x.p].merge
                            -> MarkedRejected({x.p}, "other")
      [] OTHER              -> MarkedExecuted({x.p}, "other")

Settle(t) ==
    /\ task[t].pc = "settle"
    /\ task[t].stage # "gateway"
    /\ prop' = Outcome(task[t])
    /\ Leaves(t)
    /\ Proceeds(t)
    /\ UNCHANGED <<life, moved, patched>>

-----------------------------------------------------------------------------
(***************************************************************************)
(* ProposalGateway.submit.  A decision that moves no recipe is one step.   *)
(***************************************************************************)
SubmitUpdate(r) == /\ life[r] # "gone"
                   /\ \E kind \in Kinds : CreateProposal(r, kind)
                   /\ UNCHANGED <<life, inFlight, task, moved, patched>>

SubmitValid(r) == /\ life[r] # "gone"
                  /\ prop' = MarkedRejected(FindByTarget(r), "other")
                  /\ UNCHANGED <<life, inFlight, task, moved, patched>>

(* #immediateDeprecate *)
SubmitDeprecate(t) == \E r \in Recipes :
    /\ t \in Gateways
    /\ task[t].pc = "idle"
    /\ life[r] # "gone"
    /\ Calls(t, "none", r, "gateway", "deprecated")
    /\ UNCHANGED <<life, prop, inFlight, moved, patched>>

SettleGateway(t) ==
    /\ task[t].pc = "settle"
    /\ task[t].stage = "gateway"
    /\ prop' = MarkedExecuted({p \in FindByTarget(task[t].r) : prop[p].kind = "deprecate"},
                              "gateway")
    /\ Ends(t)
    /\ UNCHANGED <<life, inFlight, moved, patched>>

-----------------------------------------------------------------------------
(* Users, timeouts and the other sweeps move recipes; deleting one deletes *)
(* its proposals.                                                          *)
Move(r) == /\ Outside
           /\ life[r] # "gone"
           /\ \E state \in ValidTransitions[life[r]] : life' = [life EXCEPT ![r] = state]
           /\ UNCHANGED <<prop, inFlight, task, moved, patched>>

Delete(r) == /\ Outside
             /\ life[r] # "gone"
             /\ life' = [life EXCEPT ![r] = "gone"]
             /\ prop' = [p \in Proposals |-> IF prop[p].target = r
                                             THEN [prop[p] EXCEPT !.status = "deleted"]
                                             ELSE prop[p]]
             /\ UNCHANGED <<inFlight, task, moved, patched>>

Elapse(p) == /\ prop[p].status \in Open
             /\ prop' = [prop EXCEPT ![p].late = TRUE]
             /\ UNCHANGED <<life, inFlight, task, moved, patched>>

Work(t) == \/ TakeNext(t) \/ Done(t) \/ Gate(t) \/ Guard(t) \/ Refused(t) \/ RefusedGateway(t)
           \/ Write(t) \/ Throw(t) \/ Patch(t) \/ Settle(t) \/ SettleGateway(t)

Next == \/ \E t \in Tasks : \/ OnSignal(t) \/ CheckAndExecute(t) \/ ExecuteOne(t)
                            \/ SubmitDeprecate(t) \/ Work(t)
        \/ \E r \in Recipes : SubmitUpdate(r) \/ SubmitValid(r) \/ Move(r) \/ Delete(r)
        \/ \E p \in Proposals : Elapse(p)

Spec == Init /\ [][Next]_vars

(* Started tasks run on and time passes.  Nobody has to come: no signal,   *)
(* user or gateway, and no sweep either, which a host calls when it starts *)
(* and its users from the command line.                                    *)
Fairness == /\ \A t \in Tasks : WF_vars(Work(t))
            /\ \A p \in Proposals : WF_vars(Elapse(p))
FairSpec == Spec /\ Fairness

-----------------------------------------------------------------------------
Proposal == [status : Statuses, kind : Kinds, target : Recipes \cup {"none"},
             merge : BOOLEAN, late : BOOLEAN, nth : Nat, why : Whys]
Task == [pc : {"idle", "next", "gate", "guard", "write", "patch", "settle"},
         todo : SUBSET Proposals, p : Proposals \cup {"none"}, r : Recipes \cup {"none"},
         want : {"none", "evolving", "staging", "active", "decaying", "deprecated"},
         seen : States \cup {"none", "gone"},
         stage : {"none", "attach", "complete", "revert", "deprecate", "gateway"},
         room : Int]

TypeOK == /\ life \in [Recipes -> States \cup {"gone"}]
          /\ prop \in [Proposals -> Proposal]
          /\ inFlight \subseteq Proposals
          /\ task \in [Tasks -> Task]
          /\ moved \in [Proposals -> SUBSET States]
          /\ patched \subseteq Proposals

(* A recipe never has two open proposals of a kind, whoever submits and    *)
(* whatever is executing (ProposalRepository: dedup on pending/observing). *)
NoDuplicates ==
    \A p, q \in Proposals :
        (p # q /\ prop[p].status \in Open /\ prop[q].status \in Open
            /\ prop[p].kind = prop[q].kind) => prop[p].target # prop[q].target

(* Whatever races it, a decision on a proposal is final. *)
DecisionsAreFinal ==
    [][\A p \in Proposals : prop[p].status \in {"executed", "rejected", "expired"}
         => prop'[p].status \in {prop[p].status, "deleted"}]_vars

(* A proposal is marked executed only if its execution moved the recipe    *)
(* all the way, and a merge only if it changed the content; or the gateway *)
(* deprecated the recipe for it.                                           *)
ExecutedMeansDone ==
    \A p \in Proposals : prop[p].status = "executed" =>
        \/ prop[p].why = "gateway" /\ prop[p].kind = "deprecate"
        \/ /\ prop[p].kind = "update"
           /\ "evolving" \in moved[p]
           /\ IF prop[p].merge THEN "staging" \in moved[p] /\ p \in patched
              ELSE moved[p] \cap {"staging", "active"} # {}
        \/ prop[p].kind = "deprecate" /\ moved[p] \cap {"deprecated", "decaying"} # {}

Executing(t) == IF task[t].pc \in {"guard", "write", "patch", "settle"} THEN {task[t].p} ELSE {}

(* Nothing stays in flight after its execution, however that ends: a       *)
(* leaked entry would hide a proposal from signals and sweeps for ever.    *)
NothingLeaksInFlight == inFlight \subseteq UNION {Executing(t) : t \in Tasks}

(* The policy's verdict never ends an update inside its observation window *)
(* (checkAndExecute: the sweep after a rescan rejected proposals 32 s old).*)
YoungUpdatesAreNotJudged ==
    [][\A p \in Proposals :
         (prop[p].status = "observing" /\ prop'[p].why = "gate" /\ prop[p].why # "gate")
         => prop[p].late]_vars

(* A proposal that is being executed is not rejected because another task  *)
(* executes it too (#inFlight: a second active -> evolving is invalid and  *)
(* would mark the executed proposal rejected).                             *)
NotRejectedByDoubleExecution ==
    [][\A t \in Tasks : LET p == task[t].p IN
         (Refused(t) /\ task[t].stage = "attach" /\ task[t].seen = "evolving")
         => \A u \in Tasks \ {t} : p \notin Executing(u)]_vars

(* As long as the sweep is called again, with whatever cap, every observed *)
(* proposal is decided and every pending one is decided or expires: those  *)
(* that use up the cap without being due starve nobody for ever ("oldest   *)
(* first, drained over several ticks": checkAndExecute).                   *)
ProposalsAreDecided ==
    (\A t \in Sweepers : []<>(task[t].pc # "idle")) =>
        \A p \in Proposals : (prop[p].status \in Open) ~> (prop[p].status \notin Open)
=============================================================================
