-------------------------- MODULE RecipeLifecycle --------------------------
(***************************************************************************)
(* The lifecycle of recipes as its operations promise it: one step per     *)
(* persisted change, the read that justified it included.  This is what    *)
(* the handlers do when nothing else runs between their awaits;            *)
(* LifecycleHosts models the awaits and implements this module as long as  *)
(* no two operations overlap.                                              *)
(*                                                                         *)
(* Three kinds of code move a recipe:                                      *)
(*   - LifecycleStateMachine.transition, on behalf of the proposal         *)
(*     executor, the gateway, the decay detector, the timeout sweep and    *)
(*     the staging sweep;                                                  *)
(*   - StagingManager, which enters and rolls back staging by itself;      *)
(*   - KnowledgeService, on behalf of a user.                              *)
(***************************************************************************)
EXTENDS Lifecycle

CONSTANTS Recipes,   \* the recipe ids
          Exempt,    \* the recipes whose content is a guard or boundary constraint
          UserOps    \* the lifecycle methods of KnowledgeService the host exposes

ASSUME RecipesAssumption == /\ Exempt \subseteq Recipes
                            /\ UserOps \subseteq DOMAIN UserTarget

VARIABLES stored,    \* the recipes that exist
          row,       \* their rows
          cause      \* what last changed a recipe's lifecycle: the trigger of its last
                     \* TransitionEvent, StagingManager's signal, or "user"

vars == <<stored, row, cause>>

Triggers == {"proposal-attach", "content-patch-complete", "proposal-execution",
             "evolution-gateway", "decay-detection", "timeout-recovery",
             "grace-period-expire"}
Causes == Triggers \cup {"created", "enter_staging", "staging_rollback", "user"}

Blank == NewRow("pending", Unset, FALSE, FALSE)

Init == /\ stored = {}
        /\ row = [r \in Recipes |-> Blank]
        /\ cause = [r \in Recipes |-> "created"]

Put(r, x, why) == /\ row' = [row EXCEPT ![r] = x]
                  /\ cause' = [cause EXCEPT ![r] = why]
                  /\ UNCHANGED stored

-----------------------------------------------------------------------------
(***************************************************************************)
(* KnowledgeService.                                                       *)
(***************************************************************************)
(* create: the ConfidenceRouter sends a recipe to staging with a grace     *)
(* period, to pending, or straight to deprecated.                          *)
Create(r) ==
    /\ r \notin stored
    /\ stored' = stored \cup {r}
    /\ cause' = [cause EXCEPT ![r] = "created"]
    /\ \E ready \in BOOLEAN :
         \/ \E g \in Graces : row' = [row EXCEPT ![r] = NewRow("staging", g, TRUE, ready)]
         \/ \E state \in {"pending", "deprecated"}, auto \in BOOLEAN :
              row' = [row EXCEPT ![r] = NewRow(state, Unset, auto, ready)]

(* update: content only; the new content may gain or lose readiness.       *)
UpdateContent(r) ==
    /\ r \in stored
    /\ \E ready \in BOOLEAN : Put(r, [Touched(row[r]) EXCEPT !.ready = ready], cause[r])

(* incrementUsage, updateQuality and the gateway's decision "valid": a     *)
(* counter, a score or a date, and updatedAt.                              *)
Use(r) == r \in stored /\ Put(r, Touched(row[r]), cause[r])

Delete(r) ==
    /\ r \in stored
    /\ stored' = stored \ {r}
    /\ row' = [row EXCEPT ![r] = Blank]
    /\ cause' = [cause EXCEPT ![r] = "created"]

(* publish, deprecate, reactivate, stage, evolve, decay, restore: no stats *)
(* and no deadline are written.                                            *)
UserTransition(r, op) ==
    /\ op \in UserOps
    /\ r \in stored
    /\ IsValidTransition(row[r].lifecycle, UserTarget[op])
    /\ op \in {"publish", "restore"} => r \in Exempt \/ row[r].ready
    /\ Put(r, Moved(row[r], UserTarget[op]), "user")

-----------------------------------------------------------------------------
(***************************************************************************)
(* LifecycleStateMachine and its callers.                                  *)
(***************************************************************************)
Transition(r, target, trigger) ==
    /\ r \in stored
    /\ Admits(row[r], r \in Exempt, target)
    /\ Put(r, MachineRow(row[r], row[r], target), trigger)

(* ProposalExecutor: an update proposal is attached, then its patch is     *)
(* applied (staging) or skipped (active); an execution that throws reverts.*)
(* Others may have moved the recipe between these calls.                   *)
AttachProposal(r) == Transition(r, "evolving", "proposal-attach")
CompletePatch(r)  == \E target \in {"staging", "active"} :
                         Transition(r, target, "content-patch-complete")
RevertUpdate(r)   == Transition(r, "active", "timeout-recovery")
ExecuteDeprecate(r) == \E target \in {"deprecated", "decaying"} :
                           Transition(r, target, "proposal-execution")

GatewayDeprecate(r) == Transition(r, "deprecated", "evolution-gateway")

(* DecayDetector.scanAll looks at active recipes only.                     *)
DetectDecay(r) == /\ row[r].lifecycle = "active"
                  /\ Transition(r, "decaying", "decay-detection")

(* checkTimeouts, for one recipe of the sweep. *)
CheckTimeout(r) == /\ r \in stored
                   /\ TimedOut(row[r])
                   /\ Transition(r, TimeoutTarget[row[r].lifecycle], "timeout-recovery")

-----------------------------------------------------------------------------
(***************************************************************************)
(* StagingManager.                                                         *)
(***************************************************************************)
(* Mutant: a deadline that is there is kept. *)
EnterStagingAgain(r) ==
    /\ r \in stored
    /\ row[r].lifecycle = "pending"
    /\ \E g \in Graces :
         Put(r, [Moved(row[r], "staging") EXCEPT !.deadline = IF @ = Unset THEN g ELSE @],
             "enter_staging")
EnterStaging(r) ==
    /\ r \in stored
    /\ row[r].lifecycle = "pending"
    /\ \E g \in Graces :
         Put(r, [Moved(row[r], "staging") EXCEPT !.deadline = g], "enter_staging")

(* Mutant: from any state. *)
RollbackFromAnywhere(r) ==
    r \in stored /\ Put(r, [Moved(row[r], "pending") EXCEPT !.deadline = Unset], "staging_rollback")

Rollback(r) ==
    /\ r \in stored
    /\ row[r].lifecycle = "staging"
    /\ Put(r, [Moved(row[r], "pending") EXCEPT !.deadline = Unset], "staging_rollback")

RecordReview(r) ==
    /\ r \in stored
    /\ row[r].lifecycle = "staging"
    /\ \E v \in {"pass", "fail"} :
         Put(r, [Touched(row[r]) EXCEPT !.review = v], cause[r])

(* #promote: the transition, and the publish metadata that follow it in a  *)
(* write of their own, unless that write fails.                            *)
Promote(r) ==
    /\ Admits(row[r], r \in Exempt, "active")
    /\ Put(r, MachineRow(row[r], row[r], "active"), "grace-period-expire")
Published(r) ==
    /\ r \in stored
    /\ row[r].lifecycle = "active" /\ cause[r] = "grace-period-expire"
    /\ Put(r, [Touched(row[r]) EXCEPT !.deadline = Unset], cause[r])

(* checkAndPromote, for one entry of the sweep: a due entry is promoted    *)
(* unless its review failed, then it is rolled back.                       *)
CheckStaging(r) ==
    /\ r \in stored
    /\ Due(row[r])
    /\ \/ row[r].review = "fail" /\ Rollback(r)
       \/ row[r].review # "fail" /\ Promote(r)

-----------------------------------------------------------------------------
Tick == /\ row' = [r \in Recipes |-> IF r \in stored THEN Aged(row[r]) ELSE row[r]]
        /\ UNCHANGED <<stored, cause>>

Service(r) == \/ Create(r) \/ UpdateContent(r) \/ Use(r) \/ Delete(r)
              \/ \E op \in UserOps : UserTransition(r, op)
Machine(r) == \/ AttachProposal(r) \/ CompletePatch(r) \/ RevertUpdate(r)
              \/ ExecuteDeprecate(r) \/ GatewayDeprecate(r) \/ DetectDecay(r)
              \/ CheckTimeout(r)
Staging(r) == EnterStaging(r) \/ Rollback(r) \/ RecordReview(r) \/ CheckStaging(r) \/ Published(r)

Next == Tick \/ \E r \in Recipes : Service(r) \/ Machine(r) \/ Staging(r)

Spec == Init /\ [][Next]_vars

(* The hosts run both sweeps again and again, and time passes; nobody has  *)
(* to use, review, propose or decide anything.                             *)
Fairness == /\ WF_vars(Tick)
            /\ \A r \in Recipes : WF_vars(CheckTimeout(r)) /\ WF_vars(CheckStaging(r))
FairSpec == Spec /\ Fairness

-----------------------------------------------------------------------------
TypeOK == /\ stored \subseteq Recipes
          /\ row \in [Recipes -> Row]
          /\ cause \in [Recipes -> Causes]

(* No clock that is kept of a stint in a state runs behind the stint:      *)
(* whatever is done to a recipe, a grace period, and a timeout counted     *)
(* from an entry time, may be cut short, they are never prolonged          *)
(* (LifecycleStateMachine.checkTimeouts, StagingManager.checkAndPromote).  *)
(* Without an entry time, as after a user's evolve() or decay(), the       *)
(* timeout counts from the last update (#getRecipeAge), and every use and  *)
(* every update of the recipe prolongs it.                                 *)
DecayClockNeverBehind ==
    \A r \in stored : LET x == row[r] IN
        x.lifecycle = "decaying" /\ x.decayAge # Unset => x.decayAge >= x.stint
EvolvingClockNeverBehind ==
    \A r \in stored : LET x == row[r] IN
        x.lifecycle = "evolving" /\ x.evolvingAge # Unset => x.evolvingAge >= x.stint
DeadlineNeverBehind ==
    \A r \in stored : LET x == row[r] IN
        x.lifecycle = "staging" /\ x.deadline > 0 =>
            \E g \in Graces : x.deadline + x.stint <= g
ClocksNeverBehind == DecayClockNeverBehind /\ EvolvingClockNeverBehind /\ DeadlineNeverBehind

(* A recipe the machine put in decay is deprecated by the timeout only     *)
(* after the whole observation period in that state (Lifecycle.ts: "30d    *)
(* Grace"), whatever users did to it before.                               *)
DecayGraceHonoured ==
    [][\A r \in stored \cap stored' :
         (row[r].lifecycle = "decaying" /\ row'[r].lifecycle = "deprecated"
              /\ cause'[r] = "timeout-recovery" /\ cause[r] # "user")
         => row[r].stint > DecayTimeout]_vars
(* As documented, every decay lasts the observation period.                *)
EveryDecayGraceHonoured ==
    [][\A r \in stored \cap stored' :
         (row[r].lifecycle = "decaying" /\ row'[r].lifecycle = "deprecated"
              /\ cause'[r] = "timeout-recovery")
         => row[r].stint > DecayTimeout]_vars

(* The clock of a state the machine put a recipe in starts with the stint, *)
(* were the recipe in that state before and left it by a user's method     *)
(* that forgets the clock: checkTimeouts never takes an old stint for the  *)
(* present one.                                                            *)
EvolvingClockIsStint ==
    \A r \in stored : row[r].lifecycle = "evolving" /\ cause[r] # "user"
                     => row[r].evolvingAge = row[r].stint
DecayClockIsStint ==
    \A r \in stored : row[r].lifecycle = "decaying" /\ cause[r] # "user"
                     => row[r].decayAge = row[r].stint

(* The sweep publishes a recipe the service or StagingManager put in       *)
(* staging only after it spent a whole grace period there ("deadline       *)
(* reached and no objection"), whatever deadline an earlier stay left.     *)
PromotedAfterGrace ==
    [][\A r \in stored \cap stored' :
         (row[r].lifecycle = "staging" /\ row'[r].lifecycle = "active"
              /\ cause'[r] = "grace-period-expire"
              /\ cause[r] \in {"created", "enter_staging"})
         => \E g \in Graces : row[r].stint >= g]_vars

(* Whoever moves it, a recipe moves along an edge of the transition table  *)
(* and becomes active only when retrieval can serve it.                    *)
MovesAreAdmitted ==
    [][\A r \in stored \cap stored' :
         row'[r].lifecycle # row[r].lifecycle
         => Admits(row[r], r \in Exempt, row'[r].lifecycle)]_vars

(* The sweeps empty the states they watch, whatever else happens.          *)
DecayEnds ==
    \A r \in Recipes : (r \in stored /\ row[r].lifecycle = "decaying"
                            /\ row[r].decayAge # Unset)
                       ~> (row[r].lifecycle # "decaying")
CanPublish(r) == r \in Exempt \/ row[r].ready
EvolvingEnds ==
    \A r \in Recipes : ((row[r].lifecycle = "evolving" /\ row[r].evolvingAge # Unset)
                       /\ []CanPublish(r)) ~> (row[r].lifecycle # "evolving")
StagingWithDeadlineEnds ==
    \A r \in Recipes : ((row[r].lifecycle = "staging" /\ row[r].deadline # Unset
                              /\ row[r].auto) /\ []CanPublish(r))
                       ~> (row[r].lifecycle # "staging")
(* As documented, staging lasts a grace period and then becomes active.    *)
StagingEnds ==
    \A r \in Recipes : ((row[r].lifecycle = "staging" /\ row[r].auto) /\ []CanPublish(r))
                       ~> (row[r].lifecycle # "staging")
=============================================================================
