----------------------------- MODULE Lifecycle -----------------------------
(***************************************************************************)
(* What the lifecycle keeps in a recipe's row, and how the lifecycle state *)
(* machine changes it (domain/knowledge/KnowledgeEntry.ts, service/        *)
(* sustain/LifecycleStateMachine.ts).                                      *)
(*                                                                         *)
(* A timestamp is kept as the time elapsed since it was taken, and a       *)
(* deadline as the time left to it: the code only ever compares a          *)
(* timestamp with the current time.  An elapsed time stops growing at      *)
(* MaxAge, which is past every timeout, so a comparison with a timeout is  *)
(* exact for ever and time needs no bound.                                 *)
(***************************************************************************)
EXTENDS Integers, LifecycleTable

CONSTANTS Graces,           \* the grace periods the ConfidenceRouter hands out
          EvolvingTimeout,  \* TIMEOUT_MS.evolving, 7 days
          DecayTimeout,     \* TIMEOUT_MS.decaying, 30 days
          PendingTimeout,   \* TIMEOUT_MS.pending, 30 days
          MaxAge            \* where an elapsed time stops growing

ASSUME TimeAssumption ==
    /\ MaxAge \in Nat
    /\ \A t \in {EvolvingTimeout, DecayTimeout, PendingTimeout} :
           t \in Nat /\ t < MaxAge
    /\ Graces # {}
    /\ \A g \in Graces : g \in Nat /\ 0 < g /\ g <= MaxAge

-----------------------------------------------------------------------------
(***************************************************************************)
(* A row of knowledge_entries, as far as the lifecycle reads it.           *)
(***************************************************************************)
Unset == -1                     \* a timestamp or deadline that is null or absent
Elapsed == 0 .. MaxAge
Verdicts == {"none", "pass", "fail"}

Row == [lifecycle   : States,
        deadline    : {Unset} \cup Elapsed,  \* time left to stagingDeadline; 0: due
        auto        : BOOLEAN,               \* autoApprovable
        review      : Verdicts,              \* stats.stagingReview.outcome
        ready       : BOOLEAN,               \* retrieval readiness of the content
        evolvingAge : {Unset} \cup Elapsed,  \* since stats.evolvingStartedAt
        decayAge    : {Unset} \cup Elapsed,  \* since stats.decayStartedAt
        age         : Elapsed,               \* since updatedAt
        stint       : Elapsed]               \* since the last lifecycle change: its
                                             \* lifecycleHistory / TransitionEvent time

NewRow(state, deadline, auto, ready) ==
    [lifecycle |-> state, deadline |-> deadline, auto |-> auto, review |-> "none",
     ready |-> ready, evolvingAge |-> Unset, decayAge |-> Unset, age |-> 0, stint |-> 0]

(* Mutant: a change restarts the clocks of the state it happens in. *)
TouchedRestartingClocks(x) ==
    [x EXCEPT !.age = 0, !.evolvingAge = IF @ = Unset THEN @ ELSE 0,
              !.decayAge = IF @ = Unset THEN @ ELSE 0]

(* Every persisted change stamps updatedAt. *)
Touched(x) == [x EXCEPT !.age = 0]
Moved(x, state) == [Touched(x) EXCEPT !.lifecycle = state, !.stint = 0]

(* Mutants: time without a ceiling; an expired deadline read as none. *)
OlderForEver(a) == IF a = Unset THEN a ELSE a + 1
SoonerToUnset(d) == IF d = Unset THEN d ELSE d - 1

Older(a) == IF a \in 0 .. MaxAge - 1 THEN a + 1 ELSE a
Sooner(d) == IF d > 0 THEN d - 1 ELSE d
Aged(x) == [x EXCEPT !.deadline = Sooner(@), !.evolvingAge = Older(@),
                     !.decayAge = Older(@), !.age = Older(@), !.stint = Older(@)]

-----------------------------------------------------------------------------
(***************************************************************************)
(* LifecycleStateMachine.transition: the guard, and the row it persists.   *)
(* A recipe that is a guard or a boundary constraint is exempt from the    *)
(* readiness gate.                                                         *)
(***************************************************************************)
Admits(x, exempt, target) ==
    /\ IsValidTransition(x.lifecycle, target)
    /\ target = "active" => exempt \/ x.ready

(* Mutant: the entry time of a first stint is kept for good. *)
MachineStatsKeepingEntry(x, target) ==
    [evolvingAge |-> IF target = "evolving" /\ x.evolvingAge = Unset THEN 0 ELSE x.evolvingAge,
     decayAge    |-> IF target = "decaying" /\ x.decayAge = Unset THEN 0 ELSE x.decayAge,
     review      |-> x.review]

(* The stats are computed from the row that was read when the guard was    *)
(* evaluated, and laid over the row that is current when they are written. *)
MachineStats(x, target) ==
    [evolvingAge |-> CASE target = "evolving" -> 0
                       [] target = "active"   -> Unset
                       [] OTHER               -> x.evolvingAge,
     decayAge    |-> CASE target = "decaying" -> 0
                       [] target = "active"   -> Unset
                       [] OTHER               -> x.decayAge,
     review      |-> x.review]

WithStats(x, s) == [x EXCEPT !.evolvingAge = s.evolvingAge,
                             !.decayAge = s.decayAge, !.review = s.review]

MachineRow(read, current, target) ==
    Moved(WithStats(current, MachineStats(read, target)), target)

(* checkTimeouts: the target of a state that can time out, and the age     *)
(* the timeout is compared with (#getRecipeAge when no entry time is kept).*)
TimeoutTarget == [evolving |-> "active", decaying |-> "deprecated", pending |-> "deprecated"]

(* Mutants: the entry time of the state is ignored; it is another state's. *)
StateAgeFromUpdate(x) == x.age
StateAgeFromEvolving(x) == IF x.evolvingAge # Unset THEN x.evolvingAge ELSE x.age

StateAge(x) ==
    CASE x.lifecycle = "evolving" /\ x.evolvingAge # Unset -> x.evolvingAge
      [] x.lifecycle = "decaying" /\ x.decayAge # Unset    -> x.decayAge
      [] OTHER                                         -> x.age

Timeout(state) == CASE state = "evolving" -> EvolvingTimeout
                    [] state = "decaying" -> DecayTimeout
                    [] OTHER              -> PendingTimeout

TimedOut(x) == /\ x.lifecycle \in DOMAIN TimeoutTarget
               /\ StateAge(x) > Timeout(x.lifecycle)

(* checkAndPromote: an entry that is due.  A deadline that is not set      *)
(* never falls due.                                                        *)
Due(x) == x.lifecycle = "staging" /\ x.deadline = 0 /\ x.auto

(* The lifecycle methods of KnowledgeEntry, by the state they move to.     *)
UserTarget == [publish |-> "active", deprecate |-> "deprecated", reactivate |-> "pending",
               stage |-> "staging", evolve |-> "evolving", decay |-> "decaying",
               restore |-> "active"]
=============================================================================
