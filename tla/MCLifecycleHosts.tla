------------------------- MODULE MCLifecycleHosts -------------------------
(***************************************************************************)
(* Instances of LifecycleHosts for TLC.                                    *)
(*                                                                         *)
(* A behaviour has one of two casts: one host that has the store to        *)
(* itself, so that no two operations overlap, and runs every operation     *)
(* without end ("alone"), or several hosts with some operations, at most   *)
(* MaxTurns of them, the first a user's and alone, the others overlapping  *)
(* ("race").  In both every write may fail.                                *)
(***************************************************************************)
EXTENDS LifecycleHosts

CONSTANTS Others,    \* all hosts but one
          MaxTurns   \* bound: the operations begun in "race"

ASSUME CastAssumption == \E h \in Hosts : Others = Hosts \ {h}

VARIABLES cast, turns

AllUserOps == DOMAIN UserTarget
(* One that publishes, one that leaves a sustain state behind. *)
SomeUserOps == {"publish", "decay"}

Alone == /\ cast = "alone" /\ UNCHANGED <<cast, turns>>
         /\ Tick \/ \E h \in Hosts \ Others : HostNext(h)
(* The hosts are alike: the first that works may be the one chosen. *)
Race == /\ cast = "race" /\ UNCHANGED cast
        /\ Tick \/ \E h \in IF turns = 0 THEN Hosts \ Others ELSE Hosts : HostNext(h)
        /\ turns' = IF \E h \in Hosts : Idle(h) /\ ~Idle(h)' THEN turns + 1 ELSE turns
        /\ turns' <= MaxTurns
        /\ turns = 0 /\ turns' = 1 => \E h \in Hosts : job'[h].op = "user"
        /\ turns = 1 /\ turns' = 2 => \A h \in Hosts : Idle(h)
        /\ \A h \in Hosts : job'[h].op = "user" => job'[h].arg \in SomeUserOps

CastInit == Init /\ cast \in {"alone", "race"} /\ turns = 0
CastNext == Alone \/ Race
CastSpec == CastInit /\ [][CastNext]_<<vars, cast, turns>>

(* No operation reads a file, and no property the one of a recipe that is  *)
(* known to diverge, nor the time of an update that is in the row only; of *)
(* a cause, RecipeLifecycle asks only whether it is the sweep's promotion: *)
(* states that differ in the rest are one.                                 *)
HostsView == <<cast, turns, stored, row, {r \in Recipes : cause[r] = "grace-period-expire"},
               used, diverged, pc, job, seen, new, sweep, jobs, verified \ diverged,
               disk \ diverged,
               [r \in Recipes \ diverged |->
                  IF r \in verified THEN [file[r] EXCEPT !.age = 0] ELSE file[r]]>>

Atomic == INSTANCE RecipeLifecycle

(* Operations that do not overlap implement RecipeLifecycle: each of them, *)
(* with its reads, its file and its row, is one step of it, or none if a   *)
(* write fails.  (An execution the executor starts in the emission of a    *)
(* transition overlaps with it.)                                           *)
ImplementsLifecycle == /\ cast = "alone" => Atomic!Init
                       /\ [][cast = "alone" => Atomic!Next]_<<stored, row, cause>>

(* They leave no file that says something else than the row, but where     *)
(* they said so (NoSilentDivergence).                                      *)
AloneLeavesNoDivergence == cast = "alone" => NoSilentDivergence
=============================================================================
