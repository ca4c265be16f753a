----------------------- MODULE RecipeLifecycle_proofs -----------------------
(***************************************************************************)
(* Theorems about RecipeLifecycle, for any set of recipes, any timeouts    *)
(* and any surface of user operations.                                     *)
(***************************************************************************)
EXTENDS RecipeLifecycle, TLAPS

-----------------------------------------------------------------------------
(* The row operators stay within Row.                                      *)

(* Time passing keeps an elapsed time within its bound. *)
LEMMA OlderType == ASSUME NEW a \in {Unset} \cup Elapsed
                   PROVE  /\ Older(a) \in {Unset} \cup Elapsed
                          /\ a \in Elapsed => Older(a) \in Elapsed
BY TimeAssumption DEF Older, Unset, Elapsed

(* Time passing keeps a deadline within its bound. *)
LEMMA SoonerType == ASSUME NEW d \in {Unset} \cup Elapsed
                    PROVE  Sooner(d) \in {Unset} \cup Elapsed
BY TimeAssumption DEF Sooner, Unset, Elapsed

(* A row that ages is a row. *)
LEMMA AgedType == ASSUME NEW x \in Row PROVE Aged(x) \in Row
BY OlderType, SoonerType DEF Aged, Row

(* A row that is stamped or moved is a row. *)
LEMMA TouchedType == ASSUME NEW x \in Row PROVE Touched(x) \in Row
<1>1. 0 \in Elapsed BY TimeAssumption DEF Elapsed
<1> QED BY <1>1 DEF Touched, Row

(* A row that changes state is a row. *)
LEMMA MovedType == ASSUME NEW x \in Row, NEW s \in States PROVE Moved(x, s) \in Row
<1>1. 0 \in Elapsed BY TimeAssumption DEF Elapsed
<1> QED BY <1>1, TouchedType DEF Moved, Row

(* What transition persists is a row. *)
LEMMA MachineRowType == ASSUME NEW x \in Row, NEW y \in Row, NEW s \in States
                        PROVE  MachineRow(x, y, s) \in Row
<1>1. /\ MachineStats(x, s).evolvingAge \in {Unset} \cup Elapsed
      /\ MachineStats(x, s).decayAge \in {Unset} \cup Elapsed
      /\ MachineStats(x, s).review \in Verdicts
  BY TimeAssumption DEF MachineStats, Row, Elapsed
<1>2. WithStats(y, MachineStats(x, s)) \in Row
  BY <1>1 DEF WithStats, Row
<1> QED BY <1>2, MovedType DEF MachineRow

(* A created recipe has a row. *)
LEMMA NewRowType == ASSUME NEW s \in States, NEW d \in {Unset} \cup Elapsed,
                           NEW a \in BOOLEAN, NEW b \in BOOLEAN
                    PROVE  NewRow(s, d, a, b) \in Row
BY TimeAssumption DEF NewRow, Row, Elapsed, Verdicts, Unset

(* A grace period is a deadline. *)
LEMMA GraceType == ASSUME NEW g \in Graces PROVE g \in Elapsed /\ g > 0
BY TimeAssumption DEF Elapsed

(* The edges of the table end in a state. *)
LEMMA EdgeType == ASSUME NEW s \in States, NEW t, IsValidTransition(s, t)
                  PROVE  t \in States
BY DEF IsValidTransition, ValidTransitions, States

-----------------------------------------------------------------------------
(* A step that puts a row and a cause keeps the types. *)
LEMMA PutType == ASSUME TypeOK, NEW r \in Recipes, NEW x \in Row, NEW why \in Causes,
                        Put(r, x, why)
                 PROVE  TypeOK'
BY DEF TypeOK, Put

(* So does every transition of the machine. *)
LEMMA TransitionType == ASSUME TypeOK, NEW r \in Recipes, NEW s, NEW why \in Causes,
                               Transition(r, s, why)
                        PROVE  TypeOK'
<1>1. row[r] \in Row /\ row[r].lifecycle \in States BY DEF TypeOK, Row
<1>2. s \in States BY <1>1, EdgeType DEF Transition, Admits
<1>3. MachineRow(row[r], row[r], s) \in Row BY <1>1, <1>2, MachineRowType
<1> QED BY <1>3, PutType DEF Transition

(* Every row stays a row, every cause a known one. *)
THEOREM TypeCorrect == Spec => []TypeOK
<1>1. Init => TypeOK
  BY NewRowType DEF Init, TypeOK, Blank, States, Causes, Unset
<1>2. TypeOK /\ [Next]_vars => TypeOK'
  <2> SUFFICES ASSUME TypeOK, [Next]_vars PROVE TypeOK'
    OBVIOUS
  <2> USE DEF Causes, Triggers
  <2>1. CASE UNCHANGED vars
    BY <2>1 DEF TypeOK, vars
  <2>2. CASE Tick
    BY <2>2, AgedType DEF Tick, TypeOK
  <2>3. ASSUME NEW r \in Recipes, Service(r) PROVE TypeOK'
    <3>0. row[r] \in Row BY DEF TypeOK
    <3>1. CASE Create(r)
      <4>1. \E x \in Row : row' = [row EXCEPT ![r] = x]
        BY <3>1, NewRowType, GraceType DEF Create, States, Unset
      <4> QED BY <3>1, <4>1 DEF Create, TypeOK
    <3>2. CASE UpdateContent(r)
      <4>1. ASSUME NEW b \in BOOLEAN PROVE [Touched(row[r]) EXCEPT !.ready = b] \in Row
        BY <3>0, TouchedType DEF Row
      <4> QED BY <3>2, <4>1, PutType DEF UpdateContent, TypeOK
    <3>3. CASE Use(r)
      BY <3>0, <3>3, TouchedType, PutType DEF Use, TypeOK
    <3>4. CASE Delete(r)
      <4>1. Blank \in Row BY NewRowType DEF Blank, States, Unset
      <4> QED BY <3>4, <4>1 DEF Delete, TypeOK
    <3>5. ASSUME NEW op \in UserOps, UserTransition(r, op) PROVE TypeOK'
      <4>1. UserTarget[op] \in States
        BY <3>0, <3>5, EdgeType DEF UserTransition, Row
      <4> QED BY <3>0, <3>5, <4>1, MovedType, PutType DEF UserTransition
    <3> QED BY <2>3, <3>1, <3>2, <3>3, <3>4, <3>5 DEF Service
  <2>4. ASSUME NEW r \in Recipes, Machine(r) PROVE TypeOK'
    BY <2>4, TransitionType DEF Machine, AttachProposal, CompletePatch, RevertUpdate,
         ExecuteDeprecate, GatewayDeprecate, DetectDecay, CheckTimeout
  <2>5. ASSUME NEW r \in Recipes, Staging(r) PROVE TypeOK'
    <3>0. row[r] \in Row BY DEF TypeOK
    <3>1. CASE EnterStaging(r)
      <4>1. Moved(row[r], "staging") \in Row BY <3>0, MovedType DEF States
      <4>2. ASSUME NEW g \in Graces
            PROVE  [Moved(row[r], "staging") EXCEPT !.deadline = g] \in Row
        BY <4>1, GraceType DEF Row
      <4> QED BY <3>1, <4>2, PutType DEF EnterStaging
    <3>2. CASE Rollback(r)
      <4>1. Moved(row[r], "pending") \in Row BY <3>0, MovedType DEF States
      <4>2. [Moved(row[r], "pending") EXCEPT !.deadline = Unset] \in Row
        BY <4>1 DEF Row
      <4> QED BY <3>2, <4>2, PutType DEF Rollback
    <3>3. CASE RecordReview(r)
      <4>1. ASSUME NEW v \in Verdicts PROVE [Touched(row[r]) EXCEPT !.review = v] \in Row
        BY <3>0, TouchedType DEF Row
      <4> QED BY <3>3, <4>1, PutType DEF RecordReview, TypeOK, Verdicts
    <3>4. CASE Promote(r)
      <4>1. MachineRow(row[r], row[r], "active") \in Row
        BY <3>0, MachineRowType DEF States
      <4> QED BY <3>4, <4>1, PutType DEF Promote, Causes, Triggers
    <3>5. CASE Published(r)
      <4>1. [Touched(row[r]) EXCEPT !.deadline = Unset] \in Row
        BY <3>0, TouchedType DEF Row
      <4> QED BY <3>5, <4>1, PutType DEF Published, TypeOK
    <3> QED BY <2>5, <3>1, <3>2, <3>3, <3>4, <3>5 DEF Staging, CheckStaging
  <2> QED BY <2>1, <2>2, <2>3, <2>4, <2>5 DEF Next
<1> QED BY <1>1, <1>2, PTL DEF Spec
-----------------------------------------------------------------------------
(***************************************************************************)
(* What a step can do to one recipe: the cases every proof below goes      *)
(* through.                                                                *)
(***************************************************************************)
Same(r)    == r \in stored /\ row'[r] = row[r] /\ cause'[r] = cause[r]
Ages(r)    == r \in stored /\ row'[r] = Aged(row[r]) /\ cause'[r] = cause[r]
Gone(r)    == r \notin stored'
Created(r) == r \notin stored /\
    \/ \E g \in Graces, b \in BOOLEAN : row'[r] = NewRow("staging", g, TRUE, b)
    \/ \E s \in {"pending", "deprecated"}, a, b \in BOOLEAN :
          row'[r] = NewRow(s, Unset, a, b)
Edited(r)  == /\ r \in stored
              /\ cause'[r] = cause[r]
              /\ row'[r].lifecycle = row[r].lifecycle
              /\ row'[r].stint = row[r].stint
              /\ \/ row'[r].deadline = row[r].deadline
                 \/ row'[r].deadline = Unset /\ cause[r] = "grace-period-expire"
              /\ row'[r].evolvingAge = row[r].evolvingAge
              /\ row'[r].decayAge = row[r].decayAge
ByUser(r)  == r \in stored /\ \E op \in UserOps : UserTransition(r, op)
ByMachine(r) ==
    /\ r \in stored
    /\ cause'[r] \in Triggers \ {"grace-period-expire"}
    /\ \E s \in States : /\ Admits(row[r], r \in Exempt, s)
                         /\ row'[r] = MachineRow(row[r], row[r], s)
    /\ cause'[r] = "timeout-recovery" => row'[r].lifecycle = "active" \/ TimedOut(row[r])
Enters(r)   == EnterStaging(r)
RollsBack(r) == r \in stored /\ Rollback(r)
Promoted(r)  == r \in stored /\ Due(row[r]) /\ Promote(r)

RowChange(r) == \/ Same(r) \/ Ages(r) \/ Gone(r) \/ Created(r) \/ Edited(r) \/ ByUser(r)
                \/ ByMachine(r) \/ Enters(r) \/ RollsBack(r) \/ Promoted(r)

(* An action on one recipe leaves the others as they are. *)
LEMMA OthersSame == ASSUME TypeOK, NEW q \in Recipes, NEW r \in Recipes, q # r,
                           Service(q) \/ Machine(q) \/ Staging(q)
                    PROVE  Same(r) \/ Gone(r)
<1> USE DEF TypeOK, Put, Same, Gone
<1>1. CASE Service(q)
  BY <1>1 DEF Service, Create, UpdateContent, Use, Delete, UserTransition
<1>2. CASE Machine(q)
  BY <1>2 DEF Machine, AttachProposal, CompletePatch, RevertUpdate, ExecuteDeprecate,
              GatewayDeprecate, DetectDecay, CheckTimeout, Transition
<1>3. CASE Staging(q)
  BY <1>3 DEF Staging, EnterStaging, Rollback, RecordReview, CheckStaging, Promote, Published
<1> QED BY <1>1, <1>2, <1>3

(* What the row operators leave in the fields the clocks live in. *)
LEMMA AgedFields ==
    ASSUME NEW x \in Row
    PROVE  /\ Aged(x).lifecycle = x.lifecycle
           /\ Aged(x).stint = Older(x.stint)
           /\ Aged(x).deadline = Sooner(x.deadline)
           /\ Aged(x).evolvingAge = Older(x.evolvingAge)
           /\ Aged(x).decayAge = Older(x.decayAge)
BY DEF Aged, Row

(* A move resets the stint and keeps the other clocks. *)
LEMMA MovedFields ==
    ASSUME NEW x \in Row, NEW s
    PROVE  /\ Moved(x, s).lifecycle = s
           /\ Moved(x, s).stint = 0
           /\ Moved(x, s).deadline = x.deadline
           /\ Moved(x, s).evolvingAge = x.evolvingAge
           /\ Moved(x, s).decayAge = x.decayAge
BY DEF Moved, Touched, Row

(* A transition also sets or clears the entry time of its target. *)
LEMMA MachineFields ==
    ASSUME NEW x \in Row, NEW s
    PROVE  /\ MachineRow(x, x, s).lifecycle = s
           /\ MachineRow(x, x, s).stint = 0
           /\ MachineRow(x, x, s).deadline = x.deadline
           /\ s = "evolving" => MachineRow(x, x, s).evolvingAge = 0
           /\ s = "decaying" => MachineRow(x, x, s).decayAge = 0
<1> DEFINE y == WithStats(x, MachineStats(x, s))
<1>1. /\ y.deadline = x.deadline
      /\ s = "evolving" => y.evolvingAge = 0
      /\ s = "decaying" => y.decayAge = 0
      /\ y = [y EXCEPT !.age = y.age]
  BY DEF WithStats, MachineStats, Row
<1>2. /\ Moved(y, s).lifecycle = s
      /\ Moved(y, s).stint = 0
      /\ Moved(y, s).deadline = y.deadline
      /\ Moved(y, s).evolvingAge = y.evolvingAge
      /\ Moved(y, s).decayAge = y.decayAge
  BY DEF Moved, Touched, WithStats, Row
<1> QED BY <1>1, <1>2 DEF MachineRow

(* The actions of the machine are the cases of ByMachine. *)
LEMMA MachineChange == ASSUME TypeOK, NEW r \in Recipes, Machine(r) PROVE ByMachine(r)
<1>0. row[r] \in Row /\ row[r].lifecycle \in States BY DEF TypeOK, Row
<1>1. ASSUME NEW s, NEW why, Transition(r, s, why)
      PROVE  /\ r \in stored /\ s \in States /\ cause'[r] = why
             /\ Admits(row[r], r \in Exempt, s)
             /\ row'[r] = MachineRow(row[r], row[r], s)
             /\ row'[r].lifecycle = s
  BY <1>0, <1>1, EdgeType, MachineFields DEF Transition, Admits, Put, TypeOK
<1>2. CASE AttachProposal(r)
  BY <1>1, <1>2 DEF AttachProposal, ByMachine, Triggers
<1>3. CASE CompletePatch(r)
  BY <1>1, <1>3 DEF CompletePatch, ByMachine, Triggers
<1>4. CASE RevertUpdate(r)
  BY <1>1, <1>4 DEF RevertUpdate, ByMachine, Triggers
<1>5. CASE ExecuteDeprecate(r)
  BY <1>1, <1>5 DEF ExecuteDeprecate, ByMachine, Triggers
<1>6. CASE GatewayDeprecate(r)
  BY <1>1, <1>6 DEF GatewayDeprecate, ByMachine, Triggers
<1>7. CASE DetectDecay(r)
  BY <1>1, <1>7 DEF DetectDecay, ByMachine, Triggers
<1>8. CASE CheckTimeout(r)
  BY <1>1, <1>8 DEF CheckTimeout, ByMachine, Triggers
<1> QED BY <1>2, <1>3, <1>4, <1>5, <1>6, <1>7, <1>8 DEF Machine

(* Every step changes a recipe in one of these ways. *)
LEMMA StepCases == ASSUME TypeOK, [Next]_vars, NEW r \in Recipes, r \in stored \/ r \in stored'
                   PROVE  RowChange(r)
<1> USE DEF RowChange
<1>1. CASE UNCHANGED vars
  BY <1>1 DEF vars, Same
<1>2. CASE Tick
  BY <1>2 DEF Tick, Ages, TypeOK
<1>3. ASSUME NEW q \in Recipes, q # r, Service(q) \/ Machine(q) \/ Staging(q)
      PROVE  RowChange(r)
  BY <1>3, OthersSame
<1>4. CASE Service(r)
  <2>1. CASE Create(r)
    BY <2>1 DEF Create, Created, TypeOK
  <2>2. CASE UpdateContent(r)
    BY <2>2 DEF UpdateContent, Put, Touched, Edited, TypeOK, Row
  <2>3. CASE Use(r)
    BY <2>3 DEF Use, Put, Touched, Edited, TypeOK, Row
  <2>4. CASE Delete(r)
    BY <2>4 DEF Delete, Gone
  <2> QED BY <1>4, <2>1, <2>2, <2>3, <2>4 DEF Service, ByUser, UserTransition
<1>5. CASE Machine(r)
  BY <1>5, MachineChange
<1>6. CASE Staging(r)
  <2>1. CASE RecordReview(r)
    BY <2>1 DEF RecordReview, Put, Touched, Edited, TypeOK, Row
  <2>2. CASE Published(r)
    BY <2>2 DEF Published, Put, Touched, Edited, TypeOK, Row
  <2> QED BY <1>6, <2>1, <2>2 DEF Staging, Enters, RollsBack, Promoted, CheckStaging, Rollback
<1> QED BY <1>1, <1>2, <1>3, <1>4, <1>5, <1>6 DEF Next

-----------------------------------------------------------------------------
(***************************************************************************)
(* Whoever moves a recipe moves it along the table, and to active only     *)
(* when retrieval can serve it.                                            *)
(***************************************************************************)
THEOREM MovesAdmitted == Spec => MovesAreAdmitted
<1> DEFINE Step == \A r \in stored \cap stored' :
                       row'[r].lifecycle # row[r].lifecycle
                       => Admits(row[r], r \in Exempt, row'[r].lifecycle)
<1>1. TypeOK /\ [Next]_vars => [Step]_vars
  <2> SUFFICES ASSUME TypeOK, [Next]_vars, NEW r \in stored, r \in stored',
                      row'[r].lifecycle # row[r].lifecycle
               PROVE  Admits(row[r], r \in Exempt, row'[r].lifecycle)
    OBVIOUS
  <2>0. r \in Recipes /\ row[r] \in Row /\ RowChange(r)
    BY StepCases DEF TypeOK
  <2>1. ByUser(r) \/ ByMachine(r) \/ Enters(r) \/ RollsBack(r) \/ Promoted(r)
    <3>1. ~Same(r) /\ ~Edited(r) /\ ~Gone(r) /\ ~Created(r)
      BY DEF Same, Edited, Gone, Created
    <3>2. ~Ages(r)
      BY <2>0, AgedFields DEF Ages
    <3> QED BY <2>0, <3>1, <3>2 DEF RowChange
  <2>2. CASE ByUser(r)
    <3>1. PICK op \in UserOps : UserTransition(r, op) BY <2>2 DEF ByUser
    <3>2. row'[r].lifecycle = UserTarget[op]
      BY <2>0, <3>1, MovedFields DEF UserTransition, Put, TypeOK
    <3>3. UserTarget[op] = "active" => op \in {"publish", "restore"}
      BY <3>1, RecipesAssumption DEF UserTarget
    <3> QED BY <3>1, <3>2, <3>3 DEF UserTransition, Admits
  <2>3. CASE ByMachine(r)
    BY <2>0, <2>3, MachineFields DEF ByMachine
  <2>4. CASE Enters(r)
    <3>1. row[r].lifecycle = "pending" /\ row'[r].lifecycle = "staging"
      BY <2>0, <2>4 DEF Enters, EnterStaging, Put, TypeOK, Moved, Touched, Row
    <3> QED BY <3>1 DEF Admits, IsValidTransition, ValidTransitions
  <2>5. CASE RollsBack(r)
    <3>1. row[r].lifecycle = "staging" /\ row'[r].lifecycle = "pending"
      BY <2>0, <2>5 DEF RollsBack, Rollback, Put, TypeOK, Moved, Touched, Row
    <3> QED BY <3>1 DEF Admits, IsValidTransition, ValidTransitions
  <2>6. CASE Promoted(r)
    <3>1. row'[r].lifecycle = "active"
      BY <2>0, <2>6 DEF Promoted, Promote, Put, TypeOK, MachineRow, WithStats, Moved, Touched, Row
    <3> QED BY <2>6, <3>1 DEF Promoted, Promote
  <2> QED BY <2>1, <2>2, <2>3, <2>4, <2>5, <2>6
<1> QED BY <1>1, TypeCorrect, PTL DEF Spec, MovesAreAdmitted

-----------------------------------------------------------------------------
(***************************************************************************)
(* No clock of a stint runs behind the stint.  The deadline needs a        *)
(* strengthening: outside staging it may be left over from an earlier      *)
(* stint, and it is then still within a grace period.                      *)
(***************************************************************************)
InTime(x) ==
    /\ x.lifecycle = "decaying" /\ x.decayAge # Unset => x.decayAge >= x.stint
    /\ x.lifecycle = "evolving" /\ x.evolvingAge # Unset => x.evolvingAge >= x.stint
    /\ x.deadline > 0 => \E g \in Graces : x.deadline <= g
    /\ x.lifecycle = "staging" /\ x.deadline > 0 => \E g \in Graces : x.deadline + x.stint <= g

(* Time moves the clocks of a row together. *)
LEMMA AgedInTime == ASSUME NEW x \in Row, InTime(x) PROVE InTime(Aged(x))
<1>1. /\ x.stint \in Elapsed
      /\ x.deadline \in {Unset} \cup Elapsed
      /\ x.evolvingAge \in {Unset} \cup Elapsed
      /\ x.decayAge \in {Unset} \cup Elapsed
  BY DEF Row
<1>2. \A g \in Graces : g \in Nat BY TimeAssumption
<1>3. MaxAge \in Nat BY TimeAssumption
<1>4. Older(x.stint) <= x.stint + 1
  BY <1>1, <1>3 DEF Older, Elapsed
<1>5. Sooner(x.deadline) > 0 => x.deadline > 0 /\ Sooner(x.deadline) = x.deadline - 1
  BY <1>1, <1>3 DEF Sooner, Elapsed, Unset
<1>6. ASSUME NEW a \in {x.evolvingAge, x.decayAge}, a # Unset => a >= x.stint
      PROVE  Older(a) # Unset => Older(a) >= Older(x.stint)
  BY <1>1, <1>3, <1>6 DEF Older, Elapsed, Unset
<1>7. x.stint \in Int /\ x.deadline \in Int /\ Older(x.stint) \in Int
  BY <1>1, <1>3 DEF Older, Elapsed, Unset
<1> QED BY <1>2, <1>4, <1>5, <1>6, <1>7, AgedFields DEF InTime

(* A stint that has just begun is not ahead of anything. *)
LEMMA FreshInTime ==
    ASSUME NEW x \in Row, x.stint = 0, x.deadline > 0 => \E g \in Graces : x.deadline <= g
    PROVE  InTime(x)
<1>1. /\ x.deadline \in {Unset} \cup Elapsed
      /\ x.evolvingAge \in {Unset} \cup Elapsed
      /\ x.decayAge \in {Unset} \cup Elapsed
  BY DEF Row
<1>2. MaxAge \in Nat BY TimeAssumption
<1>3. \A g \in Graces : x.deadline <= g => x.deadline + x.stint <= g
  BY <1>1, <1>2, TimeAssumption DEF Elapsed, Unset
<1>4. \A a \in {x.evolvingAge, x.decayAge} : a # Unset => a >= x.stint
  BY <1>1, <1>2 DEF Elapsed, Unset
<1> QED BY <1>3, <1>4 DEF InTime

ClocksInTime == \A r \in stored : InTime(row[r])

(* The invariant behind the three clock properties. *)
THEOREM ClocksInv == Spec => []ClocksInTime
<1>1. Init => ClocksInTime
  BY DEF Init, ClocksInTime
<1>2. TypeOK /\ TypeOK' /\ ClocksInTime /\ [Next]_vars => ClocksInTime'
  <2> SUFFICES ASSUME TypeOK, TypeOK', ClocksInTime, [Next]_vars, NEW r \in stored'
               PROVE  InTime(row'[r])
    BY DEF ClocksInTime
  <2>0. /\ r \in Recipes /\ row[r] \in Row /\ row'[r] \in Row
        /\ row' \in [Recipes -> Row]
        /\ r \in stored => InTime(row[r])
        /\ RowChange(r)
    BY StepCases DEF TypeOK, ClocksInTime
  <2>1. CASE Same(r) \/ Ages(r)
    BY <2>0, <2>1, AgedInTime DEF Same, Ages
  <2>1a. CASE Edited(r)
    BY <2>0, <2>1a DEF Edited, InTime, Unset
  <2>2. CASE Created(r)
    <3>1. row'[r].stint = 0 /\ (row'[r].deadline > 0 => row'[r].deadline \in Graces)
      <4>1. CASE \E g \in Graces, b \in BOOLEAN : row'[r] = NewRow("staging", g, TRUE, b)
        BY <4>1 DEF NewRow
      <4>2. CASE \E s \in {"pending", "deprecated"}, a, b \in BOOLEAN :
                    row'[r] = NewRow(s, Unset, a, b)
        BY <4>2 DEF NewRow, Unset
      <4> QED BY <2>2, <4>1, <4>2 DEF Created
    <3> QED BY <2>0, <3>1, FreshInTime, TimeAssumption
  <2>3. ASSUME r \in stored, row'[r].stint = 0,
               row'[r].deadline \in {row[r].deadline, Unset} \cup Graces
        PROVE  InTime(row'[r])
    <3>1. row'[r].deadline > 0 => \E g \in Graces : row'[r].deadline <= g
      BY <2>0, <2>3, TimeAssumption DEF InTime, Unset
    <3> QED BY <2>0, <2>3, <3>1, FreshInTime
  <2>4. CASE ByUser(r)
    BY <2>0, <2>3, <2>4, MovedFields DEF ByUser, UserTransition, Put, TypeOK
  <2>5. CASE ByMachine(r)
    BY <2>0, <2>3, <2>5, MachineFields DEF ByMachine
  <2>6. CASE Enters(r)
    BY <2>0, <2>3, <2>6 DEF Enters, EnterStaging, Put, TypeOK, Moved, Touched, Row
  <2>7. CASE RollsBack(r)
    BY <2>0, <2>3, <2>7 DEF RollsBack, Rollback, Put, TypeOK, Moved, Touched, Row
  <2>8. CASE Promoted(r)
    BY <2>0, <2>3, <2>8, MachineFields DEF Promoted, Promote, Put, TypeOK
  <2> QED BY <2>0, <2>1, <2>1a, <2>2, <2>4, <2>5, <2>6, <2>7, <2>8 DEF RowChange, Gone
<1> QED BY <1>1, <1>2, TypeCorrect, PTL DEF Spec

(* No clock that is kept of a stint runs behind it: a grace period, and a  *)
(* timeout that counts from an entry time, may be cut short by what is     *)
(* done to a recipe, they are not prolonged.  A stint with no entry time   *)
(* is another matter: its timeout counts from the last update.             *)
THEOREM NoClockBehind == Spec => []ClocksNeverBehind
<1>1. ClocksInTime => ClocksNeverBehind
  BY DEF ClocksInTime, InTime, ClocksNeverBehind, DecayClockNeverBehind,
         EvolvingClockNeverBehind, DeadlineNeverBehind
<1> QED BY <1>1, ClocksInv, PTL

-----------------------------------------------------------------------------
(***************************************************************************)
(* When the machine put a recipe in a state, the clock of that state times *)
(* the stint, so a timeout comes only after the observation period.  The   *)
(* condition is needed: the run lifecycle_userdecay refutes the property   *)
(* for a recipe that decay() put there.                                    *)
(***************************************************************************)
(* The clock of a state starts with the stint. *)
Timed(x, why, state, age) == x.lifecycle = state /\ why # "user" => age = x.stint

(* Both clocks of the machine: the invariant of the two theorems below. *)
LEMMA ClockStep ==
    ASSUME TypeOK, TypeOK', [Next]_vars, NEW r \in stored'
    PROVE  /\ (r \in stored => Timed(row[r], cause[r], "decaying", row[r].decayAge))
               => Timed(row'[r], cause'[r], "decaying", row'[r].decayAge)
           /\ (r \in stored => Timed(row[r], cause[r], "evolving", row[r].evolvingAge))
               => Timed(row'[r], cause'[r], "evolving", row'[r].evolvingAge)
<1> USE DEF Timed
<1>0. r \in Recipes /\ row[r] \in Row /\ row'[r] \in Row /\ row' \in [Recipes -> Row]
      /\ RowChange(r)
  BY StepCases DEF TypeOK
<1>1. CASE Same(r) \/ Edited(r)
  BY <1>1 DEF Same, Edited
<1>2. CASE Ages(r)
  BY <1>0, <1>2, AgedFields DEF Ages
<1>3. CASE Created(r)
  <2>1. row'[r].lifecycle \in {"staging", "pending", "deprecated"}
    <3>1. CASE \E g \in Graces, b \in BOOLEAN : row'[r] = NewRow("staging", g, TRUE, b)
      BY <3>1 DEF NewRow
    <3>2. CASE \E s \in {"pending", "deprecated"}, a, b \in BOOLEAN :
                  row'[r] = NewRow(s, Unset, a, b)
      BY <3>2 DEF NewRow
    <3> QED BY <1>3, <3>1, <3>2 DEF Created
  <2> QED BY <2>1
<1>4. CASE ByUser(r)
  <2>1. cause'[r] = "user"
    BY <1>0, <1>4 DEF ByUser, UserTransition, Put, TypeOK
  <2> QED BY <2>1
<1>5. CASE ByMachine(r)
  BY <1>0, <1>5, MachineFields DEF ByMachine
<1>6. CASE Enters(r)
  BY <1>0, <1>6 DEF Enters, EnterStaging, Put, TypeOK, Moved, Touched, Row
<1>7. CASE RollsBack(r)
  BY <1>0, <1>7 DEF RollsBack, Rollback, Put, TypeOK, Moved, Touched, Row
<1>8. CASE Promoted(r)
  BY <1>0, <1>8 DEF Promoted, Promote, Put, TypeOK, MachineRow, WithStats, Moved, Touched, Row
<1> QED BY <1>0, <1>1, <1>2, <1>3, <1>4, <1>5, <1>6, <1>7, <1>8 DEF RowChange, Gone

(* decayStartedAt times the stint in decay. *)
THEOREM DecayClock == Spec => []DecayClockIsStint
<1>1. Init => DecayClockIsStint
  BY DEF Init, DecayClockIsStint
<1>2. TypeOK /\ TypeOK' /\ DecayClockIsStint /\ [Next]_vars => DecayClockIsStint'
  BY ClockStep DEF DecayClockIsStint, Timed
<1> QED BY <1>1, <1>2, TypeCorrect, PTL DEF Spec

(* evolvingStartedAt times the stint in evolving. *)
THEOREM EvolvingClock == Spec => []EvolvingClockIsStint
<1>1. Init => EvolvingClockIsStint
  BY DEF Init, EvolvingClockIsStint
<1>2. TypeOK /\ TypeOK' /\ EvolvingClockIsStint /\ [Next]_vars => EvolvingClockIsStint'
  BY ClockStep DEF EvolvingClockIsStint, Timed
<1> QED BY <1>1, <1>2, TypeCorrect, PTL DEF Spec

(* A timeout deprecates only what spent the observation period in decay. *)
THEOREM DecayGrace == Spec => DecayGraceHonoured
<1> DEFINE Step == \A r \in stored \cap stored' :
                     (row[r].lifecycle = "decaying" /\ row'[r].lifecycle = "deprecated"
                          /\ cause'[r] = "timeout-recovery" /\ cause[r] # "user")
                     => row[r].stint > DecayTimeout
<1>1. TypeOK /\ DecayClockIsStint /\ [Next]_vars => [Step]_vars
  <2> SUFFICES ASSUME TypeOK, DecayClockIsStint, [Next]_vars,
                      NEW r \in stored, r \in stored',
                      row[r].lifecycle = "decaying", row'[r].lifecycle = "deprecated",
                      cause'[r] = "timeout-recovery", cause[r] # "user"
               PROVE  row[r].stint > DecayTimeout
    OBVIOUS
  <2>0. /\ r \in Recipes /\ row[r] \in Row /\ RowChange(r)
        /\ row[r].decayAge = row[r].stint
    BY StepCases DEF TypeOK, DecayClockIsStint
  <2>1. ~Same(r) /\ ~Edited(r) /\ ~Gone(r) /\ ~Created(r) /\ ~Ages(r)
    BY <2>0, AgedFields DEF Same, Edited, Gone, Created, Ages
  <2>2. ~ByUser(r)
    BY <2>0 DEF ByUser, UserTransition, Put, TypeOK
  <2>3. ~Enters(r) /\ ~RollsBack(r) /\ ~Promoted(r)
    BY DEF Enters, EnterStaging, RollsBack, Rollback, Promoted, Due
  <2>4. TimedOut(row[r])
    BY <2>0, <2>1, <2>2, <2>3 DEF RowChange, ByMachine
  <2>5. row[r].decayAge # Unset
    BY <2>0, TimeAssumption DEF Row, Elapsed, Unset
  <2> QED BY <2>0, <2>4, <2>5 DEF TimedOut, StateAge, Timeout
<1> QED BY <1>1, TypeCorrect, DecayClock, PTL DEF Spec, DecayGraceHonoured

-----------------------------------------------------------------------------
(***************************************************************************)
(* When the service or StagingManager put a recipe in staging, its         *)
(* deadline and the time since then make up a grace period.  Any other way *)
(* into staging may find a deadline of an earlier stay.                    *)
(***************************************************************************)
Granted(x, why) ==
    x.lifecycle = "staging" /\ why \in {"created", "enter_staging"} =>
        /\ x.deadline # Unset
        /\ \E g \in Graces : x.deadline + x.stint >= g
DeadlineTimesStint == \A r \in stored : Granted(row[r], cause[r])

(* A deadline and the time since it was set add up to the grace period. *)
THEOREM DeadlineClock == Spec => []DeadlineTimesStint
<1>1. Init => DeadlineTimesStint
  BY DEF Init, DeadlineTimesStint
<1>2. TypeOK /\ TypeOK' /\ DeadlineTimesStint /\ [Next]_vars => DeadlineTimesStint'
  <2> SUFFICES ASSUME TypeOK, TypeOK', DeadlineTimesStint, [Next]_vars, NEW r \in stored'
               PROVE  Granted(row'[r], cause'[r])
    BY DEF DeadlineTimesStint
  <2>0. /\ r \in Recipes /\ row[r] \in Row /\ row'[r] \in Row
        /\ row' \in [Recipes -> Row]
        /\ r \in stored => Granted(row[r], cause[r])
        /\ RowChange(r)
    BY StepCases DEF TypeOK, DeadlineTimesStint
  <2>g. \A g \in Graces : g \in Nat /\ g <= MaxAge
    BY TimeAssumption
  <2>1. CASE Same(r) \/ Edited(r)
    BY <2>0, <2>1 DEF Same, Edited, Granted
  <2>2. CASE Ages(r)
    <3> SUFFICES ASSUME row[r].lifecycle = "staging", cause[r] \in {"created", "enter_staging"}
                 PROVE  /\ Sooner(row[r].deadline) # Unset
                        /\ \E g \in Graces : Sooner(row[r].deadline) + Older(row[r].stint) >= g
      BY <2>0, <2>2, AgedFields DEF Ages, Granted
    <3>1. /\ row[r].stint \in Elapsed /\ row[r].deadline \in {Unset} \cup Elapsed
          /\ MaxAge \in Nat
      BY <2>0, TimeAssumption DEF Row
    <3>2. row[r].deadline # Unset
      BY <2>0, <2>2 DEF Ages, Granted
    <3>3. \/ Sooner(row[r].deadline) + Older(row[r].stint) >= row[r].deadline + row[r].stint
          \/ Sooner(row[r].deadline) + Older(row[r].stint) >= MaxAge
      BY <3>1, <3>2 DEF Sooner, Older, Elapsed, Unset
    <3>4. /\ Sooner(row[r].deadline) + Older(row[r].stint) \in Int
          /\ row[r].deadline + row[r].stint \in Int
          /\ Sooner(row[r].deadline) # Unset
      BY <3>1, <3>2 DEF Sooner, Older, Elapsed, Unset
    <3>5. PICK g \in Graces : row[r].deadline + row[r].stint >= g
      BY <2>0, <2>2 DEF Ages, Granted
    <3>6. Sooner(row[r].deadline) + Older(row[r].stint) >= g
      BY <2>g, <3>1, <3>3, <3>4, <3>5
    <3> QED BY <3>4, <3>6
  <2>3. CASE Created(r)
    <3>1. CASE \E g \in Graces, b \in BOOLEAN : row'[r] = NewRow("staging", g, TRUE, b)
      BY <2>g, <3>1 DEF NewRow, Granted, Unset
    <3>2. CASE \E s \in {"pending", "deprecated"}, a, b \in BOOLEAN :
                  row'[r] = NewRow(s, Unset, a, b)
      BY <3>2 DEF NewRow, Granted
    <3> QED BY <2>3, <3>1, <3>2 DEF Created
  <2>4. CASE ByUser(r)
    BY <2>0, <2>4 DEF ByUser, UserTransition, Put, TypeOK, Granted
  <2>5. CASE ByMachine(r)
    BY <2>5 DEF ByMachine, Triggers, Granted
  <2>6. CASE Enters(r)
    <3>1. row'[r].lifecycle = "staging" /\ row'[r].deadline \in Graces /\ row'[r].stint = 0
      BY <2>0, <2>6 DEF Enters, EnterStaging, Put, TypeOK, Moved, Touched, Row
    <3> QED BY <2>g, <3>1 DEF Granted, Unset
  <2>7. CASE RollsBack(r)
    BY <2>0, <2>7 DEF RollsBack, Rollback, Put, TypeOK, Moved, Touched, Row, Granted
  <2>8. CASE Promoted(r)
    BY <2>0, <2>8 DEF Promoted, Promote, Put, TypeOK, Granted
  <2> QED BY <2>0, <2>1, <2>2, <2>3, <2>4, <2>5, <2>6, <2>7, <2>8 DEF RowChange, Gone
<1> QED BY <1>1, <1>2, TypeCorrect, PTL DEF Spec

(* The sweep publishes only what spent a whole grace period in staging. *)
THEOREM GraceHonoured == Spec => PromotedAfterGrace
<1> DEFINE Step == \A r \in stored \cap stored' :
                     (row[r].lifecycle = "staging" /\ row'[r].lifecycle = "active"
                          /\ cause'[r] = "grace-period-expire"
                          /\ cause[r] \in {"created", "enter_staging"})
                     => \E g \in Graces : row[r].stint >= g
<1>1. TypeOK /\ DeadlineTimesStint /\ [Next]_vars => [Step]_vars
  <2> SUFFICES ASSUME TypeOK, DeadlineTimesStint, [Next]_vars,
                      NEW r \in stored, r \in stored',
                      row[r].lifecycle = "staging", row'[r].lifecycle = "active",
                      cause'[r] = "grace-period-expire",
                      cause[r] \in {"created", "enter_staging"}
               PROVE  \E g \in Graces : row[r].stint >= g
    OBVIOUS
  <2>0. /\ r \in Recipes /\ row[r] \in Row /\ RowChange(r)
        /\ \E g \in Graces : row[r].deadline + row[r].stint >= g
    BY StepCases DEF TypeOK, DeadlineTimesStint, Granted
  <2>1. ~Same(r) /\ ~Edited(r) /\ ~Gone(r) /\ ~Created(r) /\ ~Ages(r)
    BY <2>0, AgedFields DEF Same, Edited, Gone, Created, Ages
  <2>2. ~ByUser(r) /\ ~Enters(r) /\ ~RollsBack(r)
    BY <2>0 DEF ByUser, UserTransition, Enters, EnterStaging, RollsBack, Rollback, Put, TypeOK
  <2>3. Promoted(r)
    BY <2>0, <2>1, <2>2 DEF RowChange, ByMachine
  <2>4. row[r].deadline = 0 /\ row[r].stint \in Int
    BY <2>0, <2>3, TimeAssumption DEF Promoted, Due, Row, Elapsed
  <2> QED BY <2>0, <2>4
<1> QED BY <1>1, TypeCorrect, DeadlineClock, PTL DEF Spec, PromotedAfterGrace
=============================================================================
