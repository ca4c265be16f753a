----------------------- MODULE LifecycleHosts_proofs -----------------------
(***************************************************************************)
(* The hosts, for any recipes, hosts, timeouts and number of operations:   *)
(* what holds however they interleave, and that a host that has the store  *)
(* to itself, so that no two operations overlap, implements                *)
(* RecipeLifecycle.                                                        *)
(*                                                                         *)
(*   HostsInv   types, and what a host in an operation was asked to do; it *)
(*              holds however the hosts interleave (the Step lemmas);      *)
(*   AloneInv   what a host that is alone knows of the store in the middle *)
(*              of an operation or a sweep (the Solo lemmas);              *)
(*   the Implements lemmas map each of its steps to one of RecipeLifecycle.*)
(***************************************************************************)
EXTENDS MCLifecycleHosts, SequenceTheorems, TLAPS

-----------------------------------------------------------------------------
(* The row operators stay within Row.                                      *)

LEMMA ZeroType == 0 \in Elapsed /\ 0 \in {Unset} \cup Elapsed /\ Unset \in {Unset} \cup Elapsed
  BY TimeAssumption DEF Elapsed
LEMMA AgedType == ASSUME NEW x \in Row PROVE Aged(x) \in Row
<1>1. ASSUME NEW a \in {Unset} \cup Elapsed
      PROVE  /\ Older(a) \in {Unset} \cup Elapsed /\ Sooner(a) \in {Unset} \cup Elapsed
             /\ a \in Elapsed => Older(a) \in Elapsed
  BY TimeAssumption DEF Older, Sooner, Unset, Elapsed
<1> QED
  BY <1>1 DEF Aged, Row
LEMMA TouchedType == ASSUME NEW x \in Row PROVE Touched(x) \in Row
  BY ZeroType DEF Touched, Row
LEMMA MovedType == ASSUME NEW x \in Row, NEW s \in States PROVE Moved(x, s) \in Row
  BY ZeroType, TouchedType DEF Moved, Row
LEMMA WithStatsType == ASSUME NEW x \in Row, NEW y \in Row PROVE WithStats(x, y) \in Row
  BY DEF WithStats, Row
LEMMA MachineRowType == ASSUME NEW x \in Row, NEW y \in Row, NEW s \in States
                        PROVE  MachineRow(x, y, s) \in Row
<1>1. /\ MachineStats(x, s).evolvingAge \in {Unset} \cup Elapsed
      /\ MachineStats(x, s).decayAge \in {Unset} \cup Elapsed
      /\ MachineStats(x, s).review \in Verdicts
  BY ZeroType DEF MachineStats, Row
<1>2. WithStats(y, MachineStats(x, s)) \in Row
  BY <1>1 DEF WithStats, Row
<1> QED
  BY <1>2, MovedType DEF MachineRow
LEMMA NewRowType == ASSUME NEW s \in States, NEW d \in {Unset} \cup Elapsed,
                           NEW a \in BOOLEAN, NEW b \in BOOLEAN
                    PROVE  NewRow(s, d, a, b) \in Row
  BY ZeroType DEF NewRow, Row, Verdicts
LEMMA GraceType == \A g \in Graces : g \in Elapsed
  BY TimeAssumption DEF Elapsed
(* The rows create inserts, one by one. *)
LEMMA NewRowsAre ==
    \A x : x \in NewRows =>
        \/ \E g \in Graces, ready \in BOOLEAN : x = NewRow("staging", g, TRUE, ready)
        \/ \E state \in {"pending", "deprecated"}, auto \in BOOLEAN, ready \in BOOLEAN :
               x = NewRow(state, Unset, auto, ready)
<1> DEFINE Graced(g, ready) == NewRow("staging", g, TRUE, ready)
           Other(state, auto, ready) == NewRow(state, Unset, auto, ready)
           S == {Graced(g, ready) : g \in Graces, ready \in BOOLEAN}
           T == {Other(state, auto, ready) :
                   state \in {"pending", "deprecated"}, auto \in BOOLEAN, ready \in BOOLEAN}
<1>1. NewRows = S \cup T
  BY DEF NewRows
<1>2. \A x : x \in S => \E g \in Graces, ready \in BOOLEAN : x = Graced(g, ready)
  <2> HIDE DEF Graced
  <2> QED
    BY SMT
<1>3. \A x : x \in T => \E state \in {"pending", "deprecated"}, auto \in BOOLEAN,
                           ready \in BOOLEAN : x = Other(state, auto, ready)
  <2> HIDE DEF Other
  <2> QED
    BY SMT
<1> QED
  <2> HIDE DEF S, T
  <2> QED
    BY <1>1, <1>2, <1>3
LEMMA BlankType == Blank \in Row /\ NewRows \subseteq Row
<1>1. Blank \in Row
  BY ZeroType, NewRowType DEF Blank, States
<1>2. ASSUME NEW x \in NewRows PROVE x \in Row
  <2>1. CASE \E g \in Graces, ready \in BOOLEAN : x = NewRow("staging", g, TRUE, ready)
    <3>1. PICK g \in Graces, ready \in BOOLEAN : x = NewRow("staging", g, TRUE, ready)
      BY <2>1
    <3>2. g \in {Unset} \cup Elapsed /\ "staging" \in States
      BY GraceType DEF States
    <3> QED
      BY <3>1, <3>2, NewRowType
  <2>2. CASE \E state \in {"pending", "deprecated"}, auto \in BOOLEAN, ready \in BOOLEAN :
                 x = NewRow(state, Unset, auto, ready)
    <3>1. PICK state \in {"pending", "deprecated"}, auto \in BOOLEAN, ready \in BOOLEAN :
              x = NewRow(state, Unset, auto, ready)
      BY <2>2
    <3>2. state \in States
      BY DEF States
    <3> QED
      BY <3>1, <3>2, ZeroType, NewRowType
  <2> QED
    BY <2>1, <2>2, NewRowsAre
<1> QED
  BY <1>1, <1>2

-----------------------------------------------------------------------------
(* The types of the hosts' own variables.                                  *)

AllOps == {"machine", "user", "enter", "rollback", "published", "review", "use", "content",
           "delete", "valid"}
NoFile == {"delete", "valid"}
Whys == {"evolution-gateway", "proposal-execution", "proposal-attach", "decay-detection",
         "timeout-recovery", "grace-period-expire", "user", "enter_staging",
         "content-patch-complete",
         "staging_rollback", "keep"}
Args == States \cup UserOps \cup Graces \cup BOOLEAN \cup {"pass", "fail"} \cup {0}
Requests == [op : AllOps, r : Recipes, arg : Args, why : Whys]
(* What an operation may be asked to do. *)
Proper(j) == /\ j \in Requests
             /\ j.op = "machine" => j.arg \in States /\ j.why # "keep"
             /\ j.op = "user" => j.arg \in UserOps /\ j.why = "user"
             /\ j.op = "enter" => j.arg \in Graces /\ j.why = "enter_staging"
             /\ j.op = "rollback" => j.why = "staging_rollback"
             /\ j.op = "review" => j.arg \in {"pass", "fail"} /\ j.why = "keep"
             /\ j.op = "content" => j.arg \in BOOLEAN /\ j.why = "keep"
             /\ j.op \in {"use", "published", "delete", "valid"} => j.why = "keep"
Busy(h) == pc[h] \in {"read", "check", "file", "db"}
Sweeps == [kind : {"none", "staging", "timeouts"}, states : Seq(States),
           left : SUBSET Recipes, rows : [Recipes -> Row]]
HostOK(h) == /\ Busy(h) => Proper(job[h]) /\ job[h].r \in used
             /\ pc[h] = "file" => job[h].op \notin NoFile
             /\ pc[h] = "db" => job[h].op # "valid"
             /\ sweep[h].left \subseteq used
HostsInv == /\ TypeOK /\ used \subseteq Recipes
            /\ job \in [Hosts -> Requests \cup {NoJob}]
            /\ sweep \in [Hosts -> Sweeps]
            /\ \A h \in Hosts : HostOK(h)

USE HostsAssumption

LEMMA TargetType == /\ \A op \in UserOps : UserTarget[op] \in States
                    /\ \A s \in DOMAIN TimeoutTarget : TimeoutTarget[s] \in States
  BY DEF UserTarget, TimeoutTarget, States

LEMMA NoSweepType == NoSweep \in Sweeps /\ NoSweep.left = {}
  BY BlankType DEF NoSweep, Sweeps

(* What an operation writes is a row. *)
LEMMA EditType == ASSUME HostsInv, NEW h \in Hosts, NEW x \in Row, Busy(h), job[h].op \notin NoFile
                  PROVE  Edit(h, x) \in Row
<1>1. Proper(job[h]) /\ seen[h] \in Row
  BY DEF HostsInv, HostOK, TypeOK
<1>2. job[h].op \in AllOps \ NoFile
  BY <1>1 DEF Proper, Requests
<1>3. CASE job[h].op = "machine"
  BY <1>1, <1>3, MachineRowType DEF Edit, Proper
<1>4. CASE job[h].op = "user"
  BY <1>1, <1>4, MovedType, TargetType DEF Edit, Proper
<1>5. CASE job[h].op = "enter"
  <2>1. Moved(x, "staging") \in Row /\ job[h].arg \in Elapsed
    BY <1>1, <1>5, MovedType, GraceType DEF Proper, States
  <2> QED
    BY <1>5, <2>1 DEF Edit, Row
<1>6. CASE job[h].op = "rollback"
  <2>1. Moved(x, "pending") \in Row
    BY MovedType DEF States
  <2> QED
    BY <1>6, <2>1 DEF Edit, Row
<1>7. CASE job[h].op = "published"
  BY <1>7, TouchedType DEF Edit, Row
<1>8. CASE job[h].op = "review"
  <2>1. Touched(WithStats(x, seen[h])) \in Row /\ job[h].arg \in Verdicts
    BY <1>1, <1>8, WithStatsType, TouchedType DEF Proper, Verdicts
  <2> QED
    BY <1>8, <2>1 DEF Edit, Row
<1>9. CASE job[h].op = "use"
  BY <1>1, <1>9, WithStatsType, TouchedType DEF Edit
<1>10. CASE job[h].op = "content"
  <2>1. Touched(x) \in Row /\ job[h].arg \in BOOLEAN
    BY <1>1, <1>10, TouchedType DEF Proper
  <2> QED
    BY <1>10, <2>1 DEF Edit, Row
<1> QED
  BY <1>2, <1>3, <1>4, <1>5, <1>6, <1>7, <1>8, <1>9, <1>10 DEF AllOps, NoFile

(* A step of one host: what it has to show of its own variables.           *)
LEMMA OneHost ==
    ASSUME HostsInv, NEW h \in Hosts,
           NEW p \in {"idle", "read", "check", "file", "db", "sweep"},
           NEW j \in Requests \cup {NoJob}, NEW x \in Row, NEW y \in Row, NEW s \in Sweeps,
           pc' = [pc EXCEPT ![h] = p], job' = [job EXCEPT ![h] = j],
           seen' = [seen EXCEPT ![h] = x], new' = [new EXCEPT ![h] = y],
           sweep' = [sweep EXCEPT ![h] = s],
           used \subseteq used', used' \subseteq Recipes, s.left \subseteq used',
           p \in {"read", "check", "file", "db"} => Proper(j) /\ j.r \in used',
           p = "file" => j.op \notin NoFile, p = "db" => j.op # "valid",
           stored' \subseteq used', disk' \subseteq used', diverged' \cup verified' \subseteq used',
           row' \in [Recipes -> Row], file' \in [Recipes -> Row]
    PROVE  HostsInv'
<1> USE DEF HostsInv
<1>1. TypeOK'
  BY DEF TypeOK
<1>2. job' \in [Hosts -> Requests \cup {NoJob}] /\ sweep' \in [Hosts -> Sweeps]
  OBVIOUS
<1>3. HostOK(h)'
  BY DEF HostOK, Busy, TypeOK
<1>4. ASSUME NEW g \in Hosts, g # h PROVE HostOK(g)'
  <2>1. pc'[g] = pc[g] /\ job'[g] = job[g] /\ sweep'[g] = sweep[g]
    BY <1>4 DEF TypeOK
  <2> QED
    BY <2>1 DEF HostOK, Busy
<1> QED
  BY <1>1, <1>2, <1>3, <1>4

(* What a step of a host leaves alone, as OneHost takes it. *)
LEMMA Same == ASSUME HostsInv, NEW h \in Hosts
              PROVE  /\ pc = [pc EXCEPT ![h] = pc[h]] /\ job = [job EXCEPT ![h] = job[h]]
                     /\ seen = [seen EXCEPT ![h] = seen[h]] /\ new = [new EXCEPT ![h] = new[h]]
                     /\ sweep = [sweep EXCEPT ![h] = sweep[h]]
                     /\ pc[h] \in {"idle", "read", "check", "file", "db", "sweep"}
                     /\ job[h] \in Requests \cup {NoJob} /\ seen[h] \in Row /\ new[h] \in Row
                     /\ sweep[h] \in Sweeps /\ sweep[h].left \subseteq used
                     /\ used \subseteq Recipes
                     /\ stored \subseteq used /\ disk \subseteq used /\ diverged \cup verified \subseteq used
                     /\ row \in [Recipes -> Row] /\ file \in [Recipes -> Row]
<1> USE DEF HostsInv, TypeOK
<1>1. pc = [pc EXCEPT ![h] = pc[h]] /\ seen = [seen EXCEPT ![h] = seen[h]]
  OBVIOUS
<1>2. job = [job EXCEPT ![h] = job[h]] /\ new = [new EXCEPT ![h] = new[h]]
  OBVIOUS
<1>3. sweep = [sweep EXCEPT ![h] = sweep[h]]
  OBVIOUS
<1>4. sweep[h].left \subseteq used
  BY DEF HostOK
<1> QED
  BY <1>1, <1>2, <1>3, <1>4

(* An operation ends. *)
LEMMA ReturnStep == ASSUME HostsInv, NEW h \in Hosts, NEW how, Returned(h, how),
                           used' = used,
                           stored' \subseteq used, disk' \subseteq used, diverged' \cup verified' \subseteq used,
                           row' \in [Recipes -> Row], file' \in [Recipes -> Row]
                    PROVE  HostsInv'
<1>1. PICK p \in {"idle", "sweep"} : pc' = [pc EXCEPT ![h] = p]
  BY DEF Returned
<1>2. PICK s \in Sweeps : sweep' = [sweep EXCEPT ![h] = s] /\ s.left \subseteq used
  BY Same, NoSweepType DEF Returned
<1>3. /\ job' = [job EXCEPT ![h] = NoJob] /\ seen' = [seen EXCEPT ![h] = Blank]
      /\ new' = [new EXCEPT ![h] = Blank]
  BY DEF Returned
<1> QED
  BY <1>1, <1>2, <1>3, BlankType, Same, OneHost

-----------------------------------------------------------------------------
(* HostsInv, one lemma per action that changes more than its host's place. *)

(* A step that moves no host. *)
LEMMA Elsewhere == ASSUME HostsInv, UNCHANGED <<pc, job, seen, new, sweep>>,
                          used \subseteq used', used' \subseteq Recipes,
                          stored' \subseteq used', disk' \subseteq used', diverged' \cup verified' \subseteq used',
                          row' \in [Recipes -> Row], file' \in [Recipes -> Row]
                   PROVE  HostsInv'
<1>1. TypeOK'
  BY DEF HostsInv, TypeOK
<1>2. ASSUME NEW g \in Hosts PROVE HostOK(g)'
  BY DEF HostsInv, HostOK, Busy
<1> QED
  BY <1>1, <1>2 DEF HostsInv

LEMMA StepCreate == ASSUME HostsInv, NEW h \in Hosts, Create(h) PROVE HostsInv'
<1>1. PICK r \in Recipes \ used, x \in NewRows :
          /\ used' = used \cup {r} /\ disk' = disk \cup {r} /\ file' = [file EXCEPT ![r] = x]
          /\ \/ stored' = stored \cup {r} /\ row' = [row EXCEPT ![r] = x] /\ UNCHANGED diverged
             \/ diverged' = diverged \cup {r} /\ UNCHANGED <<stored, row>>
  BY DEF Create
<1>2. x \in Row
  BY BlankType
<1>3. UNCHANGED <<verified, pc, job, seen, new, sweep>>
  BY DEF Create
<1>6. row' \in [Recipes -> Row] /\ file' \in [Recipes -> Row]
  BY <1>1, <1>2, Same
<1>7. stored' \subseteq used' /\ disk' \subseteq used' /\ diverged' \cup verified' \subseteq used'
  BY <1>1, <1>3, Same
<1>8. used \subseteq used' /\ used' \subseteq Recipes
  BY <1>1, Same
<1> QED
  BY <1>3, <1>6, <1>7, <1>8, Elsewhere

(* A host turns to an operation. *)
LEMMA NextJob ==
    ASSUME HostsInv, NEW h \in Hosts, NEW p \in {"read", "check"}, NEW j \in Requests,
           Proper(j), j.r \in used, job' = [job EXCEPT ![h] = j], pc' = [pc EXCEPT ![h] = p],
           UNCHANGED <<seen, new, sweep, used>>,
           stored' \subseteq used, disk' \subseteq used, diverged' \cup verified' \subseteq used,
           row' \in [Recipes -> Row], file' \in [Recipes -> Row]
    PROVE  HostsInv'
<1>1. PICK x \in Row, y \in Row, s \in Sweeps :
          /\ seen' = [seen EXCEPT ![h] = x] /\ new' = [new EXCEPT ![h] = y]
          /\ sweep' = [sweep EXCEPT ![h] = s] /\ s.left \subseteq used
  BY Same
<1>2. used \subseteq Recipes
  BY Same
<1>3. /\ p \in {"idle", "read", "check", "file", "db", "sweep"} /\ p # "file" /\ p # "db"
      /\ j \in Requests \cup {NoJob} /\ j.r \in used' /\ used \subseteq used'
      /\ used' \subseteq Recipes /\ s.left \subseteq used'
      /\ stored' \subseteq used' /\ disk' \subseteq used' /\ diverged' \cup verified' \subseteq used'
  BY <1>1, <1>2
<1> QED
  BY <1>1, <1>3, OneHost

LEMMA StepStart == ASSUME HostsInv, NEW h \in Hosts, NEW j \in Requests, Proper(j), j.r \in used,
                          Start(h, j)
                   PROVE  HostsInv'
<1>1. /\ job' = [job EXCEPT ![h] = j] /\ pc' = [pc EXCEPT ![h] = "read"]
      /\ UNCHANGED <<stored, row, disk, file, used, diverged, verified, seen, new, sweep>>
  BY DEF Start, store
<1>2. /\ stored' \subseteq used /\ disk' \subseteq used /\ diverged' \cup verified' \subseteq used
      /\ row' \in [Recipes -> Row] /\ file' \in [Recipes -> Row]
  BY <1>1, Same
<1> QED
  BY <1>1, <1>2, NextJob

LEMMA RequestType ==
    ASSUME NEW op \in AllOps, NEW r \in Recipes, NEW why \in Whys,
           NEW arg \in Args
    PROVE  /\ Request(op, r, arg, why) \in Requests
           /\ Request(op, r, arg, why).op = op /\ Request(op, r, arg, why).r = r
           /\ Request(op, r, arg, why).arg = arg /\ Request(op, r, arg, why).why = why
  BY DEF Request, Requests

LEMMA StepBegin == ASSUME HostsInv, NEW h \in Hosts, Begin(h) PROVE HostsInv'
<1>1. PICK r \in stored :
    \/ \E q \in MachineRequests : Start(h, Request("machine", r, q[1], q[2]))
    \/ Start(h, Request("machine", r, "decaying", "decay-detection"))
    \/ \E op \in UserOps : Start(h, Request("user", r, op, "user"))
    \/ \E g \in Graces : Start(h, Request("enter", r, g, "enter_staging"))
    \/ \E v \in {"pass", "fail"} : Start(h, Request("review", r, v, "keep"))
    \/ \E b \in BOOLEAN : Start(h, Request("content", r, b, "keep"))
    \/ Start(h, Request("rollback", r, 0, "staging_rollback"))
    \/ \E op \in {"use", "valid"} : Start(h, Request(op, r, 0, "keep"))
    \/ Start(h, Request("delete", r, 0, "keep"))
  BY DEF Begin
<1>2. r \in Recipes /\ r \in used
  BY Same
<1>3. ASSUME NEW target \in States, NEW why \in Whys, why # "keep",
             Start(h, Request("machine", r, target, why))
      PROVE  HostsInv'
  <2>1. Request("machine", r, target, why) \in Requests /\ Proper(Request("machine", r, target, why))
    BY <1>2, <1>3, RequestType DEF Proper, AllOps, Args
  <2> QED
    BY <1>2, <1>3, <2>1, RequestType, StepStart DEF AllOps, Args
<1>4. CASE \E q \in MachineRequests : Start(h, Request("machine", r, q[1], q[2]))
  <2>1. PICK q \in MachineRequests : Start(h, Request("machine", r, q[1], q[2]))
    BY <1>4
  <2>2. q[1] \in States /\ q[2] \in Whys /\ q[2] # "keep"
    BY DEF MachineRequests, States, Whys
  <2> QED
    BY <2>1, <2>2, <1>3
<1>5. CASE Start(h, Request("machine", r, "decaying", "decay-detection"))
  BY <1>5, <1>3 DEF States, Whys
<1>6. ASSUME NEW op \in AllOps, NEW why \in Whys,
             NEW arg \in Args, Start(h, Request(op, r, arg, why)), Proper(Request(op, r, arg, why))
      PROVE  HostsInv'
  <2>1. Request(op, r, arg, why) \in Requests /\ Request(op, r, arg, why).r = r
    BY <1>2, RequestType
  <2> QED
    BY <1>2, <1>6, <2>1, StepStart
<1>7. /\ \A op \in UserOps : op \in Args /\ Proper(Request("user", r, op, "user"))
      /\ \A g \in Graces : g \in Args /\ Proper(Request("enter", r, g, "enter_staging"))
  BY <1>2, RequestType DEF Proper, AllOps, Whys, Args
<1>8. /\ \A v \in {"pass", "fail"} : v \in Args /\ Proper(Request("review", r, v, "keep"))
      /\ \A b \in BOOLEAN : b \in Args /\ Proper(Request("content", r, b, "keep"))
  <2>1. "review" \in AllOps /\ "content" \in AllOps /\ "keep" \in Whys
    BY DEF AllOps, Whys
  <2>2. ASSUME NEW v \in {"pass", "fail"}
        PROVE  v \in Args /\ Proper(Request("review", r, v, "keep"))
    <3>1. v \in Args
      BY DEF Args
    <3> QED
      BY <1>2, <2>1, <3>1, RequestType DEF Proper
  <2>3. ASSUME NEW b \in BOOLEAN
        PROVE  b \in Args /\ Proper(Request("content", r, b, "keep"))
    <3>1. b \in Args
      BY DEF Args
    <3> QED
      BY <1>2, <2>1, <3>1, RequestType DEF Proper
  <2> QED
    BY <2>2, <2>3
<1>9. /\ 0 \in Args /\ Proper(Request("rollback", r, 0, "staging_rollback"))
      /\ \A op \in {"use", "valid", "delete"} : Proper(Request(op, r, 0, "keep"))
  BY <1>2, RequestType DEF Proper, AllOps, Whys, Args
<1> QED
  BY <1>1, <1>4, <1>5, <1>6, <1>7, <1>8, <1>9 DEF AllOps, Whys

(* A step of a host within an operation: the place, and one of the rows.   *)
LEMMA WithinStep ==
    ASSUME HostsInv, NEW h \in Hosts, Busy(h), NEW p \in {"read", "check", "file", "db"},
           NEW x \in Row, NEW y \in Row,
           p = "file" => job[h].op \notin NoFile, p = "db" => job[h].op # "valid",
           pc' = [pc EXCEPT ![h] = p], seen' = [seen EXCEPT ![h] = x],
           new' = [new EXCEPT ![h] = y], UNCHANGED <<job, sweep, used>>,
           stored' \subseteq used, disk' \subseteq used, diverged' \cup verified' \subseteq used,
           row' \in [Recipes -> Row], file' \in [Recipes -> Row]
    PROVE  HostsInv'
<1>1. Proper(job[h]) /\ job[h].r \in used
  BY DEF HostsInv, HostOK
<1>2. job' = [job EXCEPT ![h] = job[h]] /\ sweep' = [sweep EXCEPT ![h] = sweep[h]]
  BY Same
<1>3. /\ job[h] \in Requests \cup {NoJob} /\ sweep[h] \in Sweeps
      /\ sweep[h].left \subseteq used /\ used \subseteq Recipes
  BY Same
<1> QED
  BY <1>1, <1>2, <1>3, OneHost

(* The row a busy host works on is one of a known recipe. *)
LEMMA BusyRow == ASSUME HostsInv, NEW h \in Hosts, Busy(h)
                 PROVE  /\ job[h] \in Requests /\ job[h].r \in used /\ job[h].r \in Recipes
                        /\ Proper(job[h]) /\ row[job[h].r] \in Row
  BY DEF HostsInv, HostOK, TypeOK, Proper

LEMMA StepRead == ASSUME HostsInv, NEW h \in Hosts, Read(h) PROVE HostsInv'
<1>1. Busy(h) /\ UNCHANGED <<stored, row, disk, file, used, diverged, verified>>
  BY DEF Read, store, Busy
<1>2. CASE Returned(h, "refused")
  BY <1>1, <1>2, Same, ReturnStep
<1>3. CASE /\ seen' = [seen EXCEPT ![h] = row[job[h].r]] /\ pc' = [pc EXCEPT ![h] = "check"]
           /\ UNCHANGED <<sweep, new, job>>
  <2>1. new' = [new EXCEPT ![h] = new[h]] /\ new[h] \in Row
    BY <1>3, Same
  <2>2. /\ used' = used /\ stored' \subseteq used /\ disk' \subseteq used /\ diverged' \cup verified' \subseteq used
        /\ row' \in [Recipes -> Row] /\ file' \in [Recipes -> Row]
    BY <1>1, Same
  <2> QED
    BY <1>1, <1>3, <2>1, <2>2, BusyRow, WithinStep
<1> QED
  BY <1>2, <1>3 DEF Read

LEMMA StepRefuse == ASSUME HostsInv, NEW h \in Hosts, Refuse(h) PROVE HostsInv'
<1>1. Busy(h) /\ UNCHANGED <<stored, row, disk, file, used, diverged, verified>>
  BY DEF Refuse, store, Busy
<1>2. CASE Returned(h, "refused")
  BY <1>1, <1>2, Same, ReturnStep
<1>3. CASE /\ job' = [job EXCEPT ![h] =
                        Request("machine", job[h].r, "active", "grace-period-expire")]
           /\ pc' = [pc EXCEPT ![h] = "read"] /\ UNCHANGED <<sweep, seen, new>>
  <2> DEFINE j == Request("machine", job[h].r, "active", "grace-period-expire")
  <2>1. j \in Requests /\ Proper(j) /\ j.r \in used
    BY <1>1, BusyRow, RequestType DEF Proper, AllOps, Args, Whys, States
  <2>2. /\ used' = used /\ stored' \subseteq used /\ disk' \subseteq used /\ diverged' \cup verified' \subseteq used
        /\ row' \in [Recipes -> Row] /\ file' \in [Recipes -> Row]
    BY <1>1, Same
  <2>3. job' = [job EXCEPT ![h] = j] /\ pc' = [pc EXCEPT ![h] = "read"]
    BY <1>3
  <2> HIDE DEF j
  <2> QED
    BY <1>3, <2>1, <2>2, <2>3, NextJob
<1> QED
  BY <1>2, <1>3 DEF Refuse

LEMMA StepFileFails == ASSUME HostsInv, NEW h \in Hosts, FileFails(h) PROVE HostsInv'
<1>1. Returned(h, "throws") /\ UNCHANGED <<stored, row, disk, file, used, diverged, verified>>
  BY DEF FileFails, store
<1> QED
  BY <1>1, Same, ReturnStep

LEMMA StepReread == ASSUME HostsInv, NEW h \in Hosts, Reread(h) PROVE HostsInv'
<1>1. /\ Busy(h) /\ job[h].op \notin NoFile
      /\ UNCHANGED <<stored, row, disk, file, used, diverged, verified>>
  BY DEF Reread, store, Busy, NoReread, NoFile
<1>2. CASE Returned(h, "throws")
  BY <1>1, <1>2, Same, ReturnStep
<1>3. CASE /\ new' = [new EXCEPT ![h] = Edit(h, row[job[h].r])] /\ pc' = [pc EXCEPT ![h] = "file"]
           /\ UNCHANGED <<sweep, seen, job>>
  <2>1. seen' = [seen EXCEPT ![h] = seen[h]] /\ seen[h] \in Row
    BY <1>3, Same
  <2>2. Edit(h, row[job[h].r]) \in Row
    BY <1>1, BusyRow, EditType
  <2> QED
    BY <1>1, <1>3, <2>1, <2>2, Same, WithinStep
<1> QED
  BY <1>2, <1>3 DEF Reread

LEMMA WriteType == ASSUME HostsInv, NEW r \in used, NEW x \in Row, WriteFile(r, x)
                   PROVE  /\ disk' \subseteq used /\ file' \in [Recipes -> Row]
                          /\ verified' \subseteq used
  BY DEF WriteFile, HostsInv, TypeOK

LEMMA StepPersist == ASSUME HostsInv, NEW h \in Hosts, Persist(h) PROVE HostsInv'
<1>1. /\ Busy(h) /\ WriteFile(job[h].r, new[h]) /\ UNCHANGED <<stored, row, used>>
      /\ job[h].op # "valid"
  BY DEF Persist, Busy, HostsInv, HostOK, NoFile
<1>2. /\ new[h] \in Row /\ disk' \subseteq used /\ file' \in [Recipes -> Row] /\ verified' \subseteq used
      /\ stored' \subseteq used /\ row' \in [Recipes -> Row]
  BY <1>1, BusyRow, Same, WriteType
<1>3. CASE diverged' = diverged \cup {job[h].r} /\ Returned(h, "throws")
  <2>1. diverged' \cup verified' \subseteq used
    BY <1>1, <1>2, <1>3, BusyRow, Same
  <2> QED
    BY <1>1, <1>2, <1>3, <2>1, ReturnStep
<1>4. CASE pc' = [pc EXCEPT ![h] = "db"] /\ UNCHANGED <<diverged, sweep, seen, new, job>>
  <2>1. /\ seen' = [seen EXCEPT ![h] = seen[h]] /\ seen[h] \in Row
        /\ new' = [new EXCEPT ![h] = new[h]] /\ diverged' \cup verified' \subseteq used
    BY <1>2, <1>4, Same
  <2> QED
    BY <1>1, <1>2, <1>4, <2>1, WithinStep
<1> QED
  BY <1>3, <1>4 DEF Persist

LEMMA StepPersistService == ASSUME HostsInv, NEW h \in Hosts, PersistService(h) PROVE HostsInv'
<1>1. /\ Busy(h) /\ WriteFile(job[h].r, Edit(h, seen[h])) /\ UNCHANGED <<stored, row, used>>
      /\ job[h].op \notin NoFile /\ job[h].op # "valid"
  BY DEF PersistService, Busy, Service, NoFile
<1>2. Edit(h, seen[h]) \in Row /\ Edit(h, row[job[h].r]) \in Row
  BY <1>1, BusyRow, Same, EditType
<1>3. /\ disk' \subseteq used /\ file' \in [Recipes -> Row] /\ verified' \subseteq used
      /\ stored' \subseteq used /\ row' \in [Recipes -> Row]
  BY <1>1, <1>2, BusyRow, Same, WriteType
<1>4. CASE diverged' = diverged \cup {job[h].r} /\ Returned(h, "throws")
  <2>1. diverged' \cup verified' \subseteq used
    BY <1>1, <1>3, <1>4, BusyRow, Same
  <2> QED
    BY <1>1, <1>3, <1>4, <2>1, ReturnStep
<1>5. CASE /\ new' = [new EXCEPT ![h] = Edit(h, row[job[h].r])] /\ pc' = [pc EXCEPT ![h] = "db"]
           /\ UNCHANGED <<diverged, sweep, seen, job>>
  <2>1. seen' = [seen EXCEPT ![h] = seen[h]] /\ seen[h] \in Row /\ diverged' \cup verified' \subseteq used
    BY <1>3, <1>5, Same
  <2> QED
    BY <1>1, <1>2, <1>3, <1>5, <2>1, WithinStep
<1> QED
  BY <1>4, <1>5 DEF PersistService

LEMMA StepRemoveFile == ASSUME HostsInv, NEW h \in Hosts, RemoveFile(h) PROVE HostsInv'
<1>1. /\ Busy(h) /\ UNCHANGED <<stored, row, used, diverged, job, seen, new, sweep>>
      /\ disk' = disk \ {job[h].r} /\ file' = [file EXCEPT ![job[h].r] = Blank]
      /\ verified' = verified \ {job[h].r} /\ job[h].op = "delete"
      /\ pc' = [pc EXCEPT ![h] = "db"]
  BY DEF RemoveFile, Busy
<1>2. /\ stored' \subseteq used /\ diverged' \cup verified' \subseteq used /\ row' \in [Recipes -> Row]
      /\ disk' \subseteq used /\ file' \in [Recipes -> Row]
  BY <1>1, BlankType, BusyRow, Same
<1>3. /\ seen' = [seen EXCEPT ![h] = seen[h]] /\ seen[h] \in Row
      /\ new' = [new EXCEPT ![h] = new[h]] /\ new[h] \in Row
  BY <1>1, Same
<1> QED
  BY <1>1, <1>2, <1>3, WithinStep

LEMMA StatsType == ASSUME HostsInv, NEW h \in Hosts, Busy(h)
                   PROVE  Touched(WithStats(row[job[h].r], seen[h])) \in Row
  BY BusyRow, Same, WithStatsType, TouchedType

LEMMA StepVerify == ASSUME HostsInv, NEW h \in Hosts, Verify(h) PROVE HostsInv'
<1>1. /\ Busy(h) /\ Returned(h, "done") /\ UNCHANGED <<stored, disk, file, used, diverged>>
      /\ \/ /\ row' = [row EXCEPT ![job[h].r] = Touched(WithStats(@, seen[h]))]
            /\ verified' = verified \cup {job[h].r}
         \/ UNCHANGED <<row, verified>>
  BY DEF Verify, Busy
<1>2. row' \in [Recipes -> Row] /\ diverged' \cup verified' \subseteq used
  BY <1>1, BusyRow, Same, StatsType
<1> QED
  BY <1>1, <1>2, Same, ReturnStep

LEMMA StepCommit == ASSUME HostsInv, NEW h \in Hosts, Commit(h) PROVE HostsInv'
<1>1. /\ Busy(h) /\ UNCHANGED <<stored, disk, file, used, diverged, verified>>
      /\ row' = [row EXCEPT ![job[h].r] = new[h]]
  BY DEF Commit, Busy
<1>2. /\ stored' \subseteq used /\ diverged' \cup verified' \subseteq used /\ row' \in [Recipes -> Row]
      /\ disk' \subseteq used /\ file' \in [Recipes -> Row]
  BY <1>1, Same
<1>3. CASE Returned(h, "done")
  BY <1>1, <1>2, <1>3, ReturnStep
<1>4. CASE /\ job' = [job EXCEPT ![h] = Request("published", job[h].r, 0, "keep")]
           /\ pc' = [pc EXCEPT ![h] = "check"] /\ UNCHANGED <<sweep, seen, new>>
  <2> DEFINE j == Request("published", job[h].r, 0, "keep")
  <2>1. j \in Requests /\ Proper(j) /\ j.r \in used
    BY <1>1, BusyRow, RequestType DEF Proper, AllOps, Args, Whys
  <2>2. job' = [job EXCEPT ![h] = j] /\ pc' = [pc EXCEPT ![h] = "check"]
    BY <1>4
  <2> HIDE DEF j
  <2> QED
    BY <1>1, <1>2, <1>4, <2>1, <2>2, NextJob
<1> QED
  BY <1>3, <1>4 DEF Commit

LEMMA StepCommitDelete == ASSUME HostsInv, NEW h \in Hosts, CommitDelete(h) PROVE HostsInv'
<1>1. /\ Returned(h, "done") /\ UNCHANGED <<disk, file, used, diverged, verified>>
      /\ stored' = stored \ {job[h].r} /\ row' = [row EXCEPT ![job[h].r] = Blank]
  BY DEF CommitDelete
<1>2. row' \in [Recipes -> Row] /\ stored' \subseteq used
  BY <1>1, BlankType, Same
<1> QED
  BY <1>1, <1>2, Same, ReturnStep

LEMMA StepCommitFails == ASSUME HostsInv, NEW h \in Hosts, CommitFails(h) PROVE HostsInv'
<1>1. /\ Busy(h) /\ Returned(h, "throws") /\ UNCHANGED <<stored, row, disk, file, used, verified>>
      /\ diverged' = diverged \cup {job[h].r}
  BY DEF CommitFails, Busy
<1>2. diverged' \cup verified' \subseteq used
  BY <1>1, BusyRow, Same
<1> QED
  BY <1>1, <1>2, Same, ReturnStep

(* A step of a host between the entries of a sweep, or with none running.  *)
LEMMA SweepStep ==
    ASSUME HostsInv, NEW h \in Hosts, NEW p \in {"idle", "sweep"}, NEW s \in Sweeps,
           s.left \subseteq used, pc' = [pc EXCEPT ![h] = p], sweep' = [sweep EXCEPT ![h] = s],
           UNCHANGED <<stored, row, disk, file, used, diverged, verified, job, seen, new>>
    PROVE  HostsInv'
<1>1. /\ seen' = [seen EXCEPT ![h] = seen[h]] /\ new' = [new EXCEPT ![h] = new[h]]
      /\ job' = [job EXCEPT ![h] = job[h]]
  BY Same
<1>2. /\ seen[h] \in Row /\ new[h] \in Row /\ used \subseteq Recipes
      /\ job[h] \in Requests \cup {NoJob}
  BY Same
<1>3. /\ used' = used /\ stored' \subseteq used /\ disk' \subseteq used /\ diverged' \cup verified' \subseteq used
      /\ row' \in [Recipes -> Row] /\ file' \in [Recipes -> Row]
  BY Same
<1> QED
  BY <1>1, <1>2, <1>3, OneHost

LEMMA StepBeginSweep == ASSUME HostsInv, NEW h \in Hosts, BeginSweep(h) PROVE HostsInv'
<1>1. PICK kind \in {"staging", "timeouts"} :
          sweep' = [sweep EXCEPT ![h] =
                      [NoSweep EXCEPT !.kind = kind,
                                      !.states = IF kind = "staging" THEN <<"staging">>
                                                 ELSE <<"evolving", "decaying", "pending">>]]
  BY DEF BeginSweep
<1> DEFINE s == [NoSweep EXCEPT !.kind = kind,
                                !.states = IF kind = "staging" THEN <<"staging">>
                                           ELSE <<"evolving", "decaying", "pending">>]
<1>2. <<"staging">> \in Seq(States) /\ <<"evolving", "decaying", "pending">> \in Seq(States)
  BY DEF States
<1>3. s \in Sweeps /\ s.left = {}
  <2>1. (IF kind = "staging" THEN <<"staging">>
         ELSE <<"evolving", "decaying", "pending">>) \in Seq(States)
    BY <1>2
  <2> QED
    BY <2>1, NoSweepType DEF Sweeps
<1>4. /\ pc' = [pc EXCEPT ![h] = "sweep"] /\ sweep' = [sweep EXCEPT ![h] = s]
      /\ UNCHANGED <<stored, row, disk, file, used, diverged, verified, job, seen, new>>
  BY <1>1 DEF BeginSweep, store
<1> HIDE DEF s
<1> QED
  BY <1>3, <1>4, SweepStep

(* What a query finds. *)
Found(s) == {r \in stored : row[r].lifecycle = Head(s.states)}
AfterQuery(s) == [kind |-> s.kind, states |-> Tail(s.states), left |-> Found(s),
                  rows |-> [r \in Recipes |-> IF r \in Found(s) THEN row[r] ELSE Blank]]

LEMMA StepQuery == ASSUME HostsInv, NEW h \in Hosts, Query(h) PROVE HostsInv'
<1>1. pc[h] = "sweep" /\ UNCHANGED <<stored, row, disk, file, used, diverged, verified, job, seen, new>>
  BY DEF Query, store
<1>2. CASE sweep[h].states = <<>>
  <2>1. sweep' = [sweep EXCEPT ![h] = NoSweep] /\ pc' = [pc EXCEPT ![h] = "idle"]
    BY <1>2 DEF Query
  <2> QED
    BY <1>1, <2>1, NoSweepType, SweepStep
<1>3. CASE sweep[h].states # <<>>
  <2>1. sweep' = [sweep EXCEPT ![h] = AfterQuery(sweep[h])] /\ pc' = pc
    BY <1>3 DEF Query, AfterQuery, Found
  <2>2. pc' = [pc EXCEPT ![h] = "sweep"]
    BY <1>1, <2>1, Same
  <2>3. Found(sweep[h]) \subseteq used /\ Found(sweep[h]) \subseteq Recipes
    BY Same DEF Found
  <2>4. Tail(sweep[h].states) \in Seq(States) /\ sweep[h].kind \in {"none", "staging", "timeouts"}
    BY <1>3, Same DEF Sweeps
  <2>5. [r \in Recipes |-> IF r \in Found(sweep[h]) THEN row[r] ELSE Blank] \in [Recipes -> Row]
    BY BlankType, Same
  <2>6. AfterQuery(sweep[h]) \in Sweeps /\ AfterQuery(sweep[h]).left = Found(sweep[h])
    BY <2>3, <2>4, <2>5 DEF AfterQuery, Sweeps
  <2> QED
    BY <1>1, <2>1, <2>2, <2>3, <2>6, SweepStep
<1> QED
  BY <1>2, <1>3

(* The rest of a sweep that has taken an entry. *)
Rest(s, r) == [s EXCEPT !.left = @ \ {r}, !.rows[r] = Blank]
VisitJob(s, r) ==
    IF s.kind = "timeouts"
    THEN Request("machine", r, TimeoutTarget[s.rows[r].lifecycle], "timeout-recovery")
    ELSE IF r \in stored /\ row[r].review = "fail"
    THEN Request("rollback", r, 0, "staging_rollback")
    ELSE Request("machine", r, "active", "grace-period-expire")

LEMMA VisitIs ==
    ASSUME HostsInv, NEW h \in Hosts, Visit(h)
    PROVE  /\ pc[h] = "sweep" /\ UNCHANGED <<stored, row, disk, file, used, diverged, verified, seen, new>>
           /\ \E r \in sweep[h].left :
                /\ sweep' = [sweep EXCEPT ![h] = Rest(sweep[h], r)]
                /\ \/ ~Wanted(sweep[h].kind, sweep[h].rows[r]) /\ UNCHANGED <<pc, job>>
                   \/ /\ Wanted(sweep[h].kind, sweep[h].rows[r])
                      /\ pc' = [pc EXCEPT ![h] = "read"]
                      /\ job' = [job EXCEPT ![h] = VisitJob(sweep[h], r)]
<1>1. PICK r \in sweep[h].left :
        /\ sweep' = [sweep EXCEPT ![h].left = @ \ {r}, ![h].rows[r] = Blank]
        /\ IF ~Wanted(sweep[h].kind, sweep[h].rows[r])
           THEN UNCHANGED <<pc, job>>
           ELSE /\ pc' = [pc EXCEPT ![h] = "read"]
                /\ job' = [job EXCEPT ![h] = VisitJob(sweep[h], r)]
  BY DEF Visit, VisitJob
<1>2. sweep' = [sweep EXCEPT ![h] = Rest(sweep[h], r)]
  <2> DEFINE s == sweep[h]
             L == sweep[h].left \ {r}
             first == [sweep EXCEPT ![h].left = L]
  <2>1. sweep \in [Hosts -> Sweeps]
    BY DEF HostsInv
  <2>2. sweep' = [first EXCEPT ![h].rows[r] = Blank]
    BY <1>1
  <2>3. first = [sweep EXCEPT ![h] = [s EXCEPT !.left = L]]
    BY <2>1
  <2>4. first[h] = [s EXCEPT !.left = L]
    BY <2>1, <2>3
  <2>5. [first EXCEPT ![h].rows[r] = Blank] = [first EXCEPT ![h] = [first[h] EXCEPT !.rows[r] = Blank]]
    OBVIOUS
  <2>6. [first EXCEPT ![h] = [first[h] EXCEPT !.rows[r] = Blank]] = [sweep EXCEPT ![h] = Rest(s, r)]
    BY <2>1, <2>3, <2>4 DEF Rest
  <2> QED
    BY <2>2, <2>5, <2>6
<1> QED
  BY <1>1, <1>2 DEF Visit, store

LEMMA RestType == ASSUME HostsInv, NEW h \in Hosts, NEW r \in sweep[h].left
                  PROVE  /\ Rest(sweep[h], r) \in Sweeps
                         /\ Rest(sweep[h], r).left = sweep[h].left \ {r}
                         /\ Rest(sweep[h], r).kind = sweep[h].kind
                         /\ Rest(sweep[h], r).rows = [sweep[h].rows EXCEPT ![r] = Blank]
                         /\ r \in Recipes /\ r \in used
  BY BlankType, Same DEF Rest, Sweeps

LEMMA StepVisit == ASSUME HostsInv, NEW h \in Hosts, Visit(h) PROVE HostsInv'
<1>1. PICK r \in sweep[h].left :
        /\ sweep' = [sweep EXCEPT ![h] = Rest(sweep[h], r)]
        /\ \/ ~Wanted(sweep[h].kind, sweep[h].rows[r]) /\ UNCHANGED <<pc, job>>
           \/ /\ Wanted(sweep[h].kind, sweep[h].rows[r])
              /\ pc' = [pc EXCEPT ![h] = "read"]
              /\ job' = [job EXCEPT ![h] = VisitJob(sweep[h], r)]
  BY VisitIs
<1>2. pc[h] = "sweep" /\ UNCHANGED <<stored, row, disk, file, used, diverged, verified, seen, new>>
  BY VisitIs
<1>3. /\ Rest(sweep[h], r) \in Sweeps /\ Rest(sweep[h], r).left \subseteq used
      /\ r \in Recipes /\ r \in used
  <2>1. sweep[h].left \subseteq used
    BY Same
  <2> QED
    BY <2>1, RestType
<1>4. CASE UNCHANGED <<pc, job>>
  <2>1. pc' = [pc EXCEPT ![h] = "sweep"]
    BY <1>2, <1>4, Same
  <2> QED
    BY <1>1, <1>2, <1>3, <1>4, <2>1, SweepStep
<1>5. CASE /\ Wanted(sweep[h].kind, sweep[h].rows[r])
           /\ pc' = [pc EXCEPT ![h] = "read"]
           /\ job' = [job EXCEPT ![h] = VisitJob(sweep[h], r)]
  <2>1. VisitJob(sweep[h], r) \in Requests /\ Proper(VisitJob(sweep[h], r)) /\ VisitJob(sweep[h], r).r = r
    <3>1. CASE sweep[h].kind = "timeouts"
      <4>1. TimeoutTarget[sweep[h].rows[r].lifecycle] \in States
        BY <1>5, <3>1, TargetType DEF Wanted, TimedOut
      <4>2. VisitJob(sweep[h], r) =
                Request("machine", r, TimeoutTarget[sweep[h].rows[r].lifecycle], "timeout-recovery")
        BY <3>1 DEF VisitJob
      <4>3. /\ TimeoutTarget[sweep[h].rows[r].lifecycle] \in Args /\ "machine" \in AllOps
            /\ "timeout-recovery" \in Whys
        BY <4>1 DEF Args, AllOps, Whys
      <4> QED
        BY <1>3, <4>1, <4>2, <4>3, RequestType DEF Proper
    <3>2. CASE VisitJob(sweep[h], r) = Request("rollback", r, 0, "staging_rollback")
      BY <1>3, <3>2, RequestType DEF Proper, AllOps, Args, Whys
    <3>3. CASE VisitJob(sweep[h], r) = Request("machine", r, "active", "grace-period-expire")
      BY <1>3, <3>3, RequestType DEF Proper, AllOps, Args, Whys, States
    <3> QED
      BY <3>1, <3>2, <3>3 DEF VisitJob
  <2>2. /\ seen' = [seen EXCEPT ![h] = seen[h]] /\ new' = [new EXCEPT ![h] = new[h]]
        /\ seen[h] \in Row /\ new[h] \in Row /\ used \subseteq Recipes
    BY <1>2, Same
  <2>3. /\ used' = used /\ stored' \subseteq used /\ disk' \subseteq used /\ diverged' \cup verified' \subseteq used
        /\ row' \in [Recipes -> Row] /\ file' \in [Recipes -> Row]
    BY <1>2, Same
  <2> DEFINE s == Rest(sweep[h], r)
             j == VisitJob(sweep[h], r)
  <2>4. sweep' = [sweep EXCEPT ![h] = s] /\ job' = [job EXCEPT ![h] = j]
    BY <1>1, <1>5
  <2>5. s \in Sweeps /\ s.left \subseteq used' /\ j \in Requests /\ Proper(j) /\ j.r \in used'
    BY <1>3, <2>1, <2>3
  <2>6. pc' = [pc EXCEPT ![h] = "read"]
    BY <1>5
  <2> HIDE DEF s, j
  <2> QED
    BY <2>2, <2>3, <2>4, <2>5, <2>6, OneHost
<1> QED
  BY <1>1, <1>4, <1>5

LEMMA StepTick == ASSUME HostsInv, Tick PROVE HostsInv'
<1>1. /\ row' = [r \in Recipes |-> IF r \in stored THEN Aged(row[r]) ELSE row[r]]
      /\ file' = [r \in Recipes |-> IF r \in disk THEN Aged(file[r]) ELSE file[r]]
      /\ UNCHANGED <<stored, disk, used, diverged, verified, pc, job, seen, new, sweep>>
  BY DEF Tick
<1>2. row \in [Recipes -> Row] /\ file \in [Recipes -> Row]
  BY DEF HostsInv, TypeOK
<1>3. row' \in [Recipes -> Row] /\ file' \in [Recipes -> Row]
  BY <1>1, <1>2, AgedType
<1>4. /\ stored \subseteq used /\ disk \subseteq used /\ diverged \cup verified \subseteq used
      /\ used \subseteq Recipes
  BY DEF HostsInv, TypeOK
<1> QED
  BY <1>1, <1>3, <1>4, Elsewhere

LEMMA HostsInit == Init => HostsInv
<1> SUFFICES ASSUME Init PROVE HostsInv
  OBVIOUS
<1>1. TypeOK /\ used \subseteq Recipes
  BY BlankType DEF Init, TypeOK
<1>2. job \in [Hosts -> Requests \cup {NoJob}] /\ sweep \in [Hosts -> Sweeps]
  BY NoSweepType DEF Init
<1>3. ASSUME NEW h \in Hosts PROVE HostOK(h)
  BY NoSweepType DEF Init, HostOK, Busy
<1> QED
  BY <1>1, <1>2, <1>3 DEF HostsInv

LEMMA HostsStep == HostsInv /\ [Next]_vars => HostsInv'
<1> SUFFICES ASSUME HostsInv, [Next]_vars PROVE HostsInv'
  OBVIOUS
<1>1. CASE Tick
  BY <1>1, StepTick
<1>2. ASSUME NEW h \in Hosts, HostNext(h) PROVE HostsInv'
  BY <1>2, StepCreate, StepBegin, StepBeginSweep, StepRead, StepRefuse, StepFileFails, StepReread,
     StepPersist, StepPersistService, StepRemoveFile, StepVerify, StepCommit, StepCommitDelete,
     StepCommitFails, StepQuery, StepVisit DEF HostNext, Work
<1>3. CASE UNCHANGED vars
  <2>1. /\ UNCHANGED <<stored, row, disk, file, used, diverged, verified, pc, job, seen, new, sweep>>
    BY <1>3 DEF vars
  <2>2. /\ stored \subseteq used /\ disk \subseteq used /\ diverged \cup verified \subseteq used
        /\ row \in [Recipes -> Row] /\ file \in [Recipes -> Row] /\ used \subseteq Recipes
    BY DEF HostsInv, TypeOK
  <2> QED
    BY <2>1, <2>2, Elsewhere
<1> QED
  BY <1>1, <1>2, <1>3 DEF Next

-----------------------------------------------------------------------------
(***************************************************************************)
(* The inductive invariant of a host that has the store to itself.         *)
(*                                                                         *)
(* The other hosts stay idle, so between two steps of h nothing moves under*)
(* it: what its operation was asked for still holds (Justified), the row   *)
(* it read is the row there is, the row it is about to write is its edit   *)
(* of that row, and the entries a sweep has left are as they were queried. *)
(***************************************************************************)
Justified(h) == LET j == job[h] x == row[j.r] IN
    /\ j.op = "machine" =>
         \/ <<j.arg, j.why>> \in MachineRequests
         \/ j.why = "decay-detection" /\ j.arg = "decaying" /\ x.lifecycle = "active"
         \/ j.why = "timeout-recovery" /\ TimedOut(x) /\ j.arg = TimeoutTarget[x.lifecycle]
         \/ j.why = "grace-period-expire" /\ j.arg = "active" /\ Due(x) /\ x.review # "fail"
    /\ j.op = "rollback" /\ sweep[h].kind # "none" => Due(x)
    /\ j.op = "published" => x.lifecycle = "active" /\ cause[j.r] = "grace-period-expire"
SweepOK(h) == /\ sweep[h].kind = "none" => sweep[h] = NoSweep
              /\ pc[h] = "idle" => sweep[h].kind = "none"
              /\ \A r \in sweep[h].left : r \in stored /\ sweep[h].rows[r] = row[r]
JobOK(h) == /\ job[h].r \notin sweep[h].left
            /\ Justified(h)
            /\ pc[h] # "read" => /\ job[h].r \in stored
                                 /\ job[h].op # "published" => seen[h] = row[job[h].r]
            /\ pc[h] \in {"file", "db"} /\ job[h].op # "delete" =>
                   Accepted(h) /\ new[h] = Edit(h, row[job[h].r])
(* A file says what its row says, but for the recipe whose row h is about  *)
(* to write, and those a DivergenceError was raised for.                   *)
Mirrored(h, r) ==
    IF pc[h] = "db" /\ job[h].r = r
    THEN /\ r \notin verified
         /\ IF job[h].op = "delete" THEN r \notin disk /\ file[r] = Blank
                                    ELSE r \in disk /\ file[r] = new[h]
    ELSE (r \in stored <=> r \in disk) /\ SaysTheSame(r)
Solo(h) == /\ SweepOK(h)
           /\ Busy(h) => JobOK(h)
           /\ \A r \in used \ diverged : Mirrored(h, r)
CauseOK == /\ cause \in [Recipes -> Whys \cup {"created"}]
           /\ \A r \in Recipes \ used : cause[r] = "created"
AloneInv == /\ CauseOK
            /\ \A g \in Others : pc[g] = "idle"
            /\ \A h \in Hosts \ Others : Solo(h)

(* Where h is not about to write a row, every file says what its row says. *)
LEMMA Synced == ASSUME NEW h \in Hosts, Solo(h), pc[h] # "db"
                PROVE  \A r \in used \ diverged : (r \in stored <=> r \in disk) /\ SaysTheSame(r)
  BY DEF Solo, Mirrored

(* An operation ends: the sweep it is in goes on over rows that are as they*)
(* were queried.                                                           *)
LEMMA ReturnSolo ==
    ASSUME HostsInv, NEW h \in Hosts, Solo(h), NEW how, Returned(h, how),
           \A q \in sweep[h].left : q \in stored' /\ row'[q] = row[q],
           \A r \in used' \ diverged' : (r \in stored' <=> r \in disk') /\ SaysTheSame(r)'
    PROVE  Solo(h)'
<1>1. /\ pc' = [pc EXCEPT ![h] = IF sweep[h].kind = "none" \/ how = "throws" THEN "idle" ELSE "sweep"]
      /\ sweep' = IF how = "throws" THEN [sweep EXCEPT ![h] = NoSweep] ELSE sweep
  BY DEF Returned
<1>2. pc'[h] = IF sweep[h].kind = "none" \/ how = "throws" THEN "idle" ELSE "sweep"
  BY <1>1 DEF HostsInv, TypeOK
<1>3. sweep'[h] = IF how = "throws" THEN NoSweep ELSE sweep[h]
  BY <1>1 DEF HostsInv
<1>4. NoSweep.kind = "none" /\ NoSweep.left = {}
  BY DEF NoSweep
<1>5. SweepOK(h)'
  <2>1. SweepOK(h)
    BY DEF Solo
  <2>2. CASE how = "throws"
    BY <1>2, <1>3, <1>4, <2>2 DEF SweepOK
  <2>3. CASE how # "throws"
    BY <1>2, <1>3, <2>1, <2>3 DEF SweepOK
  <2> QED
    BY <2>2, <2>3
<1>6. ~Busy(h)' /\ pc'[h] # "db"
  BY <1>2 DEF Busy
<1> QED
  BY <1>5, <1>6 DEF Solo, Mirrored

(* The same where nothing but the operation's own variables changes. *)
LEMMA ReturnIdle ==
    ASSUME HostsInv, NEW h \in Hosts, Solo(h), pc[h] # "db", NEW how, Returned(h, how),
           UNCHANGED <<stored, row, disk, file, used, diverged, verified>>
    PROVE  Solo(h)'
<1>1. \A q \in sweep[h].left : q \in stored' /\ row'[q] = row[q]
  BY DEF Solo, SweepOK
<1>2. \A r \in used' \ diverged' : (r \in stored' <=> r \in disk') /\ SaysTheSame(r)'
  BY Synced DEF SaysTheSame
<1> QED
  BY <1>1, <1>2, ReturnSolo

(* A step within an operation keeps what the operation rests on.           *)
LEMMA Keeps ==
    ASSUME HostsInv, NEW h \in Hosts, Solo(h), Busy(h), UNCHANGED <<stored, row, cause, job, sweep>>
    PROVE  /\ job[h].r \notin sweep'[h].left /\ Justified(h)'
           /\ SweepOK(h) /\ JobOK(h)
           /\ pc'[h] # "idle" => SweepOK(h)'
           /\ seen'[h] = seen[h] =>
                /\ Accepted(h)' = Accepted(h)
                /\ Edit(h, row[job[h].r])' = Edit(h, row[job[h].r])
<1>1. SweepOK(h) /\ JobOK(h)
  BY DEF Solo
<1>2. job[h].r \notin sweep'[h].left
  BY <1>1 DEF JobOK
<1>3. Justified(h)'
  BY <1>1 DEF JobOK, Justified
<1>4. pc'[h] # "idle" => SweepOK(h)'
  BY <1>1 DEF SweepOK
<1>5. ASSUME seen'[h] = seen[h]
      PROVE  /\ Accepted(h)' = Accepted(h)
             /\ Edit(h, row[job[h].r])' = Edit(h, row[job[h].r])
  BY <1>5 DEF Accepted, Edit
<1> QED
  BY <1>1, <1>2, <1>3, <1>4, <1>5

LEMMA SoloCreate == ASSUME HostsInv, NEW h \in Hosts, Solo(h), Create(h) PROVE Solo(h)'
<1>1. PICK r \in Recipes \ used, x \in NewRows :
          /\ used' = used \cup {r} /\ disk' = disk \cup {r} /\ file' = [file EXCEPT ![r] = x]
          /\ \/ stored' = stored \cup {r} /\ row' = [row EXCEPT ![r] = x] /\ UNCHANGED diverged
             \/ diverged' = diverged \cup {r} /\ UNCHANGED <<stored, row>>
  BY DEF Create
<1>2. pc[h] = "idle" /\ UNCHANGED <<cause, verified, pc, job, seen, new, sweep>>
  BY DEF Create, Idle
<1>3. sweep[h].left = {} /\ SweepOK(h)
  BY <1>2, NoSweepType DEF Solo, SweepOK
<1>4. SweepOK(h)' /\ ~Busy(h)'
  BY <1>2, <1>3 DEF SweepOK, Busy
<1>5. /\ row \in [Recipes -> Row] /\ file \in [Recipes -> Row] /\ diverged \cup verified \subseteq used
      /\ used \subseteq Recipes
  BY Same
<1>6. ASSUME NEW q \in used' \ diverged'
      PROVE  (q \in stored' <=> q \in disk') /\ SaysTheSame(q)'
  <2>1. CASE q = r
    BY <1>1, <1>2, <1>5, <1>6, <2>1 DEF SaysTheSame
  <2>2. CASE q # r
    <3>1. q \in used \ diverged
      BY <1>1, <1>6, <2>2
    <3>2. (q \in stored <=> q \in disk) /\ SaysTheSame(q)
      BY <1>2, <3>1, Synced
    <3>3. file'[q] = file[q] /\ row'[q] = row[q]
      BY <1>1, <1>5, <2>2, <3>1
    <3> QED
      BY <1>1, <1>2, <2>2, <3>2, <3>3 DEF SaysTheSame
  <2> QED
    BY <2>1, <2>2
<1> QED
  BY <1>2, <1>4, <1>6 DEF Solo, Mirrored

LEMMA SoloStart ==
    ASSUME HostsInv, NEW h \in Hosts, Solo(h), NEW j \in Requests, Start(h, j),
           j.op # "published",
           j.op = "machine" => \/ <<j.arg, j.why>> \in MachineRequests
                               \/ /\ j.why = "decay-detection" /\ j.arg = "decaying"
                                  /\ row[j.r].lifecycle = "active"
    PROVE  Solo(h)'
<1>1. /\ job' = [job EXCEPT ![h] = j] /\ pc' = [pc EXCEPT ![h] = "read"] /\ pc[h] = "idle"
      /\ UNCHANGED <<stored, row, cause, disk, file, used, diverged, verified, seen, new, sweep>>
  BY DEF Start, store, Idle
<1>2. job'[h] = j /\ pc'[h] = "read"
  BY <1>1 DEF HostsInv, TypeOK
<1>3. sweep'[h] = NoSweep /\ NoSweep.left = {} /\ NoSweep.kind = "none"
  BY <1>1 DEF Solo, SweepOK, NoSweep
<1>4. SweepOK(h)'
  BY <1>2, <1>3 DEF SweepOK
<1>5. Justified(h)'
  BY <1>1, <1>2, <1>3 DEF Justified
<1>6. JobOK(h)'
  BY <1>2, <1>3, <1>5 DEF JobOK
<1>7. \A r \in used' \ diverged' : Mirrored(h, r)'
  BY <1>1, <1>2, Synced DEF Mirrored, SaysTheSame
<1> QED
  BY <1>4, <1>6, <1>7 DEF Solo

LEMMA SoloBegin == ASSUME HostsInv, NEW h \in Hosts, Solo(h), Begin(h) PROVE Solo(h)'
<1>1. PICK r \in stored :
    \/ \E q \in MachineRequests : Start(h, Request("machine", r, q[1], q[2]))
    \/ /\ row[r].lifecycle = "active"
       /\ Start(h, Request("machine", r, "decaying", "decay-detection"))
    \/ \E op \in UserOps : Start(h, Request("user", r, op, "user"))
    \/ \E g \in Graces : Start(h, Request("enter", r, g, "enter_staging"))
    \/ \E v \in {"pass", "fail"} : Start(h, Request("review", r, v, "keep"))
    \/ \E b \in BOOLEAN : Start(h, Request("content", r, b, "keep"))
    \/ Start(h, Request("rollback", r, 0, "staging_rollback"))
    \/ \E op \in {"use", "valid"} : Start(h, Request(op, r, 0, "keep"))
    \/ Start(h, Request("delete", r, 0, "keep"))
  BY DEF Begin
<1>2. r \in Recipes
  BY Same
<1>3. CASE \E q \in MachineRequests : Start(h, Request("machine", r, q[1], q[2]))
  <2>1. PICK q \in MachineRequests : Start(h, Request("machine", r, q[1], q[2]))
    BY <1>3
  <2>2. q[1] \in Args /\ q[2] \in Whys /\ <<q[1], q[2]>> \in MachineRequests
    BY DEF MachineRequests, States, Whys, Args
  <2> QED
    BY <1>2, <2>1, <2>2, RequestType, SoloStart DEF AllOps
<1>4. CASE /\ row[r].lifecycle = "active"
           /\ Start(h, Request("machine", r, "decaying", "decay-detection"))
  <2>1. "decaying" \in Args /\ "decay-detection" \in Whys /\ "machine" \in AllOps
    BY DEF Args, States, Whys, AllOps
  <2> DEFINE j == Request("machine", r, "decaying", "decay-detection")
  <2>2. /\ j \in Requests /\ j.op = "machine" /\ j.r = r /\ j.arg = "decaying"
        /\ j.why = "decay-detection"
    BY <1>2, <2>1, RequestType
  <2>3. Start(h, j) /\ row[r].lifecycle = "active"
    BY <1>4
  <2> HIDE DEF j
  <2> QED
    BY <2>2, <2>3, SoloStart
<1>5. ASSUME NEW op \in AllOps \ {"machine", "published"}, NEW arg \in Args, NEW why \in Whys,
             Start(h, Request(op, r, arg, why))
      PROVE  Solo(h)'
  <2> DEFINE j == Request(op, r, arg, why)
  <2>1. j \in Requests /\ j.op = op
    BY <1>2, RequestType
  <2>2. Start(h, j)
    BY <1>5
  <2> HIDE DEF j
  <2> QED
    BY <2>1, <2>2, SoloStart
<1>6. /\ \A op \in UserOps : op \in Args
      /\ \A g \in Graces : g \in Args
      /\ \A v \in {"pass", "fail"} : v \in Args
      /\ \A b \in BOOLEAN : b \in Args
      /\ 0 \in Args
  BY DEF Args
<1>7. /\ {"user", "enter_staging", "keep", "staging_rollback"} \subseteq Whys
      /\ {"user", "enter", "review", "content", "rollback", "use", "delete", "valid"}
           \subseteq AllOps \ {"machine", "published"}
  BY DEF AllOps, Whys
<1> QED
  BY <1>1, <1>3, <1>4, <1>5, <1>6, <1>7

LEMMA SoloRead == ASSUME HostsInv, NEW h \in Hosts, Solo(h), Read(h) PROVE Solo(h)'
<1>1. /\ Busy(h) /\ pc[h] = "read"
      /\ UNCHANGED <<stored, row, cause, disk, file, used, diverged, verified>>
  BY DEF Read, store, Busy
<1>2. CASE Returned(h, "refused")
  BY <1>1, <1>2, ReturnIdle
<1>3. CASE /\ job[h].r \in stored /\ seen' = [seen EXCEPT ![h] = row[job[h].r]]
           /\ pc' = [pc EXCEPT ![h] = "check"] /\ UNCHANGED <<sweep, new, job>>
  <2>1. pc'[h] = "check" /\ seen'[h] = row[job[h].r]
    BY <1>3 DEF HostsInv, TypeOK
  <2>2. SweepOK(h)' /\ job'[h].r \notin sweep'[h].left /\ Justified(h)'
    BY <1>1, <1>3, <2>1, Keeps
  <2>3. JobOK(h)'
    BY <1>1, <1>3, <2>1, <2>2 DEF JobOK
  <2>4. \A r \in used' \ diverged' : Mirrored(h, r)'
    BY <1>1, <2>1, Synced DEF Mirrored, SaysTheSame
  <2> QED
    BY <2>2, <2>3, <2>4 DEF Solo
<1> QED
  BY <1>2, <1>3 DEF Read

LEMMA SoloRefuse == ASSUME HostsInv, NEW h \in Hosts, Solo(h), Refuse(h) PROVE Solo(h)'
<1>1. /\ Busy(h) /\ pc[h] = "check" /\ ~Accepted(h)
      /\ UNCHANGED <<stored, row, disk, file, used, diverged, verified>>
  BY DEF Refuse, store, Busy
<1>2. ~(job[h].op = "rollback" /\ sweep[h].kind # "none")
  <2> SUFFICES ASSUME job[h].op = "rollback", sweep[h].kind # "none" PROVE FALSE
    OBVIOUS
  <2>1. Due(row[job[h].r]) /\ seen[h] = row[job[h].r]
    BY <1>1 DEF Solo, JobOK, Justified
  <2> QED
    BY <1>1, <2>1 DEF Accepted, Due
<1>3. Returned(h, "refused")
  BY <1>2 DEF Refuse
<1> QED
  BY <1>1, <1>3, ReturnIdle

LEMMA SoloFileFails == ASSUME HostsInv, NEW h \in Hosts, Solo(h), FileFails(h) PROVE Solo(h)'
<1>1. /\ Returned(h, "throws") /\ pc[h] # "db"
      /\ UNCHANGED <<stored, row, disk, file, used, diverged, verified>>
  BY DEF FileFails, store
<1> QED
  BY <1>1, ReturnIdle

LEMMA SoloReread == ASSUME HostsInv, NEW h \in Hosts, Solo(h), Reread(h) PROVE Solo(h)'
<1>1. /\ Busy(h) /\ pc[h] = "check" /\ Accepted(h)
      /\ UNCHANGED <<stored, row, cause, disk, file, used, diverged, verified>>
  BY DEF Reread, store, Busy
<1>2. JobOK(h)
  BY <1>1 DEF Solo
<1>3. /\ new' = [new EXCEPT ![h] = Edit(h, row[job[h].r])] /\ pc' = [pc EXCEPT ![h] = "file"]
      /\ UNCHANGED <<sweep, seen, job>>
  BY <1>1, <1>2 DEF Reread, JobOK
<1>4. pc'[h] = "file" /\ new'[h] = Edit(h, row[job[h].r])
  BY <1>3 DEF HostsInv, TypeOK
<1>5. /\ SweepOK(h)' /\ job'[h].r \notin sweep'[h].left /\ Justified(h)'
      /\ Accepted(h)' = Accepted(h) /\ Edit(h, row[job[h].r])' = Edit(h, row[job[h].r])
  BY <1>1, <1>3, <1>4, Keeps
<1>6. JobOK(h)'
  BY <1>1, <1>2, <1>3, <1>4, <1>5 DEF JobOK
<1>7. \A r \in used' \ diverged' : Mirrored(h, r)'
  BY <1>1, <1>4, Synced DEF Mirrored, SaysTheSame
<1> QED
  BY <1>5, <1>6, <1>7 DEF Solo

LEMMA SoloPersist == ASSUME HostsInv, NEW h \in Hosts, Solo(h), Persist(h) PROVE Solo(h)'
<1>1. /\ Busy(h) /\ pc[h] = "file" /\ WriteFile(job[h].r, new[h])
      /\ UNCHANGED <<stored, row, cause, used>>
  BY DEF Persist, Busy
<1>2. JobOK(h) /\ job[h].r \in Recipes /\ job[h].op # "delete"
  BY <1>1, BusyRow DEF Solo, HostsInv, HostOK, NoFile
<1>3. pc' = [pc EXCEPT ![h] = "db"] /\ UNCHANGED <<diverged, sweep, seen, new, job>>
  BY <1>1, <1>2 DEF Persist, JobOK
<1>4. pc'[h] = "db"
  BY <1>3 DEF HostsInv, TypeOK
<1>5. /\ SweepOK(h)' /\ job'[h].r \notin sweep'[h].left /\ Justified(h)'
      /\ Accepted(h)' = Accepted(h) /\ Edit(h, row[job[h].r])' = Edit(h, row[job[h].r])
  BY <1>1, <1>3, <1>4, Keeps
<1>6. JobOK(h)'
  BY <1>1, <1>2, <1>3, <1>4, <1>5 DEF JobOK
<1>7. ASSUME NEW q \in used' \ diverged' PROVE Mirrored(h, q)'
  <2>1. /\ disk' = disk \cup {job[h].r} /\ file' = [file EXCEPT ![job[h].r] = new[h]]
        /\ verified' = verified \ {job[h].r}
    BY <1>1 DEF WriteFile
  <2>2. file \in [Recipes -> Row]
    BY Same
  <2>3. CASE q = job[h].r
    BY <1>2, <1>3, <1>4, <2>1, <2>2, <2>3 DEF Mirrored
  <2>4. CASE q # job[h].r
    <3>1. (q \in stored <=> q \in disk) /\ SaysTheSame(q)
      BY <1>1, <1>3, Synced
    <3>2. file'[q] = file[q]
      BY <2>1, <2>2, <2>4
    <3> QED
      BY <1>1, <1>3, <2>1, <2>4, <3>1, <3>2 DEF Mirrored, SaysTheSame
  <2> QED
    BY <2>3, <2>4
<1> QED
  BY <1>5, <1>6, <1>7 DEF Solo

LEMMA SoloPersistService ==
    ASSUME HostsInv, NEW h \in Hosts, Solo(h), PersistService(h) PROVE Solo(h)'
<1>1. /\ Busy(h) /\ pc[h] = "check" /\ WriteFile(job[h].r, Edit(h, seen[h])) /\ Accepted(h)
      /\ UNCHANGED <<stored, row, cause, used>> /\ job[h].op \in {"user", "content"}
  BY DEF PersistService, Busy, Service
<1>2. JobOK(h) /\ job[h].r \in Recipes
  BY <1>1, BusyRow DEF Solo
<1>3. seen[h] = row[job[h].r]
  BY <1>1, <1>2 DEF JobOK
<1>4. /\ new' = [new EXCEPT ![h] = Edit(h, row[job[h].r])] /\ pc' = [pc EXCEPT ![h] = "db"]
      /\ UNCHANGED <<diverged, sweep, seen, job>>
  BY <1>1, <1>2 DEF PersistService, JobOK
<1>5. pc'[h] = "db" /\ new'[h] = Edit(h, row[job[h].r])
  BY <1>4 DEF HostsInv, TypeOK
<1>6. /\ SweepOK(h)' /\ job'[h].r \notin sweep'[h].left /\ Justified(h)'
      /\ Accepted(h)' = Accepted(h) /\ Edit(h, row[job[h].r])' = Edit(h, row[job[h].r])
  BY <1>1, <1>4, <1>5, Keeps
<1>7. JobOK(h)'
  BY <1>1, <1>2, <1>4, <1>5, <1>6 DEF JobOK
<1>8. ASSUME NEW q \in used' \ diverged' PROVE Mirrored(h, q)'
  <2>1. /\ disk' = disk \cup {job[h].r} /\ file' = [file EXCEPT ![job[h].r] = Edit(h, row[job[h].r])]
        /\ verified' = verified \ {job[h].r}
    BY <1>1, <1>3 DEF WriteFile
  <2>2. file \in [Recipes -> Row]
    BY Same
  <2>3. CASE q = job[h].r
    BY <1>1, <1>2, <1>4, <1>5, <2>1, <2>2, <2>3 DEF Mirrored
  <2>4. CASE q # job[h].r
    <3>1. (q \in stored <=> q \in disk) /\ SaysTheSame(q)
      BY <1>1, <1>4, Synced
    <3>2. file'[q] = file[q]
      BY <2>1, <2>2, <2>4
    <3> QED
      BY <1>1, <1>4, <2>1, <2>4, <3>1, <3>2 DEF Mirrored, SaysTheSame
  <2> QED
    BY <2>3, <2>4
<1> QED
  BY <1>6, <1>7, <1>8 DEF Solo

LEMMA SoloRemoveFile == ASSUME HostsInv, NEW h \in Hosts, Solo(h), RemoveFile(h) PROVE Solo(h)'
<1>1. /\ Busy(h) /\ pc[h] = "check" /\ job[h].op = "delete"
      /\ UNCHANGED <<stored, row, cause, used, diverged, job, seen, new, sweep>>
      /\ disk' = disk \ {job[h].r} /\ file' = [file EXCEPT ![job[h].r] = Blank]
      /\ pc' = [pc EXCEPT ![h] = "db"] /\ verified' = verified \ {job[h].r}
  BY DEF RemoveFile, Busy
<1>2. JobOK(h) /\ job[h].r \in Recipes
  BY <1>1, BusyRow DEF Solo
<1>3. pc'[h] = "db" /\ file \in [Recipes -> Row]
  BY <1>1 DEF HostsInv, TypeOK
<1>4. SweepOK(h)' /\ job'[h].r \notin sweep'[h].left /\ Justified(h)'
  BY <1>1, <1>3, Keeps
<1>5. JobOK(h)'
  BY <1>1, <1>2, <1>3, <1>4 DEF JobOK
<1>6. ASSUME NEW q \in used' \ diverged' PROVE Mirrored(h, q)'
  <2>1. CASE q = job[h].r
    BY <1>1, <1>2, <1>3, <2>1 DEF Mirrored
  <2>2. CASE q # job[h].r
    <3>1. (q \in stored <=> q \in disk) /\ SaysTheSame(q)
      BY <1>1, Synced
    <3>2. file'[q] = file[q]
      BY <1>1, <1>3, <2>2
    <3> QED
      BY <1>1, <2>2, <3>1, <3>2 DEF Mirrored, SaysTheSame
  <2> QED
    BY <2>1, <2>2
<1> QED
  BY <1>4, <1>5, <1>6 DEF Solo

(* A row found valid is written as it was, but for the time of the update. *)
LEMMA SoloVerify == ASSUME HostsInv, NEW h \in Hosts, Solo(h), Verify(h) PROVE Solo(h)'
<1> DEFINE r == job[h].r
<1>1. /\ Busy(h) /\ pc[h] = "check" /\ job[h].op = "valid" /\ Returned(h, "done")
      /\ UNCHANGED <<stored, disk, file, used, diverged>>
      /\ \/ /\ row' = [row EXCEPT ![r] = Touched(WithStats(@, seen[h]))]
            /\ verified' = verified \cup {r}
         \/ UNCHANGED <<row, verified>>
  BY DEF Verify, Busy
<1>2. JobOK(h) /\ SweepOK(h) /\ r \in Recipes /\ row[r] \in Row
  BY <1>1, BusyRow DEF Solo
<1>3. seen[h] = row[r]
  BY <1>1, <1>2 DEF JobOK
<1>4. /\ row \in [Recipes -> Row] /\ file \in [Recipes -> Row] /\ used \subseteq Recipes
  BY Same
<1>5. Touched(WithStats(row[r], seen[h])) = [row[r] EXCEPT !.age = 0]
  <2>1. WithStats(row[r], row[r]) = row[r]
    BY <1>2 DEF WithStats, Row
  <2> QED
    BY <1>3, <2>1 DEF Touched
<1>6. \A q \in Recipes : q # r => row'[q] = row[q]
  BY <1>1, <1>4
<1>7. \A q \in sweep[h].left : q \in stored' /\ row'[q] = row[q]
  BY <1>1, <1>2, <1>6, RestType DEF SweepOK, JobOK
<1>8. ASSUME NEW q \in used' \ diverged'
      PROVE  (q \in stored' <=> q \in disk') /\ SaysTheSame(q)'
  <2>1. (q \in stored <=> q \in disk) /\ SaysTheSame(q) /\ q \in Recipes
    BY <1>1, <1>4, Synced
  <2>2. CASE UNCHANGED <<row, verified>>
    BY <1>1, <2>1, <2>2 DEF SaysTheSame
  <2>3. CASE q # r
    BY <1>1, <1>6, <2>1, <2>3 DEF SaysTheSame
  <2>4. CASE q = r /\ row' = [row EXCEPT ![r] = Touched(WithStats(@, seen[h]))]
                  /\ verified' = verified \cup {r}
    <3>1. row'[r] = [row[r] EXCEPT !.age = 0] /\ row'[r].age = 0
      BY <1>2, <1>4, <1>5, <2>4 DEF Row
    <3>2. row[r] = [file[r] EXCEPT !.age = row[r].age] \/ row[r] = file[r]
      BY <2>1, <2>4 DEF SaysTheSame
    <3>3. file[r] \in Row
      BY <1>2, <1>4
    <3>4. row'[r] = [file[r] EXCEPT !.age = 0]
      BY <1>2, <3>1, <3>2, <3>3 DEF Row
    <3> QED
      BY <1>1, <2>1, <2>4, <3>1, <3>4 DEF SaysTheSame
  <2> QED
    BY <1>1, <2>2, <2>3, <2>4
<1> QED
  BY <1>1, <1>7, <1>8, ReturnSolo

LEMMA SoloCommit == ASSUME HostsInv, CauseOK, NEW h \in Hosts, Solo(h), Commit(h) PROVE Solo(h)'
<1> DEFINE r == job[h].r
<1>1. /\ Busy(h) /\ pc[h] = "db" /\ job[h].op # "delete"
      /\ UNCHANGED <<stored, disk, file, used, diverged, verified>>
      /\ row' = [row EXCEPT ![r] = new[h]]
      /\ cause' = IF job[h].why = "keep" THEN cause ELSE [cause EXCEPT ![r] = job[h].why]
  BY DEF Commit, Busy
<1>2. JobOK(h) /\ SweepOK(h) /\ r \in Recipes /\ Proper(job[h])
  BY <1>1, BusyRow DEF Solo
<1>3. row \in [Recipes -> Row] /\ used \subseteq Recipes
  BY Same
<1>4. row'[r] = new[h] /\ \A q \in Recipes : q # r => row'[q] = row[q]
  BY <1>1, <1>2, <1>3
<1>5. \A q \in sweep[h].left : q \in stored' /\ row'[q] = row[q]
  BY <1>1, <1>2, <1>4, RestType DEF SweepOK, JobOK
<1>6. ASSUME NEW q \in used' \ diverged'
      PROVE  (q \in stored' <=> q \in disk') /\ SaysTheSame(q)'
  <2>1. Mirrored(h, q) /\ r \in stored /\ q \in Recipes
    BY <1>1, <1>2, <1>3, <1>6 DEF Solo, JobOK
  <2>2. CASE q = r
    BY <1>1, <1>4, <2>1, <2>2 DEF Mirrored, SaysTheSame
  <2>3. CASE q # r
    BY <1>1, <1>4, <2>1, <2>3 DEF Mirrored, SaysTheSame
  <2> QED
    BY <2>2, <2>3
<1>7. CASE job[h].why # "grace-period-expire"
  <2>1. Returned(h, "done")
    BY <1>7 DEF Commit
  <2> QED
    BY <1>5, <1>6, <2>1, ReturnSolo
<1>8. CASE job[h].why = "grace-period-expire"
  <2>1. /\ job' = [job EXCEPT ![h] = Request("published", r, 0, "keep")]
        /\ pc' = [pc EXCEPT ![h] = "check"] /\ UNCHANGED <<sweep, seen, new>>
    BY <1>8 DEF Commit
  <2>2. pc'[h] = "check" /\ job'[h] = Request("published", r, 0, "keep")
    BY <2>1 DEF HostsInv, TypeOK
  <2>3. job'[h].op = "published" /\ job'[h].r = r
    BY <2>2 DEF Request
  <2>4. job[h].op = "machine"
    BY <1>1, <1>2, <1>8 DEF Proper, Requests, AllOps
  <2>5. job[h].arg = "active"
    BY <1>2, <1>8, <2>4 DEF JobOK, Justified, MachineRequests
  <2>6. new[h].lifecycle = "active"
    <3>1. new[h] = MachineRow(seen[h], row[r], "active")
      BY <1>1, <1>2, <2>4, <2>5 DEF JobOK, Edit
    <3>2. row[r] \in Row
      BY <1>2, <1>3
    <3> QED
      BY <3>1, <3>2 DEF MachineRow, Moved, Touched, WithStats, Row
  <2>7. cause'[r] = "grace-period-expire"
    BY <1>1, <1>2, <1>8 DEF CauseOK
  <2>8. Justified(h)'
    BY <1>4, <2>3, <2>6, <2>7 DEF Justified
  <2>9. JobOK(h)'
    BY <1>1, <1>2, <2>1, <2>2, <2>3, <2>8 DEF JobOK
  <2>10. SweepOK(h)'
    BY <1>2, <1>5, <2>1, <2>2 DEF SweepOK
  <2>11. \A q \in used' \ diverged' : Mirrored(h, q)'
    BY <1>6, <2>2 DEF Mirrored
  <2> QED
    BY <2>9, <2>10, <2>11 DEF Solo
<1> QED
  BY <1>7, <1>8

LEMMA SoloCommitDelete == ASSUME HostsInv, NEW h \in Hosts, Solo(h), CommitDelete(h) PROVE Solo(h)'
<1> DEFINE r == job[h].r
<1>1. /\ Busy(h) /\ pc[h] = "db" /\ job[h].op = "delete" /\ Returned(h, "done")
      /\ UNCHANGED <<disk, file, used, diverged, verified>>
      /\ stored' = stored \ {r} /\ row' = [row EXCEPT ![r] = Blank]
  BY DEF CommitDelete, Busy
<1>2. JobOK(h) /\ SweepOK(h) /\ r \in Recipes
  BY <1>1, BusyRow DEF Solo
<1>3. row \in [Recipes -> Row] /\ used \subseteq Recipes
  BY Same
<1>4. row'[r] = Blank /\ \A q \in Recipes : q # r => row'[q] = row[q]
  BY <1>1, <1>2, <1>3
<1>5. \A q \in sweep[h].left : q \in stored' /\ row'[q] = row[q]
  BY <1>1, <1>2, <1>4, RestType DEF SweepOK, JobOK
<1>6. ASSUME NEW q \in used' \ diverged'
      PROVE  (q \in stored' <=> q \in disk') /\ SaysTheSame(q)'
  <2>1. Mirrored(h, q) /\ q \in Recipes
    BY <1>1, <1>3, <1>6 DEF Solo
  <2>2. CASE q = r
    BY <1>1, <1>4, <2>1, <2>2 DEF Mirrored, SaysTheSame
  <2>3. CASE q # r
    BY <1>1, <1>4, <2>1, <2>3 DEF Mirrored, SaysTheSame
  <2> QED
    BY <2>2, <2>3
<1> QED
  BY <1>1, <1>5, <1>6, ReturnSolo

LEMMA SoloCommitFails == ASSUME HostsInv, NEW h \in Hosts, Solo(h), CommitFails(h) PROVE Solo(h)'
<1> DEFINE r == job[h].r
<1>1. /\ pc[h] = "db" /\ Returned(h, "throws") /\ diverged' = diverged \cup {r}
      /\ UNCHANGED <<stored, row, disk, file, used, verified>>
  BY DEF CommitFails
<1>2. \A q \in sweep[h].left : q \in stored' /\ row'[q] = row[q]
  BY <1>1 DEF Solo, SweepOK
<1>3. \A q \in used' \ diverged' : (q \in stored' <=> q \in disk') /\ SaysTheSame(q)'
  BY <1>1 DEF Solo, Mirrored, SaysTheSame
<1> QED
  BY <1>1, <1>2, <1>3, ReturnSolo

LEMMA SoloBeginSweep == ASSUME HostsInv, NEW h \in Hosts, Solo(h), BeginSweep(h) PROVE Solo(h)'
<1>1. PICK kind \in {"staging", "timeouts"} :
          sweep' = [sweep EXCEPT ![h] =
                      [NoSweep EXCEPT !.kind = kind,
                                      !.states = IF kind = "staging" THEN <<"staging">>
                                                 ELSE <<"evolving", "decaying", "pending">>]]
  BY DEF BeginSweep
<1>2. /\ pc[h] = "idle" /\ pc' = [pc EXCEPT ![h] = "sweep"]
      /\ UNCHANGED <<stored, row, disk, file, used, diverged, verified, job, seen, new>>
  BY DEF BeginSweep, store, Idle
<1>3. pc'[h] = "sweep"
  BY <1>2 DEF HostsInv, TypeOK
<1>4. sweep'[h].kind = kind /\ sweep'[h].left = {}
  BY <1>1 DEF HostsInv, NoSweep
<1>5. SweepOK(h)' /\ ~Busy(h)'
  BY <1>3, <1>4 DEF SweepOK, Busy
<1>6. \A q \in used' \ diverged' : Mirrored(h, q)'
  BY <1>2, <1>3, Synced DEF Mirrored, SaysTheSame
<1> QED
  BY <1>5, <1>6 DEF Solo

LEMMA SoloQuery == ASSUME HostsInv, NEW h \in Hosts, Solo(h), Query(h) PROVE Solo(h)'
<1>1. pc[h] = "sweep" /\ UNCHANGED <<stored, row, disk, file, used, diverged, verified, job, seen, new>>
  BY DEF Query, store
<1>2. pc'[h] \in {"idle", "sweep"} /\ ~Busy(h)'
  BY <1>1 DEF Query, HostsInv, TypeOK, Busy
<1>3. SweepOK(h)'
  <2>1. NoSweep.kind = "none" /\ NoSweep.left = {} /\ NoSweep.states = <<>>
    BY DEF NoSweep
  <2>2. CASE sweep[h].states = <<>>
    <3>1. sweep'[h] = NoSweep
      BY <2>2 DEF Query, HostsInv
    <3> QED
      BY <2>1, <3>1 DEF SweepOK
  <2>3. CASE sweep[h].states # <<>>
    <3>1. sweep' = [sweep EXCEPT ![h] = AfterQuery(sweep[h])] /\ pc' = pc
      BY <2>3 DEF Query, AfterQuery, Found
    <3>2. sweep'[h] = AfterQuery(sweep[h]) /\ pc'[h] = "sweep"
      BY <1>1, <3>1 DEF HostsInv
    <3>3. sweep[h].kind # "none"
      BY <2>1, <2>3 DEF Solo, SweepOK
    <3>4. /\ sweep'[h].kind = sweep[h].kind /\ sweep'[h].left = Found(sweep[h])
          /\ \A q \in Recipes : q \in Found(sweep[h]) => sweep'[h].rows[q] = row[q]
      BY <3>2 DEF AfterQuery
    <3>5. Found(sweep[h]) \subseteq stored /\ stored \subseteq Recipes
      BY Same DEF Found
    <3> QED
      BY <1>1, <3>2, <3>3, <3>4, <3>5 DEF SweepOK
  <2> QED
    BY <2>2, <2>3
<1>4. \A q \in used' \ diverged' : Mirrored(h, q)'
  BY <1>1, <1>2, Synced DEF Mirrored, SaysTheSame
<1> QED
  BY <1>2, <1>3, <1>4 DEF Solo

LEMMA SoloVisit == ASSUME HostsInv, NEW h \in Hosts, Solo(h), Visit(h) PROVE Solo(h)'
<1>1. PICK r \in sweep[h].left :
        /\ sweep' = [sweep EXCEPT ![h] = Rest(sweep[h], r)]
        /\ \/ ~Wanted(sweep[h].kind, sweep[h].rows[r]) /\ UNCHANGED <<pc, job>>
           \/ /\ Wanted(sweep[h].kind, sweep[h].rows[r])
              /\ pc' = [pc EXCEPT ![h] = "read"]
              /\ job' = [job EXCEPT ![h] = VisitJob(sweep[h], r)]
  BY VisitIs
<1>2. pc[h] = "sweep" /\ UNCHANGED <<stored, row, disk, file, used, diverged, verified, seen, new>>
  BY VisitIs
<1>3. /\ Rest(sweep[h], r).left = sweep[h].left \ {r}
      /\ Rest(sweep[h], r).kind = sweep[h].kind
      /\ Rest(sweep[h], r).rows = [sweep[h].rows EXCEPT ![r] = Blank]
      /\ r \in Recipes /\ sweep[h].left \subseteq Recipes
  BY RestType
<1>4. sweep'[h] = Rest(sweep[h], r)
  BY <1>1 DEF HostsInv
<1>5. SweepOK(h) /\ sweep[h].kind \in {"staging", "timeouts"} /\ sweep[h].rows \in [Recipes -> Row]
  BY Same, NoSweepType DEF Solo, SweepOK, Sweeps
<1>6. pc'[h] \in {"sweep", "read"}
  BY <1>1, <1>2 DEF HostsInv, TypeOK
<1>7. SweepOK(h)'
  <2>1. \A q \in sweep[h].left \ {r} : q \in stored /\ [sweep[h].rows EXCEPT ![r] = Blank][q] = row[q]
    BY <1>3, <1>5 DEF SweepOK
  <2> QED
    BY <1>2, <1>3, <1>4, <1>5, <1>6, <2>1 DEF SweepOK
<1>8. \A q \in used' \ diverged' : Mirrored(h, q)'
  BY <1>2, <1>6, Synced DEF Mirrored, SaysTheSame
<1>9. ASSUME Busy(h)' PROVE JobOK(h)'
  <2>1. /\ Wanted(sweep[h].kind, sweep[h].rows[r]) /\ pc'[h] = "read"
        /\ job'[h] = VisitJob(sweep[h], r)
    BY <1>1, <1>2, <1>9 DEF Busy, HostsInv, TypeOK
  <2>2. r \in stored /\ sweep[h].rows[r] = row[r]
    BY <1>5 DEF SweepOK
  <2>3. CASE sweep[h].kind = "timeouts"
    <3>1. /\ job'[h].op = "machine" /\ job'[h].r = r /\ job'[h].why = "timeout-recovery"
          /\ job'[h].arg = TimeoutTarget[row[r].lifecycle]
      BY <2>1, <2>2, <2>3 DEF VisitJob, Request
    <3>2. TimedOut(row[r])
      BY <2>1, <2>2, <2>3 DEF Wanted
    <3>3. Justified(h)'
      BY <1>2, <3>1, <3>2 DEF Justified
    <3> QED
      BY <1>3, <1>4, <2>1, <3>1, <3>3 DEF JobOK
  <2>4. CASE sweep[h].kind = "staging" /\ row[r].review = "fail"
    <3>1. job'[h].op = "rollback" /\ job'[h].r = r
      BY <2>1, <2>2, <2>4 DEF VisitJob, Request
    <3>2. Due(row[r])
      BY <2>1, <2>2, <2>4 DEF Wanted
    <3>3. Justified(h)'
      BY <1>2, <3>1, <3>2 DEF Justified
    <3> QED
      BY <1>3, <1>4, <2>1, <3>1, <3>3 DEF JobOK
  <2>5. CASE sweep[h].kind = "staging" /\ row[r].review # "fail"
    <3>1. /\ job'[h].op = "machine" /\ job'[h].r = r /\ job'[h].why = "grace-period-expire"
          /\ job'[h].arg = "active"
      BY <2>1, <2>2, <2>5 DEF VisitJob, Request
    <3>2. Due(row[r])
      BY <2>1, <2>2, <2>5 DEF Wanted
    <3>3. Justified(h)'
      BY <1>2, <2>5, <3>1, <3>2 DEF Justified
    <3> QED
      BY <1>3, <1>4, <2>1, <3>1, <3>3 DEF JobOK
  <2> QED
    BY <1>5, <2>3, <2>4, <2>5
<1> QED
  BY <1>7, <1>8, <1>9 DEF Solo

LEMMA SoloTick == ASSUME HostsInv, NEW h \in Hosts, Solo(h), Tick PROVE Solo(h)'
<1>1. /\ row' = [r \in Recipes |-> IF r \in stored THEN Aged(row[r]) ELSE row[r]]
      /\ file' = [r \in Recipes |-> IF r \in disk THEN Aged(file[r]) ELSE file[r]]
      /\ UNCHANGED <<stored, disk, used, diverged, verified, pc, job, seen, new, sweep>>
      /\ pc[h] = "idle"
  BY DEF Tick, Idle
<1>2. sweep[h].left = {} /\ sweep[h].kind = "none" /\ sweep[h] = NoSweep
  BY <1>1, NoSweepType DEF Solo, SweepOK
<1>3. SweepOK(h)' /\ ~Busy(h)'
  BY <1>1, <1>2 DEF SweepOK, Busy
<1>4. used \subseteq Recipes
  BY Same
<1>5. ASSUME NEW q \in used' \ diverged' PROVE Mirrored(h, q)'
  <2>1. /\ (q \in stored <=> q \in disk) /\ SaysTheSame(q) /\ q \in Recipes
        /\ row[q] \in Row /\ file[q] \in Row
    BY <1>1, <1>4, Same, Synced
  <2>2. row[q] = [file[q] EXCEPT !.age = row[q].age]
        => Aged(row[q]) = [Aged(file[q]) EXCEPT !.age = Aged(row[q]).age]
    BY <2>1 DEF Aged, Row
  <2>3. SaysTheSame(q)'
    BY <1>1, <2>1, <2>2 DEF SaysTheSame
  <2> QED
    BY <1>1, <2>1, <2>3 DEF Mirrored
<1> QED
  BY <1>3, <1>5 DEF Solo

LEMMA CauseStep == ASSUME HostsInv, CauseOK, [Next]_vars PROVE CauseOK'
<1>1. ASSUME NEW h \in Hosts, HostNext(h) PROVE CauseOK'
  <2>1. CASE Commit(h)
    <3>1. Busy(h) /\ cause' = IF job[h].why = "keep" THEN cause
                              ELSE [cause EXCEPT ![job[h].r] = job[h].why]
      BY <2>1 DEF Commit, Busy
    <3>2. job[h].why \in Whys /\ job[h].r \in used /\ used' = used
      BY <2>1, <3>1, BusyRow DEF Requests, Commit
    <3> QED
      BY <3>1, <3>2 DEF CauseOK
  <2>2. CASE CommitDelete(h)
    BY <2>2 DEF CommitDelete, CauseOK
  <2>3. CASE UNCHANGED cause /\ used \subseteq used'
    BY <2>3 DEF CauseOK
  <2>4. CASE Create(h) \/ Begin(h) \/ BeginSweep(h)
    BY <2>3, <2>4 DEF Create, Begin, BeginSweep, Start, store
  <2>5. CASE Read(h) \/ Refuse(h) \/ FileFails(h) \/ Reread(h) \/ Query(h) \/ Visit(h)
    BY <2>3, <2>5 DEF Read, Refuse, FileFails, Reread, Query, Visit, store
  <2>6. CASE Persist(h) \/ PersistService(h) \/ RemoveFile(h) \/ Verify(h) \/ CommitFails(h)
    BY <2>3, <2>6 DEF Persist, PersistService, RemoveFile, Verify, CommitFails
  <2> QED
    BY <1>1, <2>1, <2>2, <2>4, <2>5, <2>6 DEF HostNext, Work
<1>2. CASE Tick \/ UNCHANGED vars
  BY <1>2 DEF Tick, vars, CauseOK
<1> QED
  BY <1>1, <1>2 DEF Next

(* A host moves no other. *)
LEMMA OneMoves == ASSUME HostsInv, NEW h \in Hosts, HostNext(h), NEW g \in Hosts, g # h
                  PROVE  pc'[g] = pc[g]
<1>1. CASE UNCHANGED pc
  BY <1>1
<1>2. CASE \E p : pc' = [pc EXCEPT ![h] = p]
  BY <1>2 DEF HostsInv, TypeOK
<1>3. CASE Create(h) \/ BeginSweep(h) \/ RemoveFile(h)
  BY <1>1, <1>2, <1>3 DEF Create, BeginSweep, RemoveFile
<1>4. CASE Begin(h)
  BY <1>2, <1>4 DEF Begin, Start
<1>5. CASE Read(h) \/ Refuse(h) \/ FileFails(h) \/ Reread(h)
  BY <1>2, <1>5 DEF Read, Refuse, FileFails, Reread, Returned
<1>6. CASE Persist(h) \/ PersistService(h)
  BY <1>2, <1>6 DEF Persist, PersistService, Returned
<1>7. CASE Verify(h) \/ Commit(h) \/ CommitDelete(h) \/ CommitFails(h)
  BY <1>2, <1>7 DEF Verify, Commit, CommitDelete, CommitFails, Returned
<1>8. CASE Query(h)
  BY <1>1, <1>2, <1>8 DEF Query
<1>9. CASE Visit(h)
  BY <1>1, <1>2, <1>9, VisitIs
<1> QED
  BY <1>3, <1>4, <1>5, <1>6, <1>7, <1>8, <1>9 DEF HostNext, Work

LEMMA SoloStays == ASSUME NEW h \in Hosts, Solo(h), UNCHANGED vars PROVE Solo(h)'
<1> USE DEF vars
<1>1. SweepOK(h)' /\ \A r \in used' \ diverged' : Mirrored(h, r)'
  BY DEF Solo, SweepOK, Mirrored, SaysTheSame
<1>2. ASSUME Busy(h)' PROVE JobOK(h)'
  <2>1. JobOK(h)
    BY <1>2 DEF Busy, Solo
  <2>2. Justified(h)'
    BY <2>1 DEF JobOK, Justified
  <2>3. Accepted(h)' = Accepted(h) /\ Edit(h, row[job[h].r])' = Edit(h, row[job[h].r])
    BY DEF Accepted, Edit
  <2> QED
    BY <2>1, <2>2, <2>3 DEF JobOK
<1> QED
  BY <1>1, <1>2 DEF Solo

LEMMA SoloStep == ASSUME HostsInv, CauseOK, NEW h \in Hosts, Solo(h), HostNext(h) PROVE Solo(h)'
  BY SoloCreate, SoloBegin, SoloRead, SoloRefuse, SoloFileFails, SoloReread, SoloPersist,
     SoloPersistService, SoloRemoveFile, SoloVerify, SoloCommit, SoloCommitDelete, SoloCommitFails,
     SoloBeginSweep, SoloQuery, SoloVisit DEF HostNext, Work

-----------------------------------------------------------------------------
(***************************************************************************)
(* The theorems.                                                           *)
(***************************************************************************)

(* A behaviour of either cast is one of the hosts. *)
LEMMA CastIsHosts == CastNext => Next
  BY DEF CastNext, Alone, Race, Next

CastInv == HostsInv /\ (cast = "alone" => AloneInv)

LEMMA CastInvInit == CastInit => CastInv
<1> SUFFICES ASSUME CastInit PROVE CastInv
  OBVIOUS
<1>1. HostsInv /\ Init
  BY HostsInit DEF CastInit
<1>2. CauseOK
  BY <1>1 DEF Init, CauseOK
<1>3. Others \subseteq Hosts
  BY CastAssumption
<1>4. \A g \in Others : pc[g] = "idle"
  BY <1>1, <1>3 DEF Init
<1>5. ASSUME NEW h \in Hosts PROVE Solo(h)
  <2>1. pc[h] = "idle" /\ sweep[h] = NoSweep /\ used = {}
    BY <1>1 DEF Init
  <2>2. NoSweep.kind = "none" /\ NoSweep.left = {}
    BY DEF NoSweep
  <2> QED
    BY <2>1, <2>2 DEF Solo, SweepOK, Busy
<1> QED
  BY <1>1, <1>2, <1>4, <1>5 DEF CastInv, AloneInv

LEMMA AloneStep == ASSUME HostsInv, AloneInv, Alone PROVE AloneInv'
<1>1. CauseOK'
  BY CauseStep, CastIsHosts DEF AloneInv, CastNext
<1>2. PICK only \in Hosts : Others = Hosts \ {only}
  BY CastAssumption
<1>3. Hosts \ Others = {only}
  BY <1>2
<1>4. Tick \/ HostNext(only)
  BY <1>3 DEF Alone
<1>5. Solo(only) /\ CauseOK
  BY <1>3 DEF AloneInv
<1>6. Solo(only)'
  BY <1>4, <1>5, SoloTick, SoloStep
<1>7. ASSUME NEW g \in Others PROVE pc'[g] = "idle"
  <2>1. g \in Hosts /\ g # only /\ pc[g] = "idle"
    BY <1>2 DEF AloneInv
  <2> QED
    BY <1>4, <2>1, OneMoves DEF Tick
<1> QED
  BY <1>1, <1>3, <1>6, <1>7 DEF AloneInv

LEMMA CastInvStep == CastInv /\ [CastNext]_<<vars, cast, turns>> => CastInv'
<1> SUFFICES ASSUME CastInv, [CastNext]_<<vars, cast, turns>> PROVE CastInv'
  OBVIOUS
<1>1. HostsInv /\ [Next]_vars
  BY CastIsHosts DEF CastInv
<1>2. HostsInv'
  BY <1>1, HostsStep
<1>3. ASSUME cast' = "alone" PROVE AloneInv'
  <2>1. cast = "alone" /\ AloneInv
    BY <1>3 DEF CastNext, Alone, Race, CastInv
  <2>2. CASE Alone
    BY <1>1, <2>1, <2>2, AloneStep
  <2>3. CASE Race
    BY <2>1, <2>3 DEF Race
  <2>4. CASE UNCHANGED <<vars, cast, turns>>
    BY <2>1, <2>4, SoloStays DEF AloneInv, CauseOK, vars
  <2> QED
    BY <2>2, <2>3, <2>4 DEF CastNext
<1> QED
  BY <1>2, <1>3 DEF CastInv

(* The invariant of both casts, from which the theorems below follow.      *)
THEOREM CastInvariant == CastSpec => []CastInv
<1> QED
  BY CastInvInit, CastInvStep, PTL DEF CastSpec

(* However the hosts interleave, and whichever writes fail, the tables and *)
(* the files stay what they are declared to be, and no id is in them that  *)
(* was not handed out.                                                     *)
THEOREM TypeCorrect == Spec => []TypeOK
<1>1. HostsInv => TypeOK
  BY DEF HostsInv
<1> QED
  BY <1>1, HostsInit, HostsStep, PTL DEF Spec
(* The same of the two casts. *)
THEOREM CastTypeCorrect == CastSpec => []TypeOK
<1>1. CastInv => TypeOK
  BY DEF CastInv, HostsInv
<1> QED
  BY <1>1, CastInvariant, PTL

(* Operations that do not overlap leave no file that says something else   *)
(* than its row without having raised a DivergenceError; the time of the   *)
(* update apart, where the gateway found the recipe valid and wrote only   *)
(* the row.                                                                *)
THEOREM AloneMirrors == CastSpec => []AloneLeavesNoDivergence
<1>1. CastInv => AloneLeavesNoDivergence
  <2> SUFFICES ASSUME CastInv, cast = "alone", \A h \in Hosts : Idle(h), NEW r \in used \ diverged
               PROVE  (r \in stored <=> r \in disk) /\ SaysTheSame(r)
    BY DEF AloneLeavesNoDivergence, NoSilentDivergence
  <2>1. PICK h \in Hosts : h \notin Others
    BY CastAssumption
  <2>2. Solo(h) /\ pc[h] = "idle"
    BY <2>1 DEF CastInv, AloneInv, Idle
  <2> QED
    BY <2>2, Synced
<1> QED
  BY <1>1, CastInvariant, PTL

(* No step brings back a row that was deleted: only create adds one, under *)
(* an id that was never given.                                             *)
LEMMA OnlyCreateAdds == ASSUME HostsInv, [Next]_vars PROVE stored' \cap used \subseteq stored
<1>1. ASSUME NEW h \in Hosts, HostNext(h) PROVE stored' \cap used \subseteq stored
  <2>1. CASE Create(h)
    BY <2>1 DEF Create
  <2>2. CASE Begin(h) \/ BeginSweep(h)
    BY <2>2 DEF Begin, BeginSweep, Start, store
  <2>3. CASE Read(h) \/ Refuse(h) \/ FileFails(h) \/ Reread(h) \/ Query(h) \/ Visit(h)
    BY <2>3 DEF Read, Refuse, FileFails, Reread, Query, Visit, store
  <2>4. CASE Persist(h) \/ PersistService(h) \/ RemoveFile(h) \/ Verify(h) \/ CommitFails(h)
        \/ Commit(h)
    BY <2>4 DEF Persist, PersistService, RemoveFile, Verify, CommitFails, Commit
  <2>5. CASE CommitDelete(h)
    BY <2>5 DEF CommitDelete
  <2> QED
    BY <1>1, <2>1, <2>2, <2>3, <2>4, <2>5 DEF HostNext, Work
<1>2. CASE Tick \/ UNCHANGED vars
  BY <1>2 DEF Tick, vars
<1> QED
  BY <1>1, <1>2 DEF Next

THEOREM DeletedIsForGood == Spec => DeletedStaysDeleted
<1>1. HostsInv /\ [Next]_vars => [stored' \cap used \subseteq stored]_vars
  BY OnlyCreateAdds
<1> QED
  BY <1>1, HostsInit, HostsStep, PTL DEF Spec, DeletedStaysDeleted
(* The same of the two casts. *)
THEOREM CastDeletedIsForGood == CastSpec => DeletedStaysDeleted
<1>1. CastInv /\ [CastNext]_<<vars, cast, turns>> => [stored' \cap used \subseteq stored]_vars
  BY OnlyCreateAdds, CastIsHosts DEF CastInv
<1> QED
  BY <1>1, CastInvariant, PTL DEF CastSpec, DeletedStaysDeleted

-----------------------------------------------------------------------------
(***************************************************************************)
(* A host alone implements RecipeLifecycle.  The operators of the abstract *)
(* module are those of this one, read through INSTANCE.                    *)
(***************************************************************************)
LEMMA AtomicRows ==
    /\ Atomic!Blank = Blank
    /\ \A s, d, a, b : Atomic!NewRow(s, d, a, b) = NewRow(s, d, a, b)
    /\ \A x : Atomic!Touched(x) = Touched(x) /\ Atomic!Aged(x) = Aged(x)
    /\ \A x, s : Atomic!Moved(x, s) = Moved(x, s)
    /\ \A x, y, s : Atomic!MachineRow(x, y, s) = MachineRow(x, y, s)
<1>1. /\ \A s, d, a, b : Atomic!NewRow(s, d, a, b) = NewRow(s, d, a, b)
      /\ Atomic!Blank = Blank
  BY Zenon DEF Atomic!NewRow, NewRow, Atomic!Blank, Blank, Atomic!Unset, Unset
<1>2. \A x : Atomic!Touched(x) = Touched(x)
  BY Zenon DEF Atomic!Touched, Touched
<1>3. \A a : Atomic!Older(a) = Older(a) /\ Atomic!Sooner(a) = Sooner(a)
  BY Zenon DEF Atomic!Older, Older, Atomic!Sooner, Sooner
<1>4. \A x : Atomic!Aged(x) = Aged(x)
  BY <1>3, Zenon DEF Atomic!Aged, Aged
<1>5. \A x, s : Atomic!Moved(x, s) = Moved(x, s)
  BY Zenon DEF Atomic!Moved, Moved, Atomic!Touched, Touched
<1>6. \A x, s : Atomic!MachineStats(x, s) = MachineStats(x, s)
  BY Zenon DEF Atomic!MachineStats, MachineStats, Atomic!Unset, Unset
<1>7. \A x, y : Atomic!WithStats(x, y) = WithStats(x, y)
  BY Zenon DEF Atomic!WithStats, WithStats
<1>8. \A x, y, s : Atomic!MachineRow(x, y, s) = MachineRow(x, y, s)
  BY <1>5, <1>6, <1>7, Zenon DEF Atomic!MachineRow, MachineRow
<1> QED
  BY <1>1, <1>2, <1>4, <1>5, <1>8
LEMMA AtomicGuards ==
    /\ \A x, b, s : Atomic!Admits(x, b, s) <=> Admits(x, b, s)
    /\ \A from, to : Atomic!IsValidTransition(from, to) <=> IsValidTransition(from, to)
    /\ \A x : (Atomic!Due(x) <=> Due(x)) /\ (Atomic!TimedOut(x) <=> TimedOut(x))
    /\ Atomic!TimeoutTarget = TimeoutTarget /\ Atomic!UserTarget = UserTarget
    /\ Atomic!Unset = Unset
<1>1. \A from, to : Atomic!IsValidTransition(from, to) <=> IsValidTransition(from, to)
  BY Zenon DEF Atomic!IsValidTransition, IsValidTransition, Atomic!ValidTransitions, ValidTransitions
<1>2. \A x, b, s : Atomic!Admits(x, b, s) <=> Admits(x, b, s)
  BY <1>1, Zenon DEF Atomic!Admits, Admits
<1>3. /\ Atomic!TimeoutTarget = TimeoutTarget /\ Atomic!UserTarget = UserTarget
      /\ Atomic!Unset = Unset
  BY Zenon DEF Atomic!TimeoutTarget, TimeoutTarget, Atomic!UserTarget, UserTarget, Atomic!Unset, Unset
<1>4. \A x : Atomic!StateAge(x) = StateAge(x) /\ Atomic!Timeout(x) = Timeout(x)
  BY Zenon DEF Atomic!StateAge, StateAge, Atomic!Timeout, Timeout, Atomic!Unset, Unset
<1>5. \A x : Atomic!TimedOut(x) <=> TimedOut(x)
  BY <1>3, <1>4, Zenon DEF Atomic!TimedOut, TimedOut
<1>6. \A x : Atomic!Due(x) <=> Due(x)
  BY Zenon DEF Atomic!Due, Due
<1> QED
  BY <1>1, <1>2, <1>3, <1>5, <1>6

(* The database write of an operation that changes a row, as one step.     *)
LEMMA CommitImplements ==
    ASSUME HostsInv, CauseOK, NEW h \in Hosts, Solo(h), Commit(h)
    PROVE  \E r \in Recipes : Atomic!Service(r) \/ Atomic!Machine(r) \/ Atomic!Staging(r)
<1> DEFINE r == job[h].r
           op == job[h].op
           arg == job[h].arg
           why == job[h].why
           x == row[r]
           y == new[h]
           recorded == IF why = "keep" THEN cause[r] ELSE why
<1>1. /\ Busy(h) /\ pc[h] = "db" /\ op # "delete" /\ r \in stored /\ stored' = stored
      /\ row' = [row EXCEPT ![r] = y]
      /\ cause' = IF why = "keep" THEN cause ELSE [cause EXCEPT ![r] = why]
  BY DEF Commit, Busy
<1>2. JobOK(h) /\ r \in Recipes /\ Proper(job[h]) /\ x \in Row
  BY <1>1, BusyRow DEF Solo
<1>3. Accepted(h) /\ y = Edit(h, x) /\ Justified(h) /\ (op # "published" => seen[h] = x)
  BY <1>1, <1>2 DEF JobOK
<1>4. cause' = [cause EXCEPT ![r] = recorded]
  BY <1>1, <1>2 DEF CauseOK
<1>5. Atomic!Put(r, y, recorded)
  BY <1>1, <1>4, Zenon DEF Atomic!Put
<1>6. CASE op = "machine"
  <2>1. y = Atomic!MachineRow(x, x, arg) /\ Atomic!Admits(x, r \in Exempt, arg) /\ recorded = why
    <3>1. y = MachineRow(x, x, arg) /\ Admits(x, r \in Exempt, arg)
      BY <1>3, <1>6 DEF Edit, Accepted
    <3>2. why # "keep"
      BY <1>2, <1>6 DEF Proper
    <3> QED
      BY <3>1, <3>2, AtomicRows, AtomicGuards
  <2>2. Atomic!Transition(r, arg, why)
    BY <1>1, <1>5, <2>1 DEF Atomic!Transition
  <2>3. \/ <<arg, why>> \in MachineRequests
        \/ why = "decay-detection" /\ arg = "decaying" /\ x.lifecycle = "active"
        \/ why = "timeout-recovery" /\ TimedOut(x) /\ arg = TimeoutTarget[x.lifecycle]
        \/ why = "grace-period-expire" /\ arg = "active" /\ Due(x) /\ x.review # "fail"
    BY <1>3, <1>6 DEF Justified
  <2>4. CASE <<arg, why>> \in MachineRequests
    <3>1. \/ arg = "deprecated" /\ why = "evolution-gateway"
          \/ arg \in {"deprecated", "decaying"} /\ why = "proposal-execution"
          \/ arg = "evolving" /\ why = "proposal-attach"
          \/ arg \in {"staging", "active"} /\ why = "content-patch-complete"
          \/ arg = "active" /\ why = "timeout-recovery"
      BY <2>4 DEF MachineRequests
    <3>2. \/ Atomic!GatewayDeprecate(r) \/ Atomic!ExecuteDeprecate(r) \/ Atomic!AttachProposal(r)
          \/ Atomic!CompletePatch(r) \/ Atomic!RevertUpdate(r)
      BY <2>2, <3>1
         DEF Atomic!GatewayDeprecate, Atomic!ExecuteDeprecate, Atomic!AttachProposal,
             Atomic!CompletePatch, Atomic!RevertUpdate
    <3> QED
      BY <1>2, <3>2 DEF Atomic!Machine
  <2>5. CASE why = "decay-detection" /\ arg = "decaying" /\ x.lifecycle = "active"
    <3>1. Atomic!DetectDecay(r)
      BY <2>2, <2>5 DEF Atomic!DetectDecay
    <3> QED
      BY <1>2, <3>1 DEF Atomic!Machine
  <2>6. CASE why = "timeout-recovery" /\ TimedOut(x) /\ arg = TimeoutTarget[x.lifecycle]
    <3>1. Atomic!TimedOut(x) /\ arg = Atomic!TimeoutTarget[x.lifecycle]
      BY <2>6, AtomicGuards
    <3>2. Atomic!CheckTimeout(r)
      BY <1>1, <2>2, <2>6, <3>1 DEF Atomic!CheckTimeout
    <3> QED
      BY <1>2, <3>2 DEF Atomic!Machine
  <2>7. CASE why = "grace-period-expire" /\ arg = "active" /\ Due(x) /\ x.review # "fail"
    <3>1. Atomic!Promote(r)
      BY <1>5, <2>1, <2>7 DEF Atomic!Promote
    <3>2. Atomic!CheckStaging(r)
      BY <1>1, <2>7, <3>1, AtomicGuards DEF Atomic!CheckStaging
    <3> QED
      BY <1>2, <3>2 DEF Atomic!Staging
  <2> QED
    BY <2>3, <2>4, <2>5, <2>6, <2>7
<1>7. CASE op = "user"
  <2>1. y = Atomic!Moved(x, Atomic!UserTarget[arg]) /\ recorded = "user" /\ arg \in UserOps
    <3>1. y = Moved(x, UserTarget[arg])
      BY <1>3, <1>7 DEF Edit
    <3>2. arg \in UserOps /\ why = "user"
      BY <1>2, <1>7 DEF Proper
    <3> QED
      BY <3>1, <3>2, AtomicRows, AtomicGuards
  <2>2. /\ Atomic!IsValidTransition(x.lifecycle, Atomic!UserTarget[arg])
        /\ arg \in {"publish", "restore"} => r \in Exempt \/ x.ready
    BY <1>3, <1>7, AtomicGuards DEF Accepted
  <2>3. Atomic!UserTransition(r, arg)
    BY <1>1, <1>5, <2>1, <2>2 DEF Atomic!UserTransition
  <2> QED
    BY <1>2, <2>1, <2>3 DEF Atomic!Service
<1>8. CASE op = "enter"
  <2>1. y = [Atomic!Moved(x, "staging") EXCEPT !.deadline = arg]
    BY <1>3, <1>8, AtomicRows DEF Edit
  <2>2. x.lifecycle = "pending" /\ arg \in Graces /\ recorded = "enter_staging"
    BY <1>2, <1>3, <1>8 DEF Accepted, Proper
  <2>3. Atomic!EnterStaging(r)
    BY <1>1, <1>5, <2>1, <2>2 DEF Atomic!EnterStaging
  <2> QED
    BY <1>2, <2>3 DEF Atomic!Staging
<1>9. CASE op = "rollback"
  <2>1. y = [Atomic!Moved(x, "pending") EXCEPT !.deadline = Atomic!Unset]
    BY <1>3, <1>9, AtomicRows, AtomicGuards DEF Edit
  <2>2. x.lifecycle = "staging" /\ recorded = "staging_rollback"
    BY <1>2, <1>3, <1>9 DEF Accepted, Proper
  <2>3. Atomic!Rollback(r)
    BY <1>1, <1>5, <2>1, <2>2 DEF Atomic!Rollback
  <2> QED
    BY <1>2, <2>3 DEF Atomic!Staging
<1>10. CASE op = "review"
  <2>1. WithStats(x, x) = x
    BY <1>2 DEF WithStats, Row
  <2>2. y = [Atomic!Touched(x) EXCEPT !.review = arg]
    BY <1>3, <1>10, <2>1, AtomicRows DEF Edit
  <2>3. x.lifecycle = "staging" /\ recorded = cause[r] /\ arg \in {"pass", "fail"}
    BY <1>2, <1>3, <1>10 DEF Accepted, Proper
  <2>4. Atomic!RecordReview(r)
    BY <1>1, <1>5, <2>2, <2>3 DEF Atomic!RecordReview
  <2> QED
    BY <1>2, <2>4 DEF Atomic!Staging
<1>11. CASE op = "use"
  <2>1. WithStats(x, x) = x
    BY <1>2 DEF WithStats, Row
  <2>2. y = Atomic!Touched(x)
    BY <1>3, <1>11, <2>1, AtomicRows DEF Edit
  <2>3. recorded = cause[r]
    BY <1>2, <1>11 DEF Proper
  <2>4. Atomic!Use(r)
    BY <1>1, <1>5, <2>2, <2>3 DEF Atomic!Use
  <2> QED
    BY <1>2, <2>4 DEF Atomic!Service
<1>12. CASE op = "content"
  <2>1. y = [Atomic!Touched(x) EXCEPT !.ready = arg]
    BY <1>3, <1>12, AtomicRows DEF Edit
  <2>2. recorded = cause[r] /\ arg \in BOOLEAN
    BY <1>2, <1>12 DEF Proper
  <2>3. Atomic!UpdateContent(r)
    BY <1>1, <1>5, <2>1, <2>2 DEF Atomic!UpdateContent
  <2> QED
    BY <1>2, <2>3 DEF Atomic!Service
<1>13. CASE op = "published"
  <2>1. y = [Atomic!Touched(x) EXCEPT !.deadline = Atomic!Unset]
    BY <1>3, <1>13, AtomicRows, AtomicGuards DEF Edit
  <2>2. x.lifecycle = "active" /\ cause[r] = "grace-period-expire" /\ recorded = cause[r]
    BY <1>2, <1>3, <1>13 DEF Justified, Proper
  <2>3. Atomic!Published(r)
    BY <1>1, <1>5, <2>1, <2>2 DEF Atomic!Published
  <2> QED
    BY <1>2, <2>3 DEF Atomic!Staging
<1> QED
  <2>1. op \in AllOps \ NoFile
    BY <1>1, <1>2 DEF Proper, Requests, NoFile, HostsInv, HostOK
  <2> QED
    BY <2>1, <1>6, <1>7, <1>8, <1>9, <1>10, <1>11, <1>12, <1>13 DEF AllOps, NoFile

LEMMA CreateImplements == ASSUME HostsInv, CauseOK, NEW h \in Hosts, Create(h)
                          PROVE  \/ \E r \in Recipes : Atomic!Create(r)
                                 \/ UNCHANGED <<stored, row, cause>>
<1>1. PICK r \in Recipes \ used, z \in NewRows :
          \/ stored' = stored \cup {r} /\ row' = [row EXCEPT ![r] = z]
          \/ UNCHANGED <<stored, row>>
  BY DEF Create
<1>2. UNCHANGED cause
  BY DEF Create
<1>3. CASE UNCHANGED <<stored, row>>
  BY <1>2, <1>3
<1>4. CASE stored' = stored \cup {r} /\ row' = [row EXCEPT ![r] = z]
  <2>1. r \notin stored
    BY Same
  <2>2. cause' = [cause EXCEPT ![r] = "created"]
    BY <1>2 DEF CauseOK
  <2>3. \E ready \in BOOLEAN :
           \/ \E g \in Graces : z = Atomic!NewRow("staging", g, TRUE, ready)
           \/ \E state \in {"pending", "deprecated"}, auto \in BOOLEAN :
                z = Atomic!NewRow(state, Atomic!Unset, auto, ready)
    BY NewRowsAre, AtomicRows, AtomicGuards
  <2>4. Atomic!Create(r)
    BY <1>4, <2>1, <2>2, <2>3 DEF Atomic!Create
  <2> QED
    BY <2>4
<1> QED
  BY <1>1, <1>3, <1>4

LEMMA DeleteImplements == ASSUME HostsInv, NEW h \in Hosts, Solo(h), CommitDelete(h)
                          PROVE  \E r \in Recipes : Atomic!Delete(r)
<1>1. job[h].r \in stored /\ job[h].r \in Recipes
  BY BusyRow DEF Solo, JobOK, CommitDelete, Busy
<1>2. Atomic!Delete(job[h].r)
  BY <1>1, AtomicRows DEF CommitDelete, Atomic!Delete
<1> QED
  BY <1>1, <1>2

LEMMA VerifyImplements == ASSUME HostsInv, CauseOK, NEW h \in Hosts, Solo(h), Verify(h)
                          PROVE  \/ \E r \in Recipes : Atomic!Use(r)
                                 \/ UNCHANGED <<stored, row, cause>>
<1> DEFINE r == job[h].r
<1>1. /\ Busy(h) /\ pc[h] = "check" /\ job[h].op = "valid" /\ UNCHANGED <<stored, cause>>
      /\ \/ row' = [row EXCEPT ![r] = Touched(WithStats(@, seen[h]))]
         \/ UNCHANGED row
  BY DEF Verify, Busy
<1>2. r \in Recipes /\ row[r] \in Row /\ r \in stored /\ seen[h] = row[r]
  BY <1>1, BusyRow DEF Solo, JobOK
<1>3. CASE row' = [row EXCEPT ![r] = Touched(WithStats(@, seen[h]))]
  <2>1. WithStats(row[r], row[r]) = row[r]
    BY <1>2 DEF WithStats, Row
  <2>2. row' = [row EXCEPT ![r] = Atomic!Touched(row[r])]
    BY <1>2, <1>3, <2>1, AtomicRows
  <2>3. cause' = [cause EXCEPT ![r] = cause[r]]
    BY <1>1, <1>2 DEF CauseOK
  <2>4. Atomic!Use(r)
    BY <1>1, <1>2, <2>2, <2>3 DEF Atomic!Use, Atomic!Put
  <2> QED
    BY <1>2, <2>4
<1> QED
  BY <1>1, <1>3

LEMMA AloneImplements == ASSUME HostsInv, AloneInv, Alone
                         PROVE  Atomic!Next \/ UNCHANGED <<stored, row, cause>>
<1>1. CASE Tick
  <2>1. Atomic!Tick
    BY <1>1, AtomicRows DEF Tick, Atomic!Tick
  <2> QED
    BY <2>1 DEF Atomic!Next
<1>2. ASSUME NEW h \in Hosts \ Others, HostNext(h)
      PROVE  Atomic!Next \/ UNCHANGED <<stored, row, cause>>
  <2>1. CauseOK /\ Solo(h)
    BY DEF AloneInv
  <2>2. CASE Create(h)
    BY <2>1, <2>2, CreateImplements DEF Atomic!Next, Atomic!Service
  <2>3. CASE CommitDelete(h)
    BY <2>1, <2>3, DeleteImplements DEF Atomic!Next, Atomic!Service
  <2>4. CASE Commit(h)
    BY <2>1, <2>4, CommitImplements DEF Atomic!Next
  <2>5. CASE Begin(h) \/ BeginSweep(h)
    BY <2>5 DEF Begin, BeginSweep, Start, store
  <2>6. CASE Read(h) \/ Refuse(h) \/ FileFails(h) \/ Reread(h) \/ Query(h) \/ Visit(h)
    BY <2>6 DEF Read, Refuse, FileFails, Reread, Query, Visit, store
  <2>7. CASE Persist(h) \/ PersistService(h) \/ RemoveFile(h) \/ CommitFails(h)
    BY <2>7 DEF Persist, PersistService, RemoveFile, CommitFails
  <2>8. CASE Verify(h)
    BY <2>1, <2>8, VerifyImplements DEF Atomic!Next, Atomic!Service
  <2> QED
    BY <1>2, <2>2, <2>3, <2>4, <2>5, <2>6, <2>7, <2>8 DEF HostNext, Work
<1> QED
  BY <1>1, <1>2 DEF Alone

(* Operations that do not overlap implement RecipeLifecycle: every one,    *)
(* with its reads, its file and its row, is one step of it or none,        *)
(* whichever writes fail.                                                  *)
THEOREM AloneIsAtomic == CastSpec => ImplementsLifecycle
<1>1. CastInit => (cast = "alone" => Atomic!Init)
  BY AtomicRows DEF CastInit, Init, Atomic!Init
<1>2. CastInv /\ [CastNext]_<<vars, cast, turns>>
      => [cast = "alone" => Atomic!Next]_<<stored, row, cause>>
  <2> SUFFICES ASSUME CastInv, [CastNext]_<<vars, cast, turns>>, cast = "alone"
               PROVE  Atomic!Next \/ UNCHANGED <<stored, row, cause>>
    OBVIOUS
  <2>1. CASE Alone
    BY <2>1, AloneImplements DEF CastInv
  <2>2. CASE Race
    BY <2>2 DEF Race
  <2>3. CASE UNCHANGED <<vars, cast, turns>>
    BY <2>3 DEF vars
  <2> QED
    BY <2>1, <2>2, <2>3 DEF CastNext
<1> QED
  BY <1>1, <1>2, CastInvariant, PTL DEF CastSpec, ImplementsLifecycle
=============================================================================
