-------------------------- MODULE FactsStore_proofs --------------------------
(***************************************************************************)
(* The store of certified facts, for any processes, bindings, preparations *)
(* and runs: what a crash or a power loss leaves is always enough.         *)
(***************************************************************************)
EXTENDS FactsStore, TLAPS

(* What each directory holds. *)
DiskOK == /\ \A f \in Refs : {seen[f], kept[f]} \subseteq Holds(f) \cup {Absent}
          /\ DOMAIN seen = Refs /\ DOMAIN kept = Refs

(* What is kept is seen: a lease may be further on its way there. *)
LaterLease(new, old) == /\ new.run = old.run
                        /\ old.state = "completed" => new.state = "completed"
KeptIsSeen ==
    \A f \in Refs : kept[f] # Absent =>
        /\ seen[f] # Absent
        /\ IF f.dir = "leases" THEN LaterLease(seen[f], kept[f]) ELSE seen[f] = kept[f]
(* A lease is completed only when a power loss cannot take it any more.    *)
CompletedIsKept ==
    \A p \in Preps : LET f == Ref("leases", p) IN
        seen[f] # Absent /\ kept[f] = Absent => seen[f].state = "active"

AllKept(S) == \A f \in S : kept[f] # Absent

(* What each operation knows of the disk at each of its stages.            *)
PutKnows(x) ==
    /\ x.binding \in Bindings /\ x.stage \in {"found", "link", "sync"}
    /\ x.stage = "found" => AllKept(Facts(x.binding))
    /\ x.stage # "found" =>
        /\ x.todo \subseteq Facts(x.binding) \cup {Ref("receipts", x.binding)}
        /\ AllKept((Facts(x.binding) \cup {Ref("receipts", x.binding)}) \ x.todo)
    /\ x.stage = "sync" => \E f \in x.todo : x.at = {f} /\ seen[f] # Absent
PrepareKnows(x) ==
    /\ x.binding \in Bindings /\ x.prep \in Preps /\ x.stage \in {"link", "sync"}
    /\ AllKept(Facts(x.binding))
    /\ x.todo = {Ref("preparations", x.prep)}
    /\ x.stage = "sync" => x.at = {Ref("preparations", x.prep)}
LeaseKnows(x) ==
    LET f == Ref("leases", x.prep) IN
    /\ x.prep \in Preps /\ x.run \in Runs
    /\ \/ x.stage \in {"link", "sync", "verify", "read"}
       \/ x.op = "complete" /\ x.stage \in {"rename", "syncRenamed", "verifyRenamed"}
    /\ x.stage = "sync" => seen[f] # Absent
    /\ x.stage \in {"verify", "read"} => kept[f] # Absent
    /\ x.stage \in {"rename", "syncRenamed", "verifyRenamed"} =>
        kept[f] # Absent /\ kept[f].run = x.run
    /\ x.stage = "syncRenamed" => seen[f].state = "completed"
    /\ x.stage = "verifyRenamed" => kept[f].state = "completed"
Knows(x) == /\ x.op = "put" => PutKnows(x)
            /\ x.op = "prepare" => PrepareKnows(x)
            /\ x.op \in {"acquire", "complete"} => LeaseKnows(x)

ReceiptsAreKept == \A c \in receipts : AllKept(Facts(c))

StoreInv == /\ FactsTypeOK /\ KeptIsSeen /\ CompletedIsKept
            /\ \A q \in Procs : Knows(proc[q])
            /\ ReceiptsAreKept /\ ReceiptsAreBacked /\ StoredIsKept /\ PreparationOpens
            /\ LeasesAreKept

(* How the disk may change while processes run. *)
Grows == /\ \A f \in Refs : kept[f] # Absent =>
                /\ kept'[f] # Absent
                /\ IF f.dir = "leases" THEN LaterLease(kept'[f], kept[f]) ELSE kept'[f] = kept[f]
         /\ \A p \in Preps : LET f == Ref("leases", p) IN
                kept[f] = Absent /\ kept'[f] # Absent => kept'[f].state = "active"
SeenGrows == \A f \in Refs : seen[f] # Absent =>
                /\ seen'[f] # Absent
                /\ IF f.dir = "leases" THEN LaterLease(seen'[f], seen[f]) ELSE seen'[f] = seen[f]

-----------------------------------------------------------------------------
LEMMA Names ==
    /\ \A c \in Bindings : /\ Facts(c) \subseteq Refs /\ Ref("receipts", c) \in Refs
                           /\ Ref("receipts", c) \notin Facts(c)
                           /\ \A f \in Facts(c) : f.dir \notin {"leases", "preparations", "receipts"}
    /\ \A p \in Preps : Ref("leases", p) \in Refs /\ Ref("preparations", p) \in Refs
    /\ \A f \in Refs : /\ Absent \notin Holds(f)
                       /\ f.dir = "leases" => Holds(f) = Leases
                       /\ f.dir = "preparations" => Holds(f) = Bindings
                       /\ f.dir \notin {"leases", "preparations"} => Holds(f) = {"whole"}
<1>1. ASSUME NEW c \in Bindings
      PROVE  /\ Facts(c) \subseteq Refs /\ Ref("receipts", c) \in Refs
             /\ Ref("receipts", c) \notin Facts(c)
             /\ \A f \in Facts(c) : f.dir \notin {"leases", "preparations", "receipts"}
  <2>1. Ref("receipts", c) \in Refs
    BY DEF Ref, Refs
  <2>2. ASSUME NEW f \in Facts(c)
        PROVE  f \in Refs /\ f.dir \in {"blobs", "artifacts", "certifications"}
    <3>1. CASE f \in {Ref("blobs", b) : b \in Blobs}
      BY <3>1 DEF Ref, Refs
    <3>2. CASE f = Ref("artifacts", "artifact")
      BY <3>2 DEF Ref, Refs
    <3>3. CASE f = Ref("certifications", c)
      BY <3>3 DEF Ref, Refs
    <3> QED
      BY <3>1, <3>2, <3>3 DEF Facts
  <2>3. Ref("receipts", c).dir = "receipts"
    BY DEF Ref
  <2> QED
    BY <2>1, <2>2, <2>3
<1>2. \A p \in Preps : Ref("leases", p) \in Refs /\ Ref("preparations", p) \in Refs
  BY DEF Ref, Refs
<1>3. \A f \in Refs : Absent \notin Holds(f)
  BY AbsentAssumption
<1>4. \A f \in Refs : /\ f.dir = "leases" => Holds(f) = Leases
                      /\ f.dir = "preparations" => Holds(f) = Bindings
                      /\ f.dir \notin {"leases", "preparations"} => Holds(f) = {"whole"}
  BY DEF Holds
<1> QED
  BY <1>1, <1>2, <1>3, <1>4

LEMMA RefFields == \A d, i : Ref(d, i).dir = d /\ Ref(d, i).id = i
  BY DEF Ref

LEMMA Initially == FactsInit => StoreInv
<1> SUFFICES ASSUME FactsInit PROVE StoreInv
  OBVIOUS
<1>1. FactsTypeOK
  <2>1. DOMAIN seen = Refs /\ DOMAIN kept = Refs /\ \A f \in Refs : {seen[f], kept[f]} = {Absent}
    BY DEF FactsInit
  <2> DEFINE R == [op : FactsOps, stage : Stages, todo : SUBSET Refs, at : SUBSET Refs,
                   binding : Bindings \cup {"none"}, prep : Preps \cup {"none"},
                   run : Runs \cup {"none"}, fresh : BOOLEAN]
  <2>2. NoTask \in R
    BY DEF NoTask, FactsOps, Stages
  <2> HIDE DEF R
  <2>3. proc = [q \in Procs |-> NoTask] /\ stored = {} /\ receipts = {} /\ prepared = {}
        /\ leased = {} /\ ended = {}
    BY DEF FactsInit
  <2>4. proc \in [Procs -> R]
    BY <2>2, <2>3
  <2> QED
    BY <2>1, <2>3, <2>4 DEF FactsTypeOK, R
<1>2. KeptIsSeen /\ CompletedIsKept /\ ReceiptsAreKept /\ ReceiptsAreBacked /\ StoredIsKept
      /\ PreparationOpens /\ LeasesAreKept
  BY Names DEF FactsInit, KeptIsSeen, CompletedIsKept, ReceiptsAreKept, ReceiptsAreBacked, StoredIsKept,
     PreparationOpens, LeasesAreKept
<1>3. \A q \in Procs : Knows(proc[q])
  BY DEF FactsInit, NoTask, Knows
<1> QED
  BY <1>1, <1>2, <1>3 DEF StoreInv

(* What a process knows stays true while others work. *)
LEMMA KnowledgeStays ==
    ASSUME DiskOK, KeptIsSeen, Grows, SeenGrows, NEW x, Knows(x)
    PROVE  Knows(x)'
<1>0. ASSUME NEW S \in SUBSET Refs, AllKept(S) PROVE AllKept(S)'
  BY <1>0 DEF AllKept, Grows
<1>1. ASSUME x.op = "put" PROVE PutKnows(x)'
  <2>1. PutKnows(x)
    BY <1>1 DEF Knows
  <2>2. Facts(x.binding) \subseteq Refs /\ Ref("receipts", x.binding) \in Refs
    BY <2>1, Names DEF PutKnows
  <2>3. x.stage = "found" => AllKept(Facts(x.binding))'
    BY <1>0, <2>1, <2>2 DEF PutKnows
  <2>4. x.stage # "found" => AllKept((Facts(x.binding) \cup {Ref("receipts", x.binding)}) \ x.todo)'
    BY <1>0, <2>1, <2>2 DEF PutKnows
  <2>5. x.stage = "sync" => \E f \in x.todo : x.at = {f} /\ seen'[f] # Absent
    BY <2>1, <2>2 DEF PutKnows, SeenGrows
  <2> QED
    BY <2>1, <2>3, <2>4, <2>5 DEF PutKnows
<1>2. ASSUME x.op = "prepare" PROVE PrepareKnows(x)'
  <2>1. PrepareKnows(x)
    BY <1>2 DEF Knows
  <2>2. AllKept(Facts(x.binding))'
    BY <1>0, <2>1, Names DEF PrepareKnows
  <2> QED
    BY <2>1, <2>2 DEF PrepareKnows
<1>3. ASSUME x.op \in {"acquire", "complete"} PROVE LeaseKnows(x)'
  <2>1. LeaseKnows(x)
    BY <1>3 DEF Knows
  <2>2. Ref("leases", x.prep) \in Refs /\ Ref("leases", x.prep).dir = "leases"
    BY <2>1, Names, RefFields DEF LeaseKnows
  <2>3. x.stage = "syncRenamed" => seen[Ref("leases", x.prep)] # Absent
    BY <2>1, <2>2 DEF LeaseKnows, KeptIsSeen
  <2> QED
    BY <2>1, <2>2, <2>3 DEF LeaseKnows, Grows, SeenGrows, LaterLease
<1> QED
  BY <1>1, <1>2, <1>3 DEF Knows

-----------------------------------------------------------------------------
Task == [op : FactsOps, stage : Stages, todo : SUBSET Refs, at : SUBSET Refs,
         binding : Bindings \cup {"none"}, prep : Preps \cup {"none"},
         run : Runs \cup {"none"}, fresh : BOOLEAN]
HistoryOK == /\ stored \subseteq Bindings /\ receipts \subseteq Bindings
             /\ prepared \subseteq Preps
             /\ leased \subseteq Preps \X Runs /\ ended \subseteq Preps \X Runs
             /\ ReceiptsAreKept /\ StoredIsKept /\ LeasesAreKept
DiskInv == DiskOK /\ KeptIsSeen /\ CompletedIsKept /\ ReceiptsAreBacked /\ PreparationOpens

LEMMA Parts ==
    StoreInv <=> /\ DiskInv /\ HistoryOK
                 /\ proc \in [Procs -> Task] /\ \A q \in Procs : Knows(proc[q])
  BY DEF StoreInv, DiskInv, DiskOK, HistoryOK, FactsTypeOK, Task

LEMMA NothingIsTask == NoTask \in Task /\ Knows(NoTask)
<1>1. NoTask \in Task
  BY DEF NoTask, Task, FactsOps, Stages
<1>2. Knows(NoTask)
  BY DEF NoTask, Knows
<1> QED
  BY <1>1, <1>2

(* A step of a process that leaves the disk as good as it was. *)
LEMMA TaskStep ==
    ASSUME StoreInv, NEW q \in Procs, NEW x \in Task, Goes(q, x), Knows(x)',
           DiskInv', Grows, SeenGrows, HistoryOK'
    PROVE  StoreInv' /\ Grows
<1>1. proc' \in [Procs -> Task]
  BY Parts DEF Goes
<1>2. ASSUME NEW o \in Procs PROVE Knows(proc[o])'
  <2>1. CASE o = q
    <3>1. proc'[q] = x
      BY Parts DEF Goes
    <3> QED
      BY <2>1, <3>1 DEF Knows, PutKnows, PrepareKnows, LeaseKnows
  <2>2. CASE o # q
    <3>1. proc'[o] = proc[o]
      BY <2>2, Parts DEF Goes
    <3>2. DiskOK /\ KeptIsSeen /\ Knows(proc[o])
      BY Parts DEF DiskInv
    <3> DEFINE y == proc[o]
    <3>3. \A z : Knows(z) => Knows(z)'
      BY <3>2, KnowledgeStays
    <3>4. proc'[o] = y /\ Knows(y)
      BY <3>1, <3>2
    <3> HIDE DEF y
    <3> QED
      BY <3>3, <3>4 DEF Knows, PutKnows, PrepareKnows, LeaseKnows
  <2> QED
    BY <2>1, <2>2
<1> QED
  BY <1>1, <1>2, Parts DEF StoreInv, DiskInv, DiskOK, HistoryOK, FactsTypeOK, Task

(* What the callers were told stays true while the disk grows. *)
LEMMA LeasesStay ==
    ASSUME StoreInv, DiskOK', Grows, UNCHANGED <<leased, ended>>
    PROVE  LeasesAreKept'
<1>1. HistoryOK
  BY Parts
<1>2. ASSUME NEW l \in leased
      PROVE  kept'[Ref("leases", l[1])] # Absent /\ kept'[Ref("leases", l[1])].run = l[2]
  BY <1>1, Names, RefFields DEF HistoryOK, LeasesAreKept, Grows, LaterLease
<1>3. ASSUME NEW l \in ended
      PROVE  kept'[Ref("leases", l[1])] = Lease(l[2], "completed")
  <2>1. l[1] \in Preps /\ l[2] \in Runs /\ kept[Ref("leases", l[1])] = Lease(l[2], "completed")
    BY <1>1 DEF HistoryOK, LeasesAreKept
  <2>2. Ref("leases", l[1]) \in Refs /\ Ref("leases", l[1]).dir = "leases"
    BY <2>1, Names, RefFields
  <2>3. kept[Ref("leases", l[1])] # Absent
    <3>1. Lease(l[2], "completed") \in Leases
      BY <2>1 DEF Lease, Leases
    <3> QED
      BY <2>1, <2>2, <3>1, Names
  <2>4. kept'[Ref("leases", l[1])] \in Leases
    BY <2>2, <2>3, Names DEF DiskOK, Grows
  <2>5. kept'[Ref("leases", l[1])].run = l[2] /\ kept'[Ref("leases", l[1])].state = "completed"
    BY <2>1, <2>2, <2>3 DEF Grows, LaterLease, Lease
  <2> QED
    BY <2>4, <2>5 DEF Leases, Lease
<1> QED
  BY <1>2, <1>3 DEF LeasesAreKept

LEMMA HistoryStays ==
    ASSUME StoreInv, DiskOK', Grows, UNCHANGED history
    PROVE  HistoryOK'
<1>1. HistoryOK /\ UNCHANGED <<stored, receipts, prepared, leased, ended>>
  BY Parts DEF history
<1>2. ReceiptsAreKept' /\ StoredIsKept'
  BY <1>1, Names DEF HistoryOK, ReceiptsAreKept, AllKept, StoredIsKept, Grows
<1> QED
  BY <1>1, <1>2, LeasesStay DEF HistoryOK

-----------------------------------------------------------------------------
(* How the disk changes. *)
LEMMA DiskUnchanged ==
    ASSUME StoreInv, UNCHANGED <<seen, kept>>
    PROVE  DiskInv' /\ Grows /\ SeenGrows
<1>1. DiskInv
  BY Parts
<1>2. Grows /\ SeenGrows
  BY DEF Grows, SeenGrows, LaterLease
<1> QED
  BY <1>1, <1>2 DEF DiskInv, DiskOK, KeptIsSeen, CompletedIsKept, ReceiptsAreBacked, PreparationOpens

LEMMA LinkedDisk ==
    ASSUME StoreInv, NEW f \in Refs, NEW content \in Holds(f),
           f.dir = "leases" => content.state = "active",
           \A c \in Bindings : f = Ref("receipts", c) => AllKept(Facts(c)),
           f.dir = "preparations" => AllKept(Facts(content)),
           seen' = Linked(f, content), kept' = kept
    PROVE  DiskInv' /\ Grows /\ SeenGrows /\ seen'[f] # Absent
<1>1. DiskInv /\ DOMAIN seen = Refs
  BY Parts DEF DiskInv, DiskOK
<1>2. CASE seen[f] # Absent
  BY <1>2, DiskUnchanged DEF Linked
<1>3. CASE seen[f] = Absent
  <2>1. seen' = [seen EXCEPT ![f] = content] /\ kept[f] = Absent /\ content # Absent
    BY <1>1, <1>3, Names DEF Linked, DiskInv, KeptIsSeen
  <2>2. \A g \in Refs : seen'[g] = IF g = f THEN content ELSE seen[g]
    BY <1>1, <2>1
  <2>3. DiskOK'
    BY <1>1, <2>1, <2>2 DEF DiskInv, DiskOK
  <2>4. Grows /\ SeenGrows
    BY <1>3, <2>2 DEF Grows, SeenGrows, LaterLease
  <2>5. KeptIsSeen'
    BY <1>1, <2>1, <2>2 DEF DiskInv, KeptIsSeen, LaterLease
  <2>6. CompletedIsKept'
    BY <1>1, <2>2, Names, RefFields DEF DiskInv, CompletedIsKept
  <2>7. ReceiptsAreBacked'
    BY <1>1, <2>2, Names DEF DiskInv, ReceiptsAreBacked, AllKept
  <2>8. PreparationOpens'
    <3> SUFFICES ASSUME NEW p \in Preps, seen'[Ref("preparations", p)] # Absent,
                        NEW g \in Facts(seen'[Ref("preparations", p)])
                 PROVE  kept[g] # Absent
      BY DEF PreparationOpens
    <3>1. CASE f = Ref("preparations", p)
      BY <2>2, <3>1, RefFields DEF AllKept
    <3>2. CASE f # Ref("preparations", p)
      BY <1>1, <2>2, <3>2, Names DEF DiskInv, PreparationOpens
    <3> QED
      BY <3>1, <3>2
  <2> QED
    BY <2>1, <2>2, <2>3, <2>4, <2>5, <2>6, <2>7, <2>8 DEF DiskInv
<1> QED
  BY <1>2, <1>3

(* What holds of kept holds of anything that grew from it. *)
LEMMA GrownDisk ==
    ASSUME StoreInv, DiskOK', Grows, \A f \in Refs : seen'[f] \in {seen[f], kept[f]}
    PROVE  ReceiptsAreBacked' /\ PreparationOpens'
<1>1. DiskInv
  BY Parts
<1>2. ASSUME NEW c \in Bindings, seen'[Ref("receipts", c)] # Absent, NEW f \in Facts(c)
      PROVE  kept'[f] # Absent
  <2>1. seen[Ref("receipts", c)] # Absent /\ f \in Refs
    BY <1>1, <1>2, Names DEF DiskInv, KeptIsSeen
  <2> QED
    BY <1>1, <2>1 DEF DiskInv, ReceiptsAreBacked, Grows
<1>3. ASSUME NEW p \in Preps, seen'[Ref("preparations", p)] # Absent,
             NEW f \in Facts(seen'[Ref("preparations", p)])
      PROVE  kept'[f] # Absent
  <2>1. Ref("preparations", p) \in Refs /\ Ref("preparations", p).dir = "preparations"
    BY Names, RefFields
  <2>2. /\ seen[Ref("preparations", p)] # Absent
        /\ seen[Ref("preparations", p)] = seen'[Ref("preparations", p)]
    BY <1>1, <1>3, <2>1 DEF DiskInv, KeptIsSeen
  <2>3. seen[Ref("preparations", p)] \in Bindings
    BY <1>1, <2>1, <2>2, Names DEF DiskInv, DiskOK
  <2>4. f \in Refs
    BY <1>3, <2>2, <2>3, Names
  <2> QED
    BY <1>1, <1>3, <2>2, <2>4 DEF DiskInv, PreparationOpens, Grows
<1> QED
  BY <1>2, <1>3 DEF ReceiptsAreBacked, PreparationOpens

LEMMA SyncedDisk ==
    ASSUME StoreInv, NEW d, kept' = Synced(d), seen' = seen
    PROVE  DiskInv' /\ Grows /\ SeenGrows
<1>1. DiskInv
  BY Parts
<1>2. \A f \in Refs : kept'[f] = IF f.dir = d THEN seen[f] ELSE kept[f]
  BY DEF Synced
<1>3. DiskOK'
  BY <1>1, <1>2 DEF DiskInv, DiskOK, Synced
<1>4. Grows /\ SeenGrows
  BY <1>1, <1>2, Names DEF DiskInv, KeptIsSeen, CompletedIsKept, Grows, SeenGrows, LaterLease
<1>5. KeptIsSeen'
  BY <1>1, <1>2 DEF DiskInv, KeptIsSeen, LaterLease
<1>6. CompletedIsKept'
  BY <1>1, <1>2, Names DEF DiskInv, CompletedIsKept
<1>7. ReceiptsAreBacked' /\ PreparationOpens'
  BY <1>3, <1>4, GrownDisk
<1> QED
  BY <1>3, <1>4, <1>5, <1>6, <1>7 DEF DiskInv

LEMMA RenamedDisk ==
    ASSUME StoreInv, NEW p \in Preps, NEW r \in Runs,
           kept[Ref("leases", p)] # Absent, kept[Ref("leases", p)].run = r,
           seen' = [seen EXCEPT ![Ref("leases", p)] = Lease(r, "completed")], kept' = kept
    PROVE  DiskInv' /\ Grows /\ SeenGrows /\ seen'[Ref("leases", p)].state = "completed"
<1> DEFINE f == Ref("leases", p)
           l == Lease(r, "completed")
<1>1. DiskInv /\ f \in Refs /\ f.dir = "leases"
  BY Parts, Names, RefFields
<1>2. l \in Leases /\ l.run = r /\ l.state = "completed" /\ l # Absent /\ l \in Holds(f)
  BY <1>1, Names DEF Leases, Lease
<1>3. \A g \in Refs : seen'[g] = IF g = f THEN l ELSE seen[g]
  BY <1>1 DEF DiskInv, DiskOK
<1> HIDE DEF l, f
<1>4. DiskOK'
  BY <1>1, <1>2, <1>3 DEF DiskInv, DiskOK
<1>5. seen[f] # Absent /\ seen[f].run = r
  BY <1>1 DEF DiskInv, KeptIsSeen, LaterLease, f
<1>6. Grows /\ SeenGrows
  BY <1>1, <1>2, <1>3, <1>5 DEF Grows, SeenGrows, LaterLease
<1>7. KeptIsSeen'
  BY <1>1, <1>2, <1>3 DEF DiskInv, KeptIsSeen, LaterLease, f
<1>8. CompletedIsKept'
  BY <1>1, <1>3, Names DEF DiskInv, CompletedIsKept, f
<1>9. ReceiptsAreBacked'
  BY <1>1, <1>3, Names, RefFields DEF DiskInv, ReceiptsAreBacked
<1>10. PreparationOpens'
  <2>1. \A t \in Preps : seen'[Ref("preparations", t)] = seen[Ref("preparations", t)]
    BY <1>1, <1>3, Names, RefFields
  <2> QED
    BY <1>1, <2>1 DEF DiskInv, PreparationOpens
<1> QED
  BY <1>1, <1>2, <1>3, <1>4, <1>6, <1>7, <1>8, <1>9, <1>10 DEF DiskInv, f, l

-----------------------------------------------------------------------------
(* The steps of put() and createPreparation(). *)
LEMMA Ending ==
    ASSUME StoreInv, NEW q \in Procs, Ends(q), DiskInv', Grows, SeenGrows, HistoryOK'
    PROVE  StoreInv' /\ Grows
<1>1. NoTask \in Task /\ Knows(NoTask)'
  BY NothingIsTask DEF NoTask, Knows
<1> QED
  BY <1>1, TaskStep DEF Ends

LEMMA PutKeeps ==
    ASSUME StoreInv, NEW q \in Procs, NEW c \in Bindings, Put(q, c)
    PROVE  StoreInv' /\ Grows
<1>1. PICK st \in {"link", "found"} :
          st = IF seen[Ref("receipts", c)] = Absent THEN "link" ELSE "found"
  OBVIOUS
<1> DEFINE x == [NoTask EXCEPT !.op = "put", !.binding = c, !.stage = st,
                                !.todo = Facts(c) \cup {Ref("receipts", c)}]
<1>2. Goes(q, x) /\ UNCHANGED <<seen, kept>> /\ UNCHANGED history
  BY <1>1 DEF Put
<1>3. /\ x \in Task /\ x.op = "put" /\ x.binding = c /\ x.stage = st
      /\ x.todo = Facts(c) \cup {Ref("receipts", c)}
  BY Names DEF Task, FactsOps, Stages, NoTask
<1> HIDE DEF x
<1>4. DiskInv' /\ Grows /\ SeenGrows /\ HistoryOK'
  BY <1>2, DiskUnchanged, HistoryStays DEF DiskInv
<1>5. st = "found" => AllKept(Facts(c))'
  BY <1>1, <1>2, Parts DEF DiskInv, ReceiptsAreBacked, AllKept
<1>6. Knows(x)'
  BY <1>3, <1>5 DEF Knows, PutKnows, AllKept
<1> QED
  BY <1>2, <1>3, <1>4, <1>6, TaskStep

LEMMA PutFoundKeeps ==
    ASSUME StoreInv, NEW q \in Procs, PutFound(q)
    PROVE  StoreInv' /\ Grows
<1>1. Ends(q) /\ UNCHANGED <<seen, kept>> /\ UNCHANGED <<stored, prepared, leased, ended>>
      /\ receipts' \subseteq receipts \cup {proc[q].binding}
  BY DEF PutFound
<1>2. proc[q].binding \in Bindings /\ AllKept(Facts(proc[q].binding))
  BY Parts DEF PutFound, At, Knows, PutKnows
<1>3. DiskInv' /\ Grows /\ SeenGrows
  BY <1>1, DiskUnchanged
<1>4. HistoryOK'
  BY <1>1, <1>2, Parts DEF HistoryOK, ReceiptsAreKept, AllKept, StoredIsKept, LeasesAreKept
<1> QED
  BY <1>1, <1>3, <1>4, Ending

LEMMA PrepareKeeps ==
    ASSUME StoreInv, NEW q \in Procs, NEW c \in Bindings, NEW p \in Preps, Prepare(q, c, p)
    PROVE  StoreInv' /\ Grows
<1> DEFINE x == [NoTask EXCEPT !.op = "prepare", !.stage = "link", !.binding = c, !.prep = p,
                                !.todo = {Ref("preparations", p)}]
<1>1. Goes(q, x) /\ UNCHANGED <<seen, kept>> /\ UNCHANGED history /\ c \in receipts
  BY DEF Prepare
<1>2. /\ x \in Task /\ x.op = "prepare" /\ x.binding = c /\ x.stage = "link" /\ x.prep = p
      /\ x.todo = {Ref("preparations", p)}
  BY Names DEF Task, FactsOps, Stages, NoTask
<1> HIDE DEF x
<1>3. DiskInv' /\ Grows /\ SeenGrows /\ HistoryOK'
  BY <1>1, DiskUnchanged, HistoryStays DEF DiskInv
<1>4. AllKept(Facts(c))'
  BY <1>1, Parts DEF HistoryOK, ReceiptsAreKept, AllKept
<1>5. Knows(x)'
  BY <1>2, <1>4 DEF Knows, PrepareKnows
<1> QED
  BY <1>1, <1>2, <1>3, <1>5, TaskStep

(* What is left of a task when its fields change. *)
LEMMA TaskFields ==
    ASSUME NEW x \in Task, NEW s \in Stages, NEW a \in SUBSET Refs, NEW t \in SUBSET Refs,
           NEW b \in BOOLEAN
    PROVE  /\ [x EXCEPT !.stage = s, !.at = a] \in Task
           /\ [x EXCEPT !.stage = s, !.at = a, !.todo = t] \in Task
           /\ [x EXCEPT !.stage = s] \in Task
           /\ [x EXCEPT !.stage = s, !.fresh = b] \in Task
  BY DEF Task

LEMMA TaskRecord ==
    ASSUME NEW x \in Task
    PROVE  x = [op |-> x.op, stage |-> x.stage, todo |-> x.todo, at |-> x.at,
                binding |-> x.binding, prep |-> x.prep, run |-> x.run, fresh |-> x.fresh]
  BY DEF Task

LEMMA PublishKeeps ==
    ASSUME StoreInv, NEW q \in Procs, Publish(q)
    PROVE  StoreInv' /\ Grows
<1>0. PICK x \in Task : x = proc[q]
  BY Parts
<1>1. PICK f \in First(x.todo) :
        /\ seen' = Linked(f, IF f.dir = "preparations" THEN x.binding ELSE "whole")
        /\ Goes(q, [x EXCEPT !.stage = "sync", !.at = {f}])
  BY <1>0 DEF Publish
<1>2. x.op \in {"put", "prepare"} /\ x.stage = "link" /\ kept' = kept /\ UNCHANGED history
  BY <1>0 DEF Publish
<1>3. x \in Task /\ Knows(x) /\ f \in x.todo /\ x.todo \subseteq Refs /\ f \in Refs
  BY <1>0, <1>1, Parts DEF First, Task
<1> DEFINE y == [x EXCEPT !.stage = "sync", !.at = {f}]
<1>4. y \in Task /\ y.op = x.op /\ y.stage = "sync" /\ y.at = {f} /\ y.todo = x.todo
      /\ y.binding = x.binding /\ y.prep = x.prep
  <2>1. y \in Task
    BY <1>3, TaskFields DEF Stages
  <2> QED
    BY <2>1, TaskRecord
<1>5. CASE x.op = "put"
  <2>1. PutKnows(x)
    BY <1>3, <1>5 DEF Knows
  <2>2. /\ f \in Facts(x.binding) \cup {Ref("receipts", x.binding)} /\ x.binding \in Bindings
        /\ f.dir \notin {"leases", "preparations"}
        /\ AllKept((Facts(x.binding) \cup {Ref("receipts", x.binding)}) \ x.todo)
    BY <1>2, <1>3, <2>1, Names, RefFields DEF PutKnows
  <2>3. "whole" \in Holds(f)
    BY <1>3, <2>2, Names
  <2>4. ASSUME NEW c \in Bindings, f = Ref("receipts", c) PROVE AllKept(Facts(c))
    <3>1. c = x.binding
      BY <2>2, <2>4, Names, RefFields
    <3>2. ASSUME NEW g \in Facts(c) PROVE g \notin x.todo
      <4>1. Rank(g) < Rank(f) /\ g.dir \in {"blobs", "artifacts", "certifications"}
        BY <2>4, RefFields DEF Facts, Rank, Ref
      <4> QED
        BY <1>1, <4>1, <2>4, RefFields DEF First, Rank
    <3> QED
      BY <2>2, <3>1, <3>2 DEF AllKept
  <2>5. DiskInv' /\ Grows /\ SeenGrows /\ seen'[f] # Absent
    BY <1>1, <1>2, <1>3, <2>2, <2>3, <2>4, LinkedDisk
  <2>6. HistoryOK'
    BY <1>2, <2>5, HistoryStays DEF DiskInv
  <2>7. Knows(y)'
    BY <1>2, <1>3, <1>4, <1>5, <2>1, <2>5 DEF Knows, PutKnows, AllKept
  <2> HIDE DEF y
  <2> QED
    BY <1>1, <1>4, <2>5, <2>6, <2>7, TaskStep DEF y
<1>6. CASE x.op = "prepare"
  <2>1. PrepareKnows(x)
    BY <1>3, <1>6 DEF Knows
  <2>2. f = Ref("preparations", x.prep) /\ f.dir = "preparations" /\ x.binding \in Holds(f)
        /\ AllKept(Facts(x.binding))
    BY <1>3, <2>1, Names, RefFields DEF PrepareKnows
  <2>3. DiskInv' /\ Grows /\ SeenGrows /\ seen'[f] # Absent
    BY <1>1, <1>2, <1>3, <2>2, LinkedDisk, RefFields
  <2>4. HistoryOK'
    BY <1>2, <2>3, HistoryStays DEF DiskInv
  <2>5. Knows(y)'
    BY <1>2, <1>3, <1>4, <1>6, <2>1, <2>2 DEF Knows, PrepareKnows, AllKept
  <2> HIDE DEF y
  <2> QED
    BY <1>1, <1>4, <2>3, <2>4, <2>5, TaskStep DEF y
<1> QED
  BY <1>2, <1>5, <1>6

LEMMA SyncKeeps ==
    ASSUME StoreInv, NEW q \in Procs, Sync(q)
    PROVE  StoreInv' /\ Grows
<1>0. PICK x \in Task : x = proc[q]
  BY Parts
<1>1. PICK f \in x.at :
        /\ kept' = Synced(f.dir)
        /\ IF x.todo \ {f} # {}
           THEN /\ Goes(q, [x EXCEPT !.stage = "link", !.at = {}, !.todo = x.todo \ {f}])
                /\ UNCHANGED <<stored, receipts, prepared>>
           ELSE /\ Ends(q)
                /\ IF x.op = "put"
                   THEN /\ stored' = stored \cup {x.binding}
                        /\ receipts' = receipts \cup {x.binding}
                        /\ UNCHANGED prepared
                   ELSE prepared' = prepared \cup {x.prep} /\ UNCHANGED <<stored, receipts>>
  BY <1>0 DEF Sync
<1>2. x.op \in {"put", "prepare"} /\ x.stage = "sync" /\ seen' = seen /\ UNCHANGED <<leased, ended>>
  BY <1>0 DEF Sync
<1>3. Knows(x) /\ f \in Refs /\ DOMAIN seen = Refs
  BY <1>0, <1>1, Parts DEF Task, DiskInv, DiskOK
<1>4. DiskInv' /\ Grows /\ SeenGrows
  BY <1>1, <1>2, SyncedDisk
<1>5. \A g \in Refs : kept'[g] = IF g.dir = f.dir THEN seen[g] ELSE kept[g]
  BY <1>1 DEF Synced
<1>6. \A S \in SUBSET Refs : AllKept(S) => AllKept(S)'
  BY <1>4 DEF Grows, AllKept
<1>7. x.op = "put" => /\ x.at = {f} /\ f \in x.todo /\ kept'[f] # Absent
                      /\ x.binding \in Bindings
                      /\ x.todo \subseteq Facts(x.binding) \cup {Ref("receipts", x.binding)}
                      /\ AllKept((Facts(x.binding) \cup {Ref("receipts", x.binding)}) \ x.todo)'
  <2> SUFFICES ASSUME x.op = "put"
               PROVE  /\ x.at = {f} /\ f \in x.todo /\ kept'[f] # Absent
                      /\ x.binding \in Bindings
                      /\ x.todo \subseteq Facts(x.binding) \cup {Ref("receipts", x.binding)}
                      /\ AllKept((Facts(x.binding) \cup {Ref("receipts", x.binding)}) \ x.todo)'
    OBVIOUS
  <2>1. PutKnows(x)
    BY <1>3 DEF Knows
  <2>2. x.at = {f} /\ f \in x.todo /\ seen[f] # Absent
    BY <1>1, <1>2, <2>1 DEF PutKnows
  <2>3. kept'[f] # Absent
    BY <1>3, <1>5, <2>2
  <2>4. (Facts(x.binding) \cup {Ref("receipts", x.binding)}) \ x.todo \in SUBSET Refs
    BY <2>1, Names DEF PutKnows
  <2> QED
    BY <1>2, <1>6, <2>1, <2>2, <2>3, <2>4 DEF PutKnows
<1>8. CASE x.todo \ {f} # {}
  <2> DEFINE y == [x EXCEPT !.stage = "link", !.at = {}, !.todo = x.todo \ {f}]
  <2>1. /\ y \in Task /\ y.op = x.op /\ y.stage = "link" /\ y.todo = x.todo \ {f}
        /\ y.binding = x.binding
    <3>1. x.todo \ {f} \in SUBSET Refs
      BY DEF Task
    <3>2. y \in Task
      BY <3>1, TaskFields DEF Stages
    <3> QED
      BY <3>2, TaskRecord
  <2>2. x.op = "put"
    BY <1>1, <1>2, <1>3, <1>8 DEF Knows, PrepareKnows
  <2> HIDE DEF y
  <2>3. Knows(y)'
    BY <1>7, <2>1, <2>2 DEF Knows, PutKnows, AllKept
  <2>4. HistoryOK'
    BY <1>1, <1>2, <1>4, <1>8, HistoryStays DEF history, DiskInv
  <2>5. Goes(q, y)
    BY <1>1, <1>8 DEF y
  <2> QED
    BY <1>4, <2>1, <2>3, <2>4, <2>5, TaskStep
<1>9. CASE x.todo \ {f} = {}
  <2>1. LeasesAreKept' /\ AllKept({})'
    <3>1. DiskOK' /\ UNCHANGED <<leased, ended>>
      BY <1>2, <1>4 DEF DiskInv
    <3> QED
      BY <3>1, <1>4, LeasesStay DEF AllKept
  <2>2. CASE x.op = "put"
    <3>1. AllKept(Facts(x.binding) \cup {Ref("receipts", x.binding)})'
      BY <1>7, <1>9, <2>2 DEF AllKept
    <3>2. ReceiptsAreKept'
      BY <1>1, <1>6, <1>9, <2>2, <3>1, Names, Parts DEF HistoryOK, ReceiptsAreKept, AllKept
    <3>3. StoredIsKept'
      BY <1>1, <1>4, <1>9, <2>2, <3>1, Names, Parts DEF HistoryOK, StoredIsKept, AllKept, Grows
    <3>4. HistoryOK'
      BY <1>1, <1>2, <1>7, <1>9, <2>1, <2>2, <3>2, <3>3, Parts DEF HistoryOK
    <3> QED
      BY <1>1, <1>4, <1>9, <3>4, Ending
  <2>3. CASE x.op = "prepare"
    <3>1. x.prep \in Preps
      BY <1>3, <2>3 DEF Knows, PrepareKnows
    <3>2. ReceiptsAreKept'
      BY <1>1, <1>6, <1>9, <2>3, Names, Parts DEF HistoryOK, ReceiptsAreKept, AllKept
    <3>3. StoredIsKept'
      BY <1>1, <1>4, <1>9, <2>3, Names, Parts DEF HistoryOK, StoredIsKept, Grows
    <3>4. HistoryOK'
      BY <1>1, <1>2, <1>9, <2>1, <2>3, <3>1, <3>2, <3>3, Parts DEF HistoryOK
    <3> QED
      BY <1>1, <1>4, <1>9, <3>4, Ending
  <2> QED
    BY <1>2, <2>2, <2>3
<1> QED
  BY <1>8, <1>9

-----------------------------------------------------------------------------
(* The steps of the leases. *)
LEMMA AskLeaseKeeps ==
    ASSUME StoreInv, NEW q \in Procs, NEW op \in {"acquire", "complete"}, NEW p \in Preps,
           NEW r \in Runs, AskLease(q, op, p, r)
    PROVE  StoreInv' /\ Grows
<1> DEFINE x == [NoTask EXCEPT !.op = op, !.stage = "link", !.prep = p, !.run = r]
<1>1. Goes(q, x) /\ UNCHANGED <<seen, kept>> /\ UNCHANGED history
  BY DEF AskLease
<1>2. x \in Task /\ x.op = op /\ x.stage = "link" /\ x.prep = p /\ x.run = r
  BY DEF Task, FactsOps, Stages, NoTask
<1> HIDE DEF x
<1>3. DiskInv' /\ Grows /\ SeenGrows /\ HistoryOK'
  BY <1>1, DiskUnchanged, HistoryStays DEF DiskInv
<1>4. Knows(x)'
  BY <1>2 DEF Knows, LeaseKnows
<1> QED
  BY <1>1, <1>2, <1>3, <1>4, TaskStep

LEMMA LeaseNamed ==
    ASSUME StoreInv, NEW x \in Task, Knows(x), x.op \in {"acquire", "complete"}
    PROVE  /\ LeaseKnows(x) /\ x.prep \in Preps /\ x.run \in Runs
           /\ Ref("leases", x.prep) \in Refs /\ Ref("leases", x.prep).dir = "leases"
           /\ Holds(Ref("leases", x.prep)) = Leases
           /\ seen[Ref("leases", x.prep)] \in Leases \cup {Absent}
           /\ kept[Ref("leases", x.prep)] \in Leases \cup {Absent}
           /\ kept[Ref("leases", x.prep)] # Absent =>
                /\ seen[Ref("leases", x.prep)] \in Leases
                /\ LaterLease(seen[Ref("leases", x.prep)], kept[Ref("leases", x.prep)])
           /\ Absent \notin Leases
<1>1. LeaseKnows(x) /\ x.prep \in Preps /\ x.run \in Runs
  BY DEF Knows, LeaseKnows
<1>2. /\ Ref("leases", x.prep) \in Refs /\ Ref("leases", x.prep).dir = "leases"
      /\ Holds(Ref("leases", x.prep)) = Leases /\ Absent \notin Leases
  BY <1>1, Names, RefFields
<1>3. /\ seen[Ref("leases", x.prep)] \in Leases \cup {Absent}
      /\ kept[Ref("leases", x.prep)] \in Leases \cup {Absent}
  BY <1>2, Parts DEF DiskInv, DiskOK
<1>4. kept[Ref("leases", x.prep)] # Absent =>
        /\ seen[Ref("leases", x.prep)] # Absent
        /\ LaterLease(seen[Ref("leases", x.prep)], kept[Ref("leases", x.prep)])
  BY <1>2, Parts DEF DiskInv, KeptIsSeen
<1> QED
  BY <1>1, <1>2, <1>3, <1>4

LEMMA LinkLeaseKeeps ==
    ASSUME StoreInv, NEW q \in Procs, LinkLease(q)
    PROVE  StoreInv' /\ Grows
<1>0. PICK x \in Task : x = proc[q]
  BY Parts
<1>1. PICK b \in BOOLEAN : b = (seen[Ref("leases", x.prep)] = Absent)
  OBVIOUS
<1> DEFINE y == [x EXCEPT !.stage = "sync", !.fresh = b]
           f == Ref("leases", x.prep)
<1>2. /\ x.op \in {"acquire", "complete"} /\ x.stage = "link" /\ Goes(q, y)
      /\ seen' = Linked(f, Lease(x.run, "active")) /\ kept' = kept /\ UNCHANGED history
  BY <1>0, <1>1 DEF LinkLease, Leasing, LeaseRef
<1>3. Knows(x)
  BY <1>0, Parts
<1>4. /\ LeaseKnows(x) /\ x.prep \in Preps /\ x.run \in Runs
      /\ f \in Refs /\ f.dir = "leases" /\ Holds(f) = Leases
  BY <1>2, <1>3, LeaseNamed
<1>5. y \in Task /\ y.op = x.op /\ y.stage = "sync" /\ y.prep = x.prep /\ y.run = x.run
  <2>1. y \in Task
    BY TaskFields DEF Stages
  <2> QED
    BY <2>1, TaskRecord
<1>6. Lease(x.run, "active") \in Holds(f) /\ Lease(x.run, "active").state = "active"
  BY <1>4 DEF Leases, Lease
<1>7. DiskInv' /\ Grows /\ SeenGrows /\ seen'[f] # Absent
  BY <1>2, <1>4, <1>6, LinkedDisk, RefFields
<1> HIDE DEF y
<1>8. HistoryOK'
  BY <1>2, <1>7, HistoryStays DEF DiskInv
<1>9. Knows(y)'
  BY <1>2, <1>4, <1>5, <1>7 DEF Knows, LeaseKnows
<1> QED
  BY <1>2, <1>5, <1>7, <1>8, <1>9, TaskStep

LEMMA SyncLeaseKeeps ==
    ASSUME StoreInv, NEW q \in Procs, SyncLease(q) \/ SyncRenamed(q)
    PROVE  StoreInv' /\ Grows
<1>0. PICK x \in Task : x = proc[q]
  BY Parts
<1>1. PICK s \in {"verify", "read", "verifyRenamed"} :
        /\ Goes(q, [x EXCEPT !.stage = s])
        /\ \/ x.stage = "sync" /\ x.op \in {"acquire", "complete"} /\ s \in {"verify", "read"}
           \/ x.stage = "syncRenamed" /\ x.op = "complete" /\ s = "verifyRenamed"
  BY <1>0 DEF SyncLease, SyncRenamed, Leasing, At
<1>2. kept' = Synced("leases") /\ seen' = seen /\ UNCHANGED history
  BY DEF SyncLease, SyncRenamed
<1> DEFINE y == [x EXCEPT !.stage = s]
           f == Ref("leases", x.prep)
<1>3. Knows(x) /\ DOMAIN seen = Refs
  BY <1>0, Parts DEF DiskInv, DiskOK
<1>4. /\ LeaseKnows(x) /\ x.prep \in Preps /\ x.run \in Runs /\ f \in Refs /\ f.dir = "leases"
      /\ kept[f] # Absent => LaterLease(seen[f], kept[f]) /\ seen[f] # Absent
  BY <1>1, <1>3, LeaseNamed
<1>5. y \in Task /\ y.op = x.op /\ y.stage = s /\ y.prep = x.prep /\ y.run = x.run
  <2>1. y \in Task
    BY TaskFields DEF Stages
  <2> QED
    BY <2>1, TaskRecord
<1>6. kept'[f] = seen[f]
  BY <1>2, <1>4 DEF Synced
<1>7. DiskInv' /\ Grows /\ SeenGrows
  BY <1>2, SyncedDisk
<1> HIDE DEF y
<1>8. HistoryOK'
  BY <1>2, <1>7, HistoryStays DEF DiskInv
<1>9. LeaseKnows(y)'
  BY <1>1, <1>4, <1>5, <1>6 DEF LeaseKnows, LaterLease
<1>10. Knows(y)'
  BY <1>1, <1>5, <1>9 DEF Knows
<1>11. Goes(q, y)
  BY <1>1 DEF y
<1> QED
  BY <1>5, <1>7, <1>8, <1>10, <1>11, TaskStep

(* acquireRunLease returns. *)
LEMMA GrantedKeeps ==
    ASSUME StoreInv, NEW q \in Procs, NEW state, Granted(q, state),
           NEW x \in Task, x = proc[q], x.op \in {"acquire", "complete"}, LeaseKnows(x),
           kept[Ref("leases", x.prep)] # Absent, kept[Ref("leases", x.prep)].run = x.run
    PROVE  StoreInv' /\ Grows
<1> DEFINE f == Ref("leases", x.prep)
<1>1. UNCHANGED <<seen, kept>> /\ UNCHANGED <<stored, receipts, prepared, ended>>
  BY DEF Granted
<1>2. DiskInv' /\ Grows /\ SeenGrows
  BY <1>1, DiskUnchanged
<1>3. CASE x.op = "complete" /\ state = "active"
  <2> DEFINE y == [x EXCEPT !.stage = "rename"]
  <2>1. Goes(q, y) /\ leased' = leased
    BY <1>3 DEF Granted
  <2>2. y \in Task /\ y.op = x.op /\ y.stage = "rename" /\ y.prep = x.prep /\ y.run = x.run
    <3>1. y \in Task
      BY TaskFields DEF Stages
    <3> QED
      BY <3>1, TaskRecord
  <2> HIDE DEF y
  <2>3. Knows(y)'
    BY <1>1, <1>3, <2>2 DEF Knows, LeaseKnows
  <2>4. HistoryOK'
    BY <1>1, <1>2, <2>1, HistoryStays DEF history, DiskInv
  <2> QED
    BY <1>2, <2>1, <2>2, <2>3, <2>4, TaskStep
<1>4. CASE ~(x.op = "complete" /\ state = "active")
  <2>1. Ends(q) /\ leased' = leased \cup {<<x.prep, x.run>>}
    BY <1>4 DEF Granted
  <2>2. x.prep \in Preps /\ x.run \in Runs
    BY DEF LeaseKnows
  <2>3. HistoryOK'
    BY <1>1, <2>1, <2>2, Parts DEF HistoryOK, ReceiptsAreKept, AllKept, StoredIsKept, LeasesAreKept
  <2> QED
    BY <1>2, <2>1, <2>3, Ending
<1> QED
  BY <1>3, <1>4

LEMMA Refused ==
    ASSUME StoreInv, NEW q \in Procs, Ends(q), UNCHANGED <<seen, kept, history>>
    PROVE  StoreInv' /\ Grows
<1>1. UNCHANGED <<seen, kept>> /\ UNCHANGED history
  OBVIOUS
<1>2. DiskInv' /\ Grows /\ SeenGrows
  BY <1>1, DiskUnchanged
<1>3. HistoryOK'
  BY <1>1, <1>2, HistoryStays DEF DiskInv
<1> QED
  BY <1>2, <1>3, Ending

LEMMA ReadBackKeeps ==
    ASSUME StoreInv, NEW q \in Procs, VerifyLease(q) \/ ReadLease(q)
    PROVE  StoreInv' /\ Grows
<1>0. PICK x \in Task : x = proc[q]
  BY Parts
<1> DEFINE f == Ref("leases", x.prep)
<1>1. x.op \in {"acquire", "complete"} /\ x.stage \in {"verify", "read"}
  BY <1>0 DEF VerifyLease, ReadLease, Leasing
<1>2. Knows(x)
  BY <1>0, Parts
<1>3. LeaseKnows(x) /\ kept[f] # Absent /\ seen[f] \in Leases /\ seen[f].run = kept[f].run
  BY <1>1, <1>2, LeaseNamed DEF LeaseKnows, LaterLease
<1>4. CASE Ends(q) /\ UNCHANGED <<seen, kept, history>>
  BY <1>4, Refused
<1>5. CASE seen[f] = Lease(x.run, "active") /\ Granted(q, "active")
  <2>1. kept[f].run = x.run
    BY <1>3, <1>5 DEF Lease
  <2> QED
    BY <1>0, <1>1, <1>3, <1>5, <2>1, GrantedKeeps
<1>6. CASE seen[f].run = x.run /\ Granted(q, seen[f].state)
  <2>1. PICK s \in {"active", "completed"} : s = seen[f].state
    BY <1>3 DEF Leases
  <2> QED
    BY <1>0, <1>1, <1>3, <1>6, <2>1, GrantedKeeps
<1> QED
  BY <1>0, <1>4, <1>5, <1>6 DEF VerifyLease, ReadLease, LeaseRef

LEMMA RenameKeeps ==
    ASSUME StoreInv, NEW q \in Procs, Rename(q)
    PROVE  StoreInv' /\ Grows
<1>0. PICK x \in Task : x = proc[q]
  BY Parts
<1> DEFINE f == Ref("leases", x.prep)
           y == [x EXCEPT !.stage = "syncRenamed"]
<1>1. /\ x.op = "complete" /\ x.stage = "rename" /\ Goes(q, y)
      /\ seen' = [seen EXCEPT ![f] = Lease(x.run, "completed")] /\ kept' = kept
      /\ UNCHANGED history
  BY <1>0 DEF Rename, At, LeaseRef
<1>2. Knows(x)
  BY <1>0, Parts
<1>3. LeaseKnows(x) /\ x.prep \in Preps /\ x.run \in Runs /\ kept[f] # Absent /\ kept[f].run = x.run
  BY <1>1, <1>2, LeaseNamed DEF LeaseKnows
<1>4. DiskInv' /\ Grows /\ SeenGrows /\ seen'[f].state = "completed"
  BY <1>1, <1>3, RenamedDisk
<1>5. y \in Task /\ y.op = x.op /\ y.stage = "syncRenamed" /\ y.prep = x.prep /\ y.run = x.run
  <2>1. y \in Task
    BY TaskFields DEF Stages
  <2> QED
    BY <2>1, TaskRecord
<1> HIDE DEF y
<1>6. HistoryOK'
  BY <1>1, <1>4, HistoryStays DEF DiskInv
<1>7. Knows(y)'
  BY <1>1, <1>3, <1>4, <1>5 DEF Knows, LeaseKnows
<1> QED
  BY <1>1, <1>4, <1>5, <1>6, <1>7, TaskStep

LEMMA VerifyRenamedKeeps ==
    ASSUME StoreInv, NEW q \in Procs, VerifyRenamed(q)
    PROVE  StoreInv' /\ Grows
<1>0. PICK x \in Task : x = proc[q]
  BY Parts
<1> DEFINE f == Ref("leases", x.prep)
<1>1. /\ x.op = "complete" /\ x.stage = "verifyRenamed" /\ Ends(q)
      /\ UNCHANGED <<seen, kept>> /\ UNCHANGED <<stored, receipts, prepared>>
      /\ \/ ended' = ended \cup {<<x.prep, x.run>>} /\ leased' = leased \cup {<<x.prep, x.run>>}
         \/ UNCHANGED <<ended, leased>>
  BY <1>0 DEF VerifyRenamed, At
<1>2. Knows(x)
  BY <1>0, Parts
<1>3. /\ LeaseKnows(x) /\ x.prep \in Preps /\ x.run \in Runs /\ kept[f] \in Leases
      /\ kept[f] # Absent /\ kept[f].run = x.run /\ kept[f].state = "completed"
  BY <1>1, <1>2, LeaseNamed DEF LeaseKnows
<1>4. kept[f] = Lease(x.run, "completed")
  BY <1>3 DEF Leases, Lease
<1>5. DiskInv' /\ Grows /\ SeenGrows
  BY <1>1, DiskUnchanged
<1>6. HistoryOK'
  BY <1>1, <1>3, <1>4, Parts DEF HistoryOK, ReceiptsAreKept, AllKept, StoredIsKept, LeasesAreKept
<1> QED
  BY <1>1, <1>5, <1>6, Ending

-----------------------------------------------------------------------------
LEMMA PowerLossKeeps ==
    ASSUME StoreInv, PowerLoss
    PROVE  StoreInv' /\ Grows
<1>1. PICK gone \in SUBSET {f \in Refs : seen[f] # kept[f]} :
          /\ seen' = [f \in Refs |-> IF f \in gone THEN kept[f] ELSE seen[f]]
          /\ kept' = seen'
  BY DEF PowerLoss
<1>2. proc' = [q \in Procs |-> NoTask] /\ UNCHANGED history
  BY DEF PowerLoss
<1>3. DiskInv
  BY Parts
<1>4. \A f \in Refs : seen'[f] \in {seen[f], kept[f]} /\ kept'[f] = seen'[f]
  BY <1>1
<1>5. DiskOK'
  BY <1>1, <1>3 DEF DiskInv, DiskOK
<1>6. Grows
  BY <1>3, <1>4, Names DEF DiskInv, KeptIsSeen, CompletedIsKept, Grows, LaterLease
<1>7. KeptIsSeen' /\ CompletedIsKept'
  BY <1>4, Names DEF KeptIsSeen, CompletedIsKept, LaterLease
<1>8. DiskInv'
  BY <1>4, <1>5, <1>6, <1>7, GrownDisk DEF DiskInv
<1>9. HistoryOK'
  BY <1>2, <1>5, <1>6, HistoryStays
<1>10. proc' \in [Procs -> Task] /\ \A q \in Procs : Knows(proc[q])'
  BY <1>2, NothingIsTask DEF Knows, NoTask
<1> QED
  BY <1>6, <1>8, <1>9, <1>10
  DEF StoreInv, DiskInv, DiskOK, HistoryOK, FactsTypeOK, Task

-----------------------------------------------------------------------------
LEMMA StepKeeps ==
    ASSUME StoreInv, [FactsNext]_factsVars
    PROVE  StoreInv' /\ Grows
<1>1. CASE PowerLoss
  BY <1>1, PowerLossKeeps
<1>2. ASSUME NEW q \in Procs, Steps(q) PROVE StoreInv' /\ Grows
  <2>1. CASE (\E c \in Bindings : Put(q, c)) \/ PutFound(q) \/ Publish(q) \/ Sync(q)
             \/ (\E c \in Bindings, p \in Preps : Prepare(q, c, p))
    BY <2>1, PutKeeps, PutFoundKeeps, PublishKeeps, SyncKeeps, PrepareKeeps
  <2>2. CASE \/ \E op \in {"acquire", "complete"}, p \in Preps, r \in Runs : AskLease(q, op, p, r)
             \/ LinkLease(q) \/ SyncLease(q) \/ SyncRenamed(q)
    BY <2>2, AskLeaseKeeps, LinkLeaseKeeps, SyncLeaseKeeps
  <2>3. CASE VerifyLease(q) \/ ReadLease(q) \/ Rename(q) \/ VerifyRenamed(q)
    BY <2>3, ReadBackKeeps, RenameKeeps, VerifyRenamedKeeps
  <2>4. CASE Die(q)
    BY <2>4, Refused DEF Die
  <2> QED
    BY <1>2, <2>1, <2>2, <2>3, <2>4 DEF Steps
<1>3. CASE UNCHANGED factsVars
  <2>1. DiskInv' /\ Grows
    BY <1>3, DiskUnchanged DEF factsVars
  <2>2. HistoryOK'
    BY <1>3, <2>1, HistoryStays DEF factsVars, history, DiskInv
  <2>3. proc' \in [Procs -> Task] /\ \A q \in Procs : Knows(proc[q])'
    BY <1>3, Parts DEF factsVars, Knows, PutKnows, PrepareKnows, LeaseKnows, AllKept
  <2> QED
    BY <2>1, <2>2, <2>3 DEF StoreInv, DiskInv, DiskOK, HistoryOK, FactsTypeOK, Task
<1> QED
  BY <1>1, <1>2, <1>3 DEF FactsNext

(* What the store keeps, shows and has told, in every state. *)
THEOREM StoreInvAlways == FactsSpec => []StoreInv
<1>1. FactsInit => StoreInv
  BY Initially
<1>2. StoreInv /\ [FactsNext]_factsVars => StoreInv'
  BY StepKeeps
<1> QED
  BY <1>1, <1>2, PTL DEF FactsSpec

(* Files and tasks have their types. *)
THEOREM StoreTyped == FactsSpec => []FactsTypeOK
<1>1. StoreInv => FactsTypeOK
  BY DEF StoreInv
<1> QED
  BY <1>1, StoreInvAlways, PTL

(* A receipt anybody can see stands before facts no power loss takes away, *)
(* and one that put() published and returned outlives every crash (put).   *)
THEOREM ReceiptsStand == FactsSpec => []ReceiptMeansStored
<1>1. StoreInv => ReceiptMeansStored
  BY DEF StoreInv, ReceiptMeansStored
<1> QED
  BY <1>1, StoreInvAlways, PTL

(* A preparation that can be seen can be opened (createPreparation). *)
THEOREM PreparationsOpen == FactsSpec => []PreparationOpens
<1>1. StoreInv => PreparationOpens
  BY DEF StoreInv
<1> QED
  BY <1>1, StoreInvAlways, PTL

(* A lease that was handed out, or completed, stays so, and with one run   *)
(* (acquireRunLease, completeRunLease).                                    *)
THEOREM LeasesStand == FactsSpec => []LeasesAreKept
<1>1. StoreInv => LeasesAreKept
  BY DEF StoreInv
<1> QED
  BY <1>1, StoreInvAlways, PTL

-----------------------------------------------------------------------------
(* The leases that a power loss cannot take go to one run once, and are    *)
(* completed by it once: the store implements RunLease.                    *)
THEOREM LeasesImplement == FactsSpec => ImplementsRunLease
<1> USE DEF Promise!Init, Promise!Next, Promise!Grant, Promise!Complete, Promise!Stay, Kept
<1>1. FactsInit => Promise!Init
  BY Names DEF FactsInit
<1>2. StoreInv /\ [FactsNext]_factsVars => Promise!Next
  <2> SUFFICES ASSUME StoreInv, [FactsNext]_factsVars, NEW p \in Preps
               PROVE  Promise!Grant(p) \/ Promise!Complete(p) \/ Promise!Stay(p)
    OBVIOUS
  <2> DEFINE f == Ref("leases", p)
  <2>1. StoreInv' /\ Grows
    BY StepKeeps
  <2>2. f \in Refs /\ f.dir = "leases" /\ Holds(f) = Leases /\ Absent \notin Leases
    BY Names, RefFields
  <2>3. kept[f] \in Leases \cup {Absent} /\ kept'[f] \in Leases \cup {Absent}
    BY <2>1, <2>2 DEF StoreInv, FactsTypeOK
  <2>4. kept[f] \in Leases =>
            kept'[f] \in Leases /\ kept'[f].run = kept[f].run
            /\ (kept[f].state = "completed" => kept'[f].state = "completed")
    BY <2>1, <2>2, <2>3 DEF Grows, LaterLease
  <2>5. kept[f] = Absent /\ kept'[f] # Absent => kept'[f].state = "active"
    BY <2>1 DEF Grows
  <2>6. \A l \in Leases : l.run \in Runs /\ l.state \in {"active", "completed"}
    BY DEF Leases
  <2> QED
    BY <2>2, <2>3, <2>4, <2>5, <2>6, AbsentAssumption
<1> QED
  BY <1>1, <1>2, StoreInvAlways, PTL DEF FactsSpec, ImplementsRunLease, Promise!Spec
=============================================================================
