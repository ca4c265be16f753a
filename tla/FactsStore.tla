----------------------------- MODULE FactsStore -----------------------------
(***************************************************************************)
(* The store of certified project facts (service/project-context/          *)
(* foundation/store.ts, FileCertifiedProjectFactsStore): content-addressed *)
(* files, preparations and run leases, shared by processes through a       *)
(* directory.                                                              *)
(*                                                                         *)
(* A file appears complete, under its name, by a link that does not        *)
(* replace, or by a rename that does; the name outlives a power loss once  *)
(* its directory was synchronised.  What a process sees and what the disk  *)
(* keeps are therefore two states: "seen" and "kept".  Processes take      *)
(* their steps in any order; one of them may die at any moment, and a      *)
(* power loss ends them all and keeps any of the names that were not       *)
(* synchronised.  Temporary files have names nobody asks for.              *)
(***************************************************************************)
EXTENDS FactsNames, Naturals

CONSTANTS Procs      \* processes

VARIABLES seen,       \* the names in the directory and what they hold
          kept,       \* those a power loss cannot take
          proc,       \* what each process is doing
          stored,     \* history: the bindings put() published and returned
          receipts,   \* history: the bindings put() returned, found ones included
          prepared,   \* history: the preparations createPreparation() returned
          leased,     \* history: the leases acquireRunLease() returned
          ended       \* history: the leases completeRunLease() wrote and returned

factsVars == <<seen, kept, proc, stored, receipts, prepared, leased, ended>>
history == <<stored, receipts, prepared, leased, ended>>

(* What open() reads for a binding; put() writes the receipt after it. *)
Facts(c) == {Ref("blobs", b) : b \in Blobs}
            \cup {Ref("artifacts", "artifact"), Ref("certifications", c)}

FactsOps == {"idle", "put", "prepare", "acquire", "complete"}
Stages == {"none", "found", "link", "sync", "verify", "read", "rename", "syncRenamed",
           "verifyRenamed"}
NoTask == [op |-> "idle", stage |-> "none", todo |-> {}, at |-> {},
            binding |-> "none", prep |-> "none", run |-> "none", fresh |-> FALSE]

FactsInit == /\ seen = [f \in Refs |-> Absent]
             /\ kept = [f \in Refs |-> Absent]
             /\ proc = [q \in Procs |-> NoTask]
             /\ stored = {} /\ receipts = {} /\ prepared = {} /\ leased = {} /\ ended = {}

FactsTypeOK == /\ \A f \in Refs : {seen[f], kept[f]} \subseteq Holds(f) \cup {Absent}
               /\ DOMAIN seen = Refs /\ DOMAIN kept = Refs
               /\ proc \in [Procs -> [op : FactsOps, stage : Stages, todo : SUBSET Refs,
                                      at : SUBSET Refs, binding : Bindings \cup {"none"},
                                      prep : Preps \cup {"none"}, run : Runs \cup {"none"},
                                      fresh : BOOLEAN]]
               /\ stored \subseteq Bindings /\ receipts \subseteq Bindings
               /\ prepared \subseteq Preps
               /\ leased \subseteq Preps \X Runs /\ ended \subseteq Preps \X Runs

-----------------------------------------------------------------------------
Goes(q, x) == proc' = [proc EXCEPT ![q] = x]
Ends(q) == Goes(q, NoTask)
At(q, op, stage) == proc[q].op = op /\ proc[q].stage = stage

(* link(): a name that is taken stays as it is. *)
Linked(f, content) == IF seen[f] = Absent THEN [seen EXCEPT ![f] = content] ELSE seen
(* fsync of a directory. *)
Synced(dir) == [g \in Refs |-> IF g.dir = dir THEN seen[g] ELSE kept[g]]

(* The order in which put() publishes. *)
Rank(f) == CASE f.dir = "blobs" -> 1
             [] f.dir = "artifacts" -> 2
             [] f.dir = "certifications" -> 3
             [] OTHER -> 4
(* Mutant: the receipt may be published before what it lists. *)
FirstAny(todo) == todo
First(todo) == {f \in todo : \A g \in todo : Rank(f) <= Rank(g)}

-----------------------------------------------------------------------------
(* put: an existing receipt is answered with itself, once open() has read  *)
(* everything behind it.                                                   *)
Put(q, c) ==
    /\ proc[q].op = "idle"
    /\ Goes(q, [NoTask EXCEPT !.op = "put", !.binding = c,
                  !.stage = IF seen[Ref("receipts", c)] = Absent THEN "link" ELSE "found",
                  !.todo = Facts(c) \cup {Ref("receipts", c)}])
    /\ UNCHANGED <<seen, kept, history>>

PutFound(q) ==
    /\ At(q, "put", "found")
    /\ receipts' = IF \A f \in Facts(proc[q].binding) : seen[f] # Absent
                   THEN receipts \cup {proc[q].binding} ELSE receipts
    /\ Ends(q)
    /\ UNCHANGED <<seen, kept, stored, prepared, leased, ended>>

(* createPreparation, with the binding of a put() that returned: open(),   *)
(* then a name that is new.                                                *)
Prepare(q, c, p) ==
    /\ proc[q].op = "idle" /\ c \in receipts
    /\ \A f \in Facts(c) : seen[f] # Absent
    /\ seen[Ref("preparations", p)] = Absent /\ p \notin prepared
    /\ \A o \in Procs : proc[o].op = "prepare" => proc[o].prep # p
    /\ Goes(q, [NoTask EXCEPT !.op = "prepare", !.stage = "link", !.binding = c, !.prep = p,
                  !.todo = {Ref("preparations", p)}])
    /\ UNCHANGED <<seen, kept, history>>

(* #publishNoReplace of an immutable file: the link, then the fsync of the *)
(* directory, whether the name was new or taken.                           *)
Publish(q) == \E f \in First(proc[q].todo) :
    /\ proc[q].op \in {"put", "prepare"} /\ proc[q].stage = "link"
    /\ seen' = Linked(f, IF f.dir = "preparations" THEN proc[q].binding ELSE "whole")
    /\ Goes(q, [proc[q] EXCEPT !.stage = "sync", !.at = {f}])
    /\ UNCHANGED <<kept, history>>

Sync(q) == \E f \in proc[q].at :
    LET rest == proc[q].todo \ {f} IN
    /\ proc[q].op \in {"put", "prepare"} /\ proc[q].stage = "sync"
    /\ kept' = Synced(f.dir)
    /\ IF rest # {} THEN /\ Goes(q, [proc[q] EXCEPT !.stage = "link", !.at = {}, !.todo = rest])
                         /\ UNCHANGED <<stored, receipts, prepared>>
       ELSE /\ Ends(q)
            /\ IF proc[q].op = "put"
               THEN /\ stored' = stored \cup {proc[q].binding}
                    /\ receipts' = receipts \cup {proc[q].binding}
                    /\ UNCHANGED prepared
               ELSE prepared' = prepared \cup {proc[q].prep} /\ UNCHANGED <<stored, receipts>>
    /\ UNCHANGED <<seen, leased, ended>>

-----------------------------------------------------------------------------
(* acquireRunLease, and completeRunLease, which begins with it.  The       *)
(* binding a caller expects is the one of its preparation.                 *)
LeaseRef(q) == Ref("leases", proc[q].prep)

AskLease(q, op, p, r) ==
    /\ proc[q].op = "idle"
    /\ p \in prepared /\ seen[Ref("preparations", p)] # Absent
    /\ Goes(q, [NoTask EXCEPT !.op = op, !.stage = "link", !.prep = p, !.run = r])
    /\ UNCHANGED <<seen, kept, history>>

Leasing(q, stage) == proc[q].op \in {"acquire", "complete"} /\ proc[q].stage = stage

LinkLease(q) ==
    /\ Leasing(q, "link")
    /\ seen' = Linked(LeaseRef(q), Lease(proc[q].run, "active"))
    /\ Goes(q, [proc[q] EXCEPT !.stage = "sync", !.fresh = (seen[LeaseRef(q)] = Absent)])
    /\ UNCHANGED <<kept, history>>

SyncLease(q) ==
    /\ Leasing(q, "sync")
    /\ kept' = Synced("leases")
    /\ Goes(q, [proc[q] EXCEPT !.stage = IF proc[q].fresh THEN "verify" ELSE "read"])
    /\ UNCHANGED <<seen, history>>

(* acquireRunLease returns: to its caller, or to completeRunLease. *)
Granted(q, state) ==
    /\ IF proc[q].op = "complete" /\ state = "active"
       THEN Goes(q, [proc[q] EXCEPT !.stage = "rename"]) /\ UNCHANGED leased
       ELSE Ends(q) /\ leased' = leased \cup {<<proc[q].prep, proc[q].run>>}
    /\ UNCHANGED <<seen, kept, stored, receipts, prepared, ended>>

(* The readback of what this process linked: anything else is an error. *)
VerifyLease(q) ==
    /\ Leasing(q, "verify")
    /\ \/ seen[LeaseRef(q)] = Lease(proc[q].run, "active") /\ Granted(q, "active")
       \/ /\ seen[LeaseRef(q)] # Lease(proc[q].run, "active")
          /\ Ends(q) /\ UNCHANGED <<seen, kept, history>>

(* Mutant: the run of the lease that is there is not compared. *)
ReadLeaseOfAny(q) ==
    /\ Leasing(q, "read")
    /\ Granted(q, seen[LeaseRef(q)].state)
(* The lease that was there: of this run, or a conflict. *)
ReadLease(q) ==
    /\ Leasing(q, "read")
    /\ \/ seen[LeaseRef(q)].run = proc[q].run /\ Granted(q, seen[LeaseRef(q)].state)
       \/ /\ seen[LeaseRef(q)].run # proc[q].run
          /\ Ends(q) /\ UNCHANGED <<seen, kept, history>>

(* Mutant: the rename is not synchronised. *)
RenameUnsynced(q) ==
    /\ At(q, "complete", "rename")
    /\ seen' = [seen EXCEPT ![LeaseRef(q)] = Lease(proc[q].run, "completed")]
    /\ Goes(q, [proc[q] EXCEPT !.stage = "verifyRenamed"])
    /\ UNCHANGED <<kept, history>>
(* #replaceAtomically. *)
Rename(q) ==
    /\ At(q, "complete", "rename")
    /\ seen' = [seen EXCEPT ![LeaseRef(q)] = Lease(proc[q].run, "completed")]
    /\ Goes(q, [proc[q] EXCEPT !.stage = "syncRenamed"])
    /\ UNCHANGED <<kept, history>>

SyncRenamed(q) ==
    /\ At(q, "complete", "syncRenamed")
    /\ kept' = Synced("leases")
    /\ Goes(q, [proc[q] EXCEPT !.stage = "verifyRenamed"])
    /\ UNCHANGED <<seen, history>>

VerifyRenamed(q) ==
    /\ At(q, "complete", "verifyRenamed")
    /\ Ends(q)
    /\ IF seen[LeaseRef(q)] = Lease(proc[q].run, "completed")
       THEN /\ ended' = ended \cup {<<proc[q].prep, proc[q].run>>}
            /\ leased' = leased \cup {<<proc[q].prep, proc[q].run>>}
       ELSE UNCHANGED <<ended, leased>>
    /\ UNCHANGED <<seen, kept, stored, receipts, prepared>>

-----------------------------------------------------------------------------
(* A process dies, or an operation fails and throws. *)
Die(q) == /\ proc[q].op # "idle" /\ Ends(q)
          /\ UNCHANGED <<seen, kept, history>>

(* The power fails: any of the names that were not synchronised survive. *)
PowerLoss == \E lost \in SUBSET {f \in Refs : seen[f] # kept[f]} :
    LET left == [f \in Refs |-> IF f \in lost THEN kept[f] ELSE seen[f]] IN
    /\ seen' = left /\ kept' = left
    /\ proc' = [q \in Procs |-> NoTask]
    /\ UNCHANGED history

Steps(q) == \/ \E c \in Bindings : Put(q, c)
            \/ \E c \in Bindings, p \in Preps : Prepare(q, c, p)
            \/ \E op \in {"acquire", "complete"}, p \in Preps, r \in Runs : AskLease(q, op, p, r)
            \/ PutFound(q) \/ Publish(q) \/ Sync(q)
            \/ LinkLease(q) \/ SyncLease(q) \/ VerifyLease(q) \/ ReadLease(q)
            \/ Rename(q) \/ SyncRenamed(q) \/ VerifyRenamed(q)
            \/ Die(q)
FactsNext == PowerLoss \/ \E q \in Procs : Steps(q)

FactsSpec == FactsInit /\ [][FactsNext]_factsVars

-----------------------------------------------------------------------------
(* A receipt that anybody can see, synchronised or not, stands before      *)
(* chunks, artifact and certification that no power loss takes away:       *)
(* readFrozenFile and the replay of put() never find a hole behind it. The *)
(* receipt itself survives once put() returned it after publishing.        *)
ReceiptsAreBacked ==
    \A c \in Bindings : seen[Ref("receipts", c)] # Absent => \A f \in Facts(c) : kept[f] # Absent
StoredIsKept == \A c \in stored : kept[Ref("receipts", c)] # Absent
ReceiptMeansStored == ReceiptsAreBacked /\ StoredIsKept

(* A preparation can always be opened: its binding's facts are durable     *)
(* before it can be seen.                                                  *)
PreparationOpens ==
    \A p \in Preps : seen[Ref("preparations", p)] # Absent =>
        \A f \in Facts(seen[Ref("preparations", p)]) : kept[f] # Absent

(* However acquisitions, completions, deaths and power losses interleave,  *)
(* a lease that was handed out stays with its run, and one whose           *)
(* completion was written and returned stays completed; so no two runs     *)
(* were ever told that they hold a preparation.                            *)
LeasesAreKept ==
    /\ \A l \in leased : kept[Ref("leases", l[1])] # Absent /\ kept[Ref("leases", l[1])].run = l[2]
    /\ \A l \in ended : kept[Ref("leases", l[1])] = Lease(l[2], "completed")

(* What a power loss cannot take are leases as RunLease promises them. *)
Kept(p) == kept[Ref("leases", p)]
Promise == INSTANCE RunLease WITH
    Nobody <- Absent,
    holder <- [p \in Preps |-> IF Kept(p) = Absent THEN Absent ELSE Kept(p).run],
    completed <- [p \in Preps |-> Kept(p) # Absent /\ Kept(p).state = "completed"]
ImplementsRunLease == Promise!Spec
=============================================================================
