--------------------------- MODULE LifecycleHosts ---------------------------
(***************************************************************************)
(* The lifecycle operations with their awaits, run by hosts that share one *)
(* database and one directory of Markdown files (the daemon and the        *)
(* agent-side plugin open the same project; DatabaseConnection.ts lets     *)
(* processes share the database and orders only their single writes).      *)
(*                                                                         *)
(* A host is a strand of operations: each ends before the next begins, as  *)
(* where every call is awaited.  Steps of different hosts interleave       *)
(* freely.  A process in which operations overlap is two hosts or more:    *)
(* one whose callers do not wait for each other, and one whose executor    *)
(* listens to the signals, because SignalBus.emit starts its execution in  *)
(* the middle of the transition that emits, and goes on with both.         *)
(* The code between two awaits is one step.  An operation goes through     *)
(*                                                                         *)
(*   read     findById: the row the guards are evaluated on;               *)
(*   check    the guards; the sustain operations then read the row again   *)
(*            (persistKnowledgeUpdate), the service operations write the   *)
(*            file at once (commitKnowledgeWrite);                         *)
(*   file     sustain operations: the whole prospective row to the file;   *)
(*   db       the update of the database row.                              *)
(*                                                                         *)
(* The sustain operations write the whole row they read back; the service  *)
(* operations write the fields they change over the row that is there.     *)
(* The gateway's decision "valid" writes the stats of a row, and no file.  *)
(* Days pass between operations, never within one (Tick).                  *)
(***************************************************************************)
EXTENDS Lifecycle, Sequences

CONSTANTS Recipes, Exempt, UserOps,
          Hosts,      \* the strands of operations
          MaxJobs,    \* bound: operations started in a behaviour; 0 for no bound
          MayFail     \* whether a database write may fail (SQLITE_BUSY after 3 s)

ASSUME HostsAssumption == /\ Exempt \subseteq Recipes
                          /\ UserOps \subseteq DOMAIN UserTarget
                          /\ MaxJobs \in Nat
                          /\ MayFail \in BOOLEAN

VARIABLES stored, row, cause,   \* the database, as in RecipeLifecycle
          disk, file,           \* the recipes with a file, and what it says
          used,                 \* the ids handed out; an id is never given twice
          diverged,             \* the recipes a DivergenceError was raised for
          verified,             \* history: those found valid since their file was written
          pc,                   \* where each host is
          job,                  \* the operation it runs: op, recipe r, argument
          seen,                 \* the row it read before its guards
          new,                  \* the row it is about to write
          sweep,                \* the rest of the sweep it runs
          jobs                  \* operations started so far

store == <<stored, row, cause, disk, file, used, diverged, verified>>
vars == <<stored, row, cause, disk, file, used, diverged, verified, pc, job, seen, new, sweep,
          jobs>>

Blank == NewRow("pending", Unset, FALSE, FALSE)
(* The rows the ConfidenceRouter lets create insert. *)
NewRows == {NewRow("staging", g, TRUE, ready) : g \in Graces, ready \in BOOLEAN}
           \cup {NewRow(state, Unset, auto, ready) :
                  state \in {"pending", "deprecated"}, auto \in BOOLEAN, ready \in BOOLEAN}
NoSweep == [kind |-> "none", states |-> <<>>, left |-> {}, rows |-> [r \in Recipes |-> Blank]]
NoJob == [op |-> "none"]
Idle(h) == pc[h] = "idle"

Init == /\ stored = {} /\ disk = {} /\ used = {}
        /\ row = [r \in Recipes |-> Blank]
        /\ file = row
        /\ cause = [r \in Recipes |-> "created"]
        /\ diverged = {} /\ verified = {}
        /\ pc = [h \in Hosts |-> "idle"]
        /\ job = [h \in Hosts |-> NoJob]
        /\ seen = [h \in Hosts |-> Blank] /\ new = [h \in Hosts |-> Blank]
        /\ sweep = [h \in Hosts |-> NoSweep]
        /\ jobs = 0

-----------------------------------------------------------------------------
(* The requests of the gateway and the proposal executor, whatever state   *)
(* the recipe is in: an execution attaches, completes and reverts by calls *)
(* of their own.  The detector asks for the recipes it found active.       *)
MachineRequests == {<<"deprecated", "evolution-gateway">>, <<"deprecated", "proposal-execution">>,
                    <<"decaying", "proposal-execution">>, <<"evolving", "proposal-attach">>,
                    <<"staging", "content-patch-complete">>,
                    <<"active", "content-patch-complete">>, <<"active", "timeout-recovery">>}
Service == {"user", "content"}     \* operations that write their fields over the row
NoReread == Service \cup {"delete", "valid"}

Request(op, r, arg, why) == [op |-> op, r |-> r, arg |-> arg, why |-> why]

Start(h, request) ==
    /\ Idle(h)
    /\ MaxJobs = 0 \/ jobs < MaxJobs
    /\ jobs' = IF MaxJobs = 0 THEN 0 ELSE jobs + 1
    /\ job' = [job EXCEPT ![h] = request]
    /\ pc' = [pc EXCEPT ![h] = "read"]
    /\ UNCHANGED <<store, seen, new, sweep>>

Begin(h) == \E r \in stored :
    \/ \E q \in MachineRequests : Start(h, Request("machine", r, q[1], q[2]))
    \/ /\ row[r].lifecycle = "active"
       /\ Start(h, Request("machine", r, "decaying", "decay-detection"))
    \/ \E op \in UserOps : Start(h, Request("user", r, op, "user"))
    \/ \E g \in Graces : Start(h, Request("enter", r, g, "enter_staging"))
    \/ \E v \in {"pass", "fail"} : Start(h, Request("review", r, v, "keep"))
    \/ \E b \in BOOLEAN : Start(h, Request("content", r, b, "keep"))
    \/ Start(h, Request("rollback", r, 0, "staging_rollback"))
    \/ \E op \in {"use", "valid"} : Start(h, Request(op, r, 0, "keep"))
    \/ Start(h, Request("delete", r, 0, "keep"))

(* create: the file and the insert, with no await between them. *)
Create(h) == \E r \in Recipes \ used, x \in NewRows :
    /\ Idle(h)
    /\ used' = used \cup {r}
    /\ disk' = disk \cup {r}
    /\ file' = [file EXCEPT ![r] = x]
    /\ \/ /\ stored' = stored \cup {r}
          /\ row' = [row EXCEPT ![r] = x]
          /\ UNCHANGED diverged
       \/ /\ MayFail
          /\ diverged' = diverged \cup {r}
          /\ UNCHANGED <<stored, row>>
    /\ UNCHANGED <<cause, verified, pc, job, seen, new, sweep, jobs>>

(* An operation that returns or throws: a sweep goes on or is abandoned.   *)
Returned(h, how) ==
    /\ pc' = [pc EXCEPT ![h] = IF sweep[h].kind = "none" \/ how = "throws"
                               THEN "idle" ELSE "sweep"]
    /\ sweep' = IF how = "throws" THEN [sweep EXCEPT ![h] = NoSweep] ELSE sweep
    /\ seen' = [seen EXCEPT ![h] = Blank]
    /\ new' = [new EXCEPT ![h] = Blank]
    /\ job' = [job EXCEPT ![h] = NoJob]

(* What an operation does to a row: to the one it read again, to the one   *)
(* it writes into the file, to the one the database holds.                 *)
Edit(h, x) == LET j == job[h] IN
    CASE j.op = "machine"   -> MachineRow(seen[h], x, j.arg)
      [] j.op = "user"      -> Moved(x, UserTarget[j.arg])
      [] j.op = "enter"     -> [Moved(x, "staging") EXCEPT !.deadline = j.arg]
      [] j.op = "rollback"  -> [Moved(x, "pending") EXCEPT !.deadline = Unset]
      [] j.op = "published" -> [Touched(x) EXCEPT !.deadline = Unset]
      [] j.op = "review"    -> [Touched(WithStats(x, seen[h])) EXCEPT !.review = j.arg]
      [] j.op = "use"       -> Touched(WithStats(x, seen[h]))
      [] j.op = "content"   -> [Touched(x) EXCEPT !.ready = j.arg]

(* Mutant: rollback does not look at the state. *)
AcceptedRollback(h) == LET j == job[h] x == seen[h] IN
    CASE j.op = "machine" -> Admits(x, j.r \in Exempt, j.arg)
      [] j.op = "user"    -> /\ IsValidTransition(x.lifecycle, UserTarget[j.arg])
                             /\ j.arg \in {"publish", "restore"} => j.r \in Exempt \/ x.ready
      [] j.op = "enter"   -> x.lifecycle = "pending"
      [] OTHER            -> TRUE

Accepted(h) == LET j == job[h] x == seen[h] IN
    CASE j.op = "machine" -> Admits(x, j.r \in Exempt, j.arg)
      [] j.op = "user"    -> /\ IsValidTransition(x.lifecycle, UserTarget[j.arg])
                             /\ j.arg \in {"publish", "restore"} => j.r \in Exempt \/ x.ready
      [] j.op = "enter"   -> x.lifecycle = "pending"
      [] j.op \in {"rollback", "review"} -> x.lifecycle = "staging"
      [] OTHER            -> TRUE

Read(h) == LET r == job[h].r IN
    /\ pc[h] = "read"
    /\ IF r \in stored
       THEN /\ seen' = [seen EXCEPT ![h] = row[r]]
            /\ pc' = [pc EXCEPT ![h] = "check"]
            /\ UNCHANGED <<sweep, new, job>>
       ELSE Returned(h, "refused")
    /\ UNCHANGED <<store, jobs>>

(* A rollback that finds its entry out of staging returns false, and the   *)
(* sweep then promotes the entry.                                          *)
Refuse(h) ==
    /\ pc[h] = "check"
    /\ ~Accepted(h)
    /\ IF job[h].op = "rollback" /\ sweep[h].kind # "none"
       THEN /\ job' = [job EXCEPT ![h] =
                         Request("machine", job[h].r, "active", "grace-period-expire")]
            /\ pc' = [pc EXCEPT ![h] = "read"]
            /\ UNCHANGED <<sweep, seen, new>>
       ELSE Returned(h, "refused")
    /\ UNCHANGED <<store, jobs>>

(* The file cannot be written or removed: nothing has changed. *)
FileFails(h) ==
    /\ MayFail
    /\ \/ pc[h] = "file"
       \/ pc[h] = "check" /\ job[h].op \in Service \cup {"delete"} /\ Accepted(h)
    /\ Returned(h, "throws")
    /\ UNCHANGED <<store, jobs>>

(* The second read of a sustain operation. *)
Reread(h) == LET r == job[h].r IN
    /\ pc[h] = "check"
    /\ job[h].op \notin NoReread
    /\ Accepted(h)
    /\ IF r \in stored
       THEN /\ new' = [new EXCEPT ![h] = Edit(h, row[r])]
            /\ pc' = [pc EXCEPT ![h] = "file"]
            /\ UNCHANGED <<sweep, seen, job>>
       ELSE Returned(h, "throws")
    /\ UNCHANGED <<store, jobs>>

WriteFile(r, x) == /\ disk' = disk \cup {r}
                   /\ file' = [file EXCEPT ![r] = x]
                   /\ verified' = verified \ {r}

(* The file, and then the check that the row exists: DivergenceError.      *)
Persist(h) == LET r == job[h].r IN
    /\ pc[h] = "file"
    /\ WriteFile(r, new[h])
    /\ IF r \in stored
       THEN pc' = [pc EXCEPT ![h] = "db"] /\ UNCHANGED <<diverged, sweep, seen, new, job>>
       ELSE diverged' = diverged \cup {r} /\ Returned(h, "throws")
    /\ UNCHANGED <<stored, row, cause, used, jobs>>

(* A service operation writes its entity to the file and lays its fields   *)
(* over the row that the update reads.                                     *)
PersistService(h) == LET r == job[h].r IN
    /\ pc[h] = "check"
    /\ job[h].op \in Service
    /\ Accepted(h)
    /\ WriteFile(r, Edit(h, seen[h]))
    /\ IF r \in stored
       THEN /\ new' = [new EXCEPT ![h] = Edit(h, row[r])]
            /\ pc' = [pc EXCEPT ![h] = "db"]
            /\ UNCHANGED <<diverged, sweep, seen, job>>
       ELSE diverged' = diverged \cup {r} /\ Returned(h, "throws")
    /\ UNCHANGED <<stored, row, cause, used, jobs>>

RemoveFile(h) == LET r == job[h].r IN
    /\ pc[h] = "check"
    /\ job[h].op = "delete"
    /\ disk' = disk \ {r}
    /\ file' = [file EXCEPT ![r] = Blank]
    /\ verified' = verified \ {r}
    /\ pc' = [pc EXCEPT ![h] = "db"]
    /\ UNCHANGED <<stored, row, cause, used, diverged, job, seen, new, sweep, jobs>>

(* updateStats on behalf of #handleValid, which does not look whether it   *)
(* fails: the stats it read, and updatedAt.                                *)
Verify(h) == LET r == job[h].r IN
    /\ pc[h] = "check"
    /\ job[h].op = "valid"
    /\ \/ /\ r \in stored
          /\ row' = [row EXCEPT ![r] = Touched(WithStats(@, seen[h]))]
          /\ verified' = verified \cup {r}
       \/ /\ MayFail \/ r \notin stored
          /\ UNCHANGED <<row, verified>>
    /\ Returned(h, "done")
    /\ UNCHANGED <<stored, cause, disk, file, used, diverged, jobs>>

(* Mutant: an update that finds no row inserts one. *)
CommitUpserts(h) == LET r == job[h].r IN
    /\ pc[h] = "db"
    /\ job[h].op # "delete"
    /\ stored' = stored \cup {r}
    /\ row' = [row EXCEPT ![r] = new[h]]
    /\ Returned(h, "done")
    /\ UNCHANGED <<cause, disk, file, used, diverged, verified, jobs>>

(* The row.  A promotion is followed by the publish metadata. *)
Commit(h) == LET r == job[h].r IN
    /\ pc[h] = "db"
    /\ job[h].op # "delete"
    /\ r \in stored
    /\ row' = [row EXCEPT ![r] = new[h]]
    /\ cause' = IF job[h].why = "keep" THEN cause ELSE [cause EXCEPT ![r] = job[h].why]
    /\ IF job[h].why = "grace-period-expire"
       THEN /\ job' = [job EXCEPT ![h] = Request("published", r, 0, "keep")]
            /\ pc' = [pc EXCEPT ![h] = "check"]
            /\ UNCHANGED <<sweep, seen, new>>
       ELSE Returned(h, "done")
    /\ UNCHANGED <<stored, disk, file, used, diverged, verified, jobs>>

CommitDelete(h) == LET r == job[h].r IN
    /\ pc[h] = "db"
    /\ job[h].op = "delete"
    /\ stored' = stored \ {r}
    /\ row' = [row EXCEPT ![r] = Blank]
    /\ cause' = [cause EXCEPT ![r] = "created"]
    /\ Returned(h, "done")
    /\ UNCHANGED <<disk, file, used, diverged, verified, jobs>>

(* Mutant: a failed database write is swallowed. *)
CommitFailsSilently(h) ==
    /\ pc[h] = "db"
    /\ MayFail
    /\ Returned(h, "refused")
    /\ UNCHANGED <<store, jobs>>

(* The update finds no row, or the database refuses the write. *)
CommitFails(h) ==
    /\ pc[h] = "db"
    /\ MayFail \/ (job[h].r \notin stored /\ job[h].op # "delete")
    /\ diverged' = diverged \cup {job[h].r}
    /\ Returned(h, "throws")
    /\ UNCHANGED <<stored, row, cause, disk, file, used, verified, jobs>>

-----------------------------------------------------------------------------
(***************************************************************************)
(* The sweeps work on the rows they queried when they began with a state.  *)
(* checkTimeouts queries one state after the other.                        *)
(***************************************************************************)
BeginSweep(h) == \E kind \in {"staging", "timeouts"} :
    /\ Idle(h)
    /\ MaxJobs = 0 \/ jobs < MaxJobs
    /\ jobs' = IF MaxJobs = 0 THEN 0 ELSE jobs + 1
    /\ sweep' = [sweep EXCEPT ![h] =
                   [NoSweep EXCEPT !.kind = kind,
                                   !.states = IF kind = "staging" THEN <<"staging">>
                                              ELSE <<"evolving", "decaying", "pending">>]]
    /\ pc' = [pc EXCEPT ![h] = "sweep"]
    /\ UNCHANGED <<store, job, seen, new>>

Query(h) == LET s == sweep[h] IN
    /\ pc[h] = "sweep"
    /\ s.left = {}
    /\ IF s.states = <<>>
       THEN sweep' = [sweep EXCEPT ![h] = NoSweep] /\ pc' = [pc EXCEPT ![h] = "idle"]
       ELSE LET found == {r \in stored : row[r].lifecycle = Head(s.states)} IN
            /\ sweep' = [sweep EXCEPT ![h] =
                  [kind |-> s.kind, states |-> Tail(s.states), left |-> found,
                   rows |-> [r \in Recipes |-> IF r \in found THEN row[r] ELSE Blank]]]
            /\ UNCHANGED pc
    /\ UNCHANGED <<store, job, seen, new, jobs>>

(* An entry of the query: its deadline or age is the queried one, its      *)
(* review verdict is read now (getStagingReviewSync).                      *)
Wanted(kind, x) == IF kind = "staging" THEN Due(x) ELSE TimedOut(x)

Visit(h) == LET s == sweep[h] IN
    /\ pc[h] = "sweep"
    /\ \E r \in s.left :
         /\ sweep' = [sweep EXCEPT ![h].left = @ \ {r}, ![h].rows[r] = Blank]
         /\ IF ~Wanted(s.kind, s.rows[r])
            THEN UNCHANGED <<pc, job>>
            ELSE /\ pc' = [pc EXCEPT ![h] = "read"]
                 /\ job' = [job EXCEPT ![h] =
                      IF s.kind = "timeouts"
                      THEN Request("machine", r, TimeoutTarget[s.rows[r].lifecycle],
                                   "timeout-recovery")
                      ELSE IF r \in stored /\ row[r].review = "fail"
                      THEN Request("rollback", r, 0, "staging_rollback")
                      ELSE Request("machine", r, "active", "grace-period-expire")]
    /\ UNCHANGED <<store, seen, new, jobs>>

Tick == /\ \A h \in Hosts : Idle(h)
        /\ row' = [r \in Recipes |-> IF r \in stored THEN Aged(row[r]) ELSE row[r]]
        /\ file' = [r \in Recipes |-> IF r \in disk THEN Aged(file[r]) ELSE file[r]]
        /\ UNCHANGED <<stored, cause, disk, used, diverged, verified, pc, job, seen, new, sweep, jobs>>

Work(h) == \/ Read(h) \/ Refuse(h) \/ FileFails(h) \/ Reread(h) \/ Persist(h) \/ PersistService(h)
           \/ RemoveFile(h) \/ Verify(h) \/ Commit(h) \/ CommitDelete(h) \/ CommitFails(h)
           \/ Query(h) \/ Visit(h)

HostNext(h) == Create(h) \/ Begin(h) \/ BeginSweep(h) \/ Work(h)

Next == Tick \/ \E h \in Hosts : HostNext(h)

Spec == Init /\ [][Next]_vars

-----------------------------------------------------------------------------
TypeOK == /\ stored \subseteq used /\ disk \subseteq used
          /\ diverged \subseteq used /\ verified \subseteq used
          /\ row \in [Recipes -> Row] /\ file \in [Recipes -> Row]
          /\ pc \in [Hosts -> {"idle", "read", "check", "file", "db", "sweep"}]
          /\ seen \in [Hosts -> Row] /\ new \in [Hosts -> Row]

(* Between operations a recipe's file says what its row says, except where *)
(* a DivergenceError said otherwise (BaseError.ts: "Callers must not treat *)
(* the write as silently complete"), and except the time of the update     *)
(* where the gateway found it valid since and wrote the row alone.         *)
SaysTheSame(r) ==
    row[r] = IF r \in verified THEN [file[r] EXCEPT !.age = row[r].age] ELSE file[r]
NoSilentDivergence ==
    (\A h \in Hosts : Idle(h)) =>
        \A r \in used \ diverged : (r \in stored <=> r \in disk) /\ SaysTheSame(r)

(* However operations interleave, none brings back a row that delete has   *)
(* removed (KnowledgeRepositoryImpl.update demands that it changes a row). *)
DeletedStaysDeleted == [][stored' \cap used \subseteq stored]_vars

(* A staging sweep that turns to publishing an entry finds no failed review*)
(* on it: an entry whose review failed is rolled back, not published.      *)
FailedReviewNotPublished ==
    [][\A h \in Hosts :
         (job'[h] # job[h] /\ job'[h].op = "machine" /\ job'[h].why = "grace-period-expire")
         => row[job'[h].r].review # "fail"]_vars
=============================================================================
