----------------------------- MODULE VectorWal -----------------------------
(***************************************************************************)
(* Persistence of the vector store: the journal and the snapshots          *)
(* (infrastructure/vector/AsyncPersistence.ts, HnswVectorAdapter.ts,       *)
(* BinaryPersistence.ts), in one process at a time.                        *)
(*                                                                         *)
(* A call changes the memory and appends to the journal file in one        *)
(* synchronous step.  A flush takes the pending operations as its batch,   *)
(* has the snapshot of the memory encoded at once, writes it to a          *)
(* temporary file and renames it; then it removes the journal, or rewrites *)
(* it with what was appended meanwhile.  The process may die between any   *)
(* two steps, and the file operations may fail, an append to the journal   *)
(* excepted: its failure is only logged, and the call is not on disk until *)
(* the next snapshot.  A rename is atomic.                                 *)
(***************************************************************************)
EXTENDS VectorOps

CONSTANTS BatchSize,    \* flushBatchSize: pending operations that flush at once
          MaxCalls      \* bound: the calls of a behaviour

ASSUME SizeAssumption == BatchSize \in Nat \ {0} /\ MaxCalls \in Nat

VARIABLES snap,      \* the snapshot file
          wal,       \* the whole lines of the journal file
          torn,      \* whether the journal ends in a piece of a line
          phase,     \* the adapter: down, starting, up, closed, failed
          mem,       \* index, metadata and contents in memory
          dirty,     \* #dirty
          pending,   \* #pendingOps
          timer,     \* whether #flushTimer is set
          flush,     \* #flushPromise and where it is
          batch,     \* what it took from pending
          saver,     \* #persistPromise: who asked for the snapshot being written
          enc,       \* the encoded snapshot
          stale,     \* whether the memory changed since (#revision # snapshotRevision)
          caller,    \* an explicit flush(): in the journal's loop, or in the adapter's
          calls      \* the calls so far

disk == <<snap, wal, torn>>
tasks == <<flush, batch, saver, enc, stale>>
vars == <<snap, wal, torn, phase, mem, dirty, pending, timer, flush, batch, saver, enc,
          stale, caller, calls>>

Empty == [k \in Ids |-> None]
Running == {"starting", "up", "closed", "failed"}

TypeOK == /\ snap \in Contents /\ mem \in Contents /\ enc \in Contents
          /\ wal \in Seq(Ops) /\ pending \in Seq(Ops) /\ batch \in Seq(Ops)
          /\ torn \in BOOLEAN /\ dirty \in BOOLEAN /\ timer \in BOOLEAN /\ stale \in BOOLEAN
          /\ phase \in Running \cup {"down"}
          /\ flush \in {"idle", "waiting", "saving", "confirm"}
          /\ saver \in {"none", "wal", "own"}
          /\ caller \in {"none", "wal", "own"}
          /\ calls \in 0..MaxCalls

Init == /\ snap = Empty /\ wal = <<>> /\ torn = FALSE
        /\ phase = "down" /\ mem = Empty /\ dirty = FALSE
        /\ pending = <<>> /\ timer = FALSE
        /\ flush = "idle" /\ batch = <<>>
        /\ saver = "none" /\ enc = Empty /\ stale = FALSE
        /\ caller = "none" /\ calls = 0

-----------------------------------------------------------------------------
(* #persist: the memory m is encoded before the first await. *)
Encode(who, m) == saver' = who /\ enc' = m /\ stale' = FALSE

(* #doFlush up to its first await: b is taken as the batch, q stays        *)
(* pending.  A clean memory needs no snapshot, and one that is being       *)
(* written is waited for.                                                  *)
StartFlush(b, q, m, changed) ==
    /\ pending' = q /\ batch' = b /\ timer' = FALSE
    /\ \/ /\ saver = "none" /\ (dirty \/ changed)
          /\ flush' = "saving" /\ Encode("wal", m)
       \/ /\ saver = "none" /\ ~(dirty \/ changed)
          /\ flush' = "confirm" /\ UNCHANGED <<saver, enc, stale>>
       \/ /\ saver # "none"
          /\ flush' = "waiting" /\ stale' = (stale \/ changed) /\ UNCHANGED <<saver, enc>>

(* upsert, batchUpsert, remove, clear: the memory first, then a line of    *)
(* the journal and a place in the queue for each operation.  The one that  *)
(* fills the batch flushes at once; those behind it wait for the next.     *)
(* A line behind a torn one is glued to it and fails its checksum.         *)
Glued(ops) == IF torn THEN <<[Head(ops) EXCEPT !.kind = "none"]>> \o Tail(ops) ELSE ops
Cut == IF Len(pending) >= BatchSize THEN Len(pending) + 1 ELSE BatchSize

Write(ops) ==
    LET m == Replay(mem, ops)
        all == pending \o ops
    IN  /\ phase = "up" /\ calls < MaxCalls
        /\ mem' = m /\ dirty' = TRUE /\ calls' = calls + 1
        /\ wal' = wal \o Glued(ops) /\ torn' = FALSE
        /\ \/ /\ flush = "idle" /\ Len(all) >= BatchSize
              /\ StartFlush(SubSeq(all, 1, Cut), SubSeq(all, Cut + 1, Len(all)), m, TRUE)
           \/ /\ ~(flush = "idle" /\ Len(all) >= BatchSize)
              /\ pending' = all /\ stale' = TRUE
              /\ timer' = (timer \/ flush = "idle")
              /\ UNCHANGED <<flush, batch, saver, enc>>
        /\ UNCHANGED <<snap, phase, caller>>

(* The timer of #scheduleFlush. *)
TimerFires ==
    /\ timer /\ flush = "idle"
    /\ \/ pending # <<>> /\ StartFlush(pending, <<>>, mem, FALSE)
       \/ pending = <<>> /\ timer' = FALSE /\ UNCHANGED <<pending, tasks>>
    /\ UNCHANGED <<disk, phase, mem, dirty, caller, calls>>

(* The snapshot a flush had to wait for is there, and its turn has come. *)
TakesTurn ==
    /\ flush = "waiting" /\ saver = "none"
    /\ \/ dirty /\ flush' = "saving" /\ Encode("wal", mem)
       \/ ~dirty /\ flush' = "confirm" /\ UNCHANGED <<saver, enc, stale>>
    /\ UNCHANGED <<disk, phase, mem, dirty, pending, timer, batch, caller, calls>>

(* Mutant: #persist forgets what was written while it waited. *)
SaveDoneForgetful ==
    /\ saver # "none"
    /\ snap' = enc /\ dirty' = FALSE
    /\ saver' = "none" /\ flush' = (IF saver = "wal" THEN "confirm" ELSE flush)
    /\ UNCHANGED <<wal, torn, phase, mem, pending, timer, batch, enc, stale, caller, calls>>
(* The temporary file is complete and renamed.  Only what was in memory    *)
(* when it was encoded is saved.  After destroy() the memory is saved      *)
(* again, lest an old snapshot remain.                                     *)
SaveDone ==
    /\ saver # "none"
    /\ IF phase = "closed" /\ stale THEN snap' = mem /\ dirty' = FALSE
                                    ELSE snap' = enc /\ dirty' = stale
    /\ saver' = "none" /\ flush' = (IF saver = "wal" THEN "confirm" ELSE flush)
    /\ UNCHANGED <<wal, torn, phase, mem, pending, timer, batch, enc, stale, caller, calls>>

(* A batch that failed goes back in front of what came after it, and is    *)
(* tried again after an interval; whoever waits for it gets the error.     *)
PutBack == /\ pending' = batch \o pending /\ batch' = <<>> /\ flush' = "idle"
           /\ timer' = (phase # "closed" /\ batch \o pending # <<>>)
           /\ phase' = (IF phase = "starting" THEN "failed" ELSE phase)

(* Mutant: a failed snapshot confirms the batch. *)
SaveFailsSilently ==
    /\ saver # "none"
    /\ dirty' = TRUE /\ saver' = "none" /\ caller' = "none"
    /\ flush' = (IF saver = "wal" THEN "confirm" ELSE flush)
    /\ UNCHANGED <<snap, wal, torn, phase, mem, pending, timer, batch, enc, stale, calls>>
(* The snapshot cannot be written or renamed, or the one that follows it   *)
(* after destroy() cannot.  A flush that waits for it fails with it.       *)
SaveFails ==
    /\ saver # "none"
    /\ IF phase = "closed" /\ stale THEN snap' \in {snap, enc} ELSE UNCHANGED snap
    /\ dirty' = TRUE /\ saver' = "none" /\ caller' = "none"
    /\ \/ flush \in {"saving", "waiting"} /\ PutBack
       \/ flush \notin {"saving", "waiting"} /\ UNCHANGED <<pending, batch, flush, timer, phase>>
    /\ UNCHANGED <<wal, torn, mem, enc, stale, calls>>

(* Mutant: the journal goes in any case. *)
ClearWalAlways ==
    /\ flush = "confirm"
    /\ wal' = <<>> /\ torn' = FALSE
    /\ flush' = "idle" /\ batch' = <<>>
    /\ timer' = (pending # <<>> /\ phase # "closed")
    /\ UNCHANGED <<snap, phase, mem, dirty, pending, saver, enc, stale, caller, calls>>
(* #persistBatch after the snapshot: the batch is confirmed.  Nothing new: *)
(* the journal goes (or stays, when it cannot be removed).  Otherwise it   *)
(* is replaced by what has been appended since.                            *)
ClearWal ==
    /\ flush = "confirm" /\ pending = <<>>
    /\ \/ wal' = <<>> /\ torn' = FALSE
       \/ UNCHANGED <<wal, torn>>
    /\ flush' = "idle" /\ batch' = <<>>
    /\ UNCHANGED <<snap, phase, mem, dirty, pending, timer, saver, enc, stale, caller, calls>>

RewriteWal ==
    /\ flush = "confirm" /\ pending # <<>>
    /\ wal' = pending /\ torn' = FALSE
    /\ \/ /\ phase # "closed" /\ Len(pending) >= BatchSize
          /\ StartFlush(pending, <<>>, mem, FALSE)
       \/ /\ phase = "closed" \/ Len(pending) < BatchSize
          /\ flush' = "idle" /\ batch' = <<>> /\ timer' = (phase # "closed")
          /\ UNCHANGED <<pending, saver, enc, stale>>
    /\ UNCHANGED <<snap, phase, mem, dirty, caller, calls>>

RewriteFails ==
    /\ flush = "confirm" /\ pending # <<>>
    /\ PutBack
    /\ caller' = (IF caller = "wal" THEN "none" ELSE caller)
    /\ UNCHANGED <<disk, mem, dirty, saver, enc, stale, calls>>

-----------------------------------------------------------------------------
(* flush(): first the journal's loop, until nothing is pending, then the   *)
(* adapter's own, until the memory is clean.                               *)
FlushCalled == /\ phase = "up" /\ caller = "none"
               /\ caller' = "wal" /\ timer' = FALSE
               /\ UNCHANGED <<disk, phase, mem, dirty, pending, tasks, calls>>
FlushBatch == /\ caller = "wal" /\ flush = "idle" /\ pending # <<>>
              /\ StartFlush(pending, <<>>, mem, FALSE)
              /\ UNCHANGED <<disk, phase, mem, dirty, caller, calls>>
FlushedWal == /\ caller = "wal" /\ flush = "idle" /\ pending = <<>>
              /\ timer' = FALSE
              /\ IF phase = "starting" THEN phase' = "up" /\ caller' = "none"
                                       ELSE caller' = "own" /\ UNCHANGED phase
              /\ UNCHANGED <<disk, mem, dirty, pending, tasks, calls>>
OwnPersist == /\ caller = "own" /\ saver = "none" /\ dirty
              /\ Encode("own", mem)
              /\ UNCHANGED <<disk, phase, mem, dirty, pending, timer, flush, batch, caller, calls>>
FlushReturns == /\ caller = "own" /\ saver = "none" /\ ~dirty
                /\ caller' = "none"
                /\ UNCHANGED <<disk, phase, mem, dirty, pending, timer, tasks, calls>>

(* init and initSync: the snapshot, then the whole lines of the journal    *)
(* on top of it.  They are pending again until a snapshot has them.        *)
Lines == \E i \in DOMAIN wal : wal[i].kind # "none"

Started == /\ phase = "down" /\ calls' = calls
           /\ mem' = Replay(snap, wal)
StartAsync ==
    /\ Started /\ UNCHANGED disk
    /\ \/ /\ Lines /\ dirty' = TRUE
          /\ phase' = "starting" /\ caller' = "wal"
          /\ StartFlush(wal, <<>>, Replay(snap, wal), TRUE)
       \/ /\ ~Lines /\ dirty' = FALSE /\ phase' = "up"
          /\ UNCHANGED <<pending, timer, tasks, caller>>
StartSync ==
    /\ Started /\ Lines /\ UNCHANGED <<wal, torn, tasks, caller>>
    /\ pending' = wal /\ timer' = TRUE
    /\ \/ snap' = Replay(snap, wal) /\ dirty' = FALSE /\ phase' = "up"
       \/ UNCHANGED snap /\ dirty' = TRUE /\ phase' = "failed"

(* destroy: no timer any more; one synchronous snapshot, whose failure is  *)
(* only logged.  What is in flight goes on.                                *)
Destroy ==
    /\ phase = "up" /\ phase' = "closed" /\ timer' = FALSE
    /\ \/ dirty /\ snap' = mem /\ dirty' = FALSE
       \/ UNCHANGED <<snap, dirty>>
    /\ UNCHANGED <<wal, torn, mem, pending, tasks, caller, calls>>

(* The process ends; it may die at any moment, in the middle of an append  *)
(* included (Tear).                                                        *)
Died == /\ phase' = "down" /\ mem' = Empty /\ dirty' = FALSE
        /\ pending' = <<>> /\ timer' = FALSE /\ flush' = "idle" /\ batch' = <<>>
        /\ saver' = "none" /\ enc' = Empty /\ stale' = FALSE /\ caller' = "none"
Crash == /\ phase \in Running /\ Died /\ UNCHANGED <<disk, calls>>
Tear == /\ phase = "up" /\ calls < MaxCalls
        /\ torn' = TRUE /\ Died /\ UNCHANGED <<snap, wal, calls>>

Next == \/ \E ops \in Calls : Write(ops)
        \/ TimerFires \/ TakesTurn \/ FlushBatch \/ FlushedWal \/ OwnPersist \/ FlushReturns
        \/ SaveDone \/ SaveFails \/ ClearWal \/ RewriteWal \/ RewriteFails
        \/ FlushCalled \/ StartAsync \/ StartSync \/ Destroy \/ Crash

Spec == Init /\ [][Next]_vars

(* An append may also stop half-way. *)
TornSpec == Init /\ [][Next \/ Tear]_vars

-----------------------------------------------------------------------------
(* Whenever the process dies, the snapshot and the journal together are    *)
(* the memory: no call that returned is lost, none comes back after a      *)
(* later one, whatever a flush was doing.                                  *)
MemoryIsRecoverable == phase \in Running => Replay(snap, wal) = mem

(* An explicit flush() that returns has everything in the snapshot, what   *)
(* was written while it waited included: the journal is not needed.        *)
FlushMeansSaved == [][FlushReturns => snap = mem]_vars

(* The store seen through a restart is the map of whole calls.             *)
Durable == INSTANCE DurableMap WITH store <- Replay(snap, wal)
ImplementsDurableMap == Durable!Spec
=============================================================================
