----------------------------- MODULE VectorSync -----------------------------
(***************************************************************************)
(* Synchronisation of the vector index with the recipes                    *)
(* (service/vector/SyncCoordinator.ts, and the synchronisation of          *)
(* RecipeRegionVectorIndex.ts it calls).                                   *)
(*                                                                         *)
(* Events of the knowledge service queue one change per recipe.  A         *)
(* debounce timer, a full queue, flush() or destroy() starts a batch; one  *)
(* batch runs at a time and awaits the removals, the embedding, the        *)
(* storage and the removal of what is stale, while events go on arriving.  *)
(* reconcile() compares the index with the database, beside the batches.   *)
(*                                                                         *)
(* A recipe's regions are one chunk per version of its content, since the  *)
(* identifier of a chunk holds the hash of the content.  Gone is a recipe  *)
(* that is deleted or deprecated.                                          *)
(***************************************************************************)
EXTENDS IndexChanges, Naturals, FiniteSets

CONSTANTS MaxBatchSize,   \* maxBatchSize: queued changes that start a batch at once
          MaxChanges,     \* bound: the changes of a behaviour
          Faults,         \* what may go wrong: see below
          Racing          \* whether reconcile() may run beside the coordinator

VARIABLES db,        \* the recipes
          index,     \* the chunks of each recipe in the vector store
          queued,    \* #pendingChanges
          debounce,  \* whether #debounceTimer is set
          stage,     \* #processingPromise and where it is
          taken,     \* what it has still to do
          listed,    \* the chunks it found
          bound,     \* whether the listeners are bound
          waiting,   \* whether a flush() or destroy() waits for the batches
          rec,       \* reconcile(): where it is
          recDb,     \* the recipes it read
          recListed, \* the chunks it found
          recErrors, \* whether its result has an error, or says that it was degraded
          last,      \* history: what the index was last told of each recipe
          lost,      \* history: the recipes whose last change was given up
          refused,   \* history: whether the last batch ended with a failed removal
          changes    \* the changes so far

queue == <<queued, debounce, stage, taken, listed, waiting>>
reconciling == <<rec, recDb, recListed, recErrors>>
syncVars == <<db, index, queued, debounce, stage, taken, listed, bound, waiting,
              rec, recDb, recListed, recErrors, last, lost, refused, changes>>

ToUpsert(p) == {e \in Entries : p[e] \in Versions}
ToRemove(p) == {e \in Entries : p[e] = Gone}
Nothing == [e \in Entries |-> {}]
(* The chunks the recipes d call for. *)
Expected(d) == [e \in Entries |-> IF d[e] = Gone THEN {} ELSE {d[e]}]

SyncTypeOK == /\ db \in [Entries -> States] /\ last \in [Entries -> States]
              /\ recDb \in [Entries -> States]
              /\ queued \in [Entries -> States \cup {Same}]
              /\ taken \in [Entries -> States \cup {Same}]
              /\ index \in [Entries -> SUBSET Versions] /\ listed \in [Entries -> SUBSET Versions]
              /\ recListed \in [Entries -> SUBSET Versions]
              /\ stage \in {"idle", "removing", "embedding", "cleaning"}
              /\ rec \in {"idle", "listed", "read", "embedding", "cleaning"}
              /\ debounce \in BOOLEAN /\ bound \in BOOLEAN /\ waiting \in BOOLEAN
              /\ refused \in BOOLEAN /\ recErrors \in BOOLEAN
              /\ lost \subseteq Entries /\ changes \in Nat

SyncInit == /\ db = [e \in Entries |-> Gone] /\ last = db
            /\ index = Nothing
            /\ queued = NoChanges /\ debounce = FALSE
            /\ stage = "idle" /\ taken = NoChanges /\ listed = Nothing
            /\ bound = TRUE /\ waiting = FALSE
            /\ rec = "idle" /\ recDb = db /\ recListed = Nothing /\ recErrors = FALSE
            /\ lost = {} /\ refused = FALSE /\ changes = 0

-----------------------------------------------------------------------------
(* #processSingleBatch takes the queue. *)
BeginBatch(p) == /\ taken' = p /\ queued' = NoChanges
                 /\ stage' = "removing" /\ refused' = FALSE

(* #processBatch, called by the timer, flush() or a full queue p: a batch  *)
(* that runs is waited for, and takes the queue when it is done.           *)
ProcessBatch(p) == IF stage = "idle" /\ Changed(p) # {}
                   THEN BeginBatch(p)
                   ELSE queued' = p /\ UNCHANGED <<taken, stage, refused>>

(* #enqueue: the later change of a recipe replaces the earlier. *)
Enqueue(e, c) ==
    LET p == [queued EXCEPT ![e] = c] IN
    /\ last' = [last EXCEPT ![e] = c] /\ lost' = lost \ {e}
    /\ IF Cardinality(Changed(p)) >= MaxBatchSize
       THEN debounce' = FALSE /\ ProcessBatch(p)
       ELSE debounce' = TRUE /\ queued' = p /\ UNCHANGED <<taken, stage, refused>>

(* A recipe is created, updated, deprecated, reactivated or deleted, and   *)
(* the event says what it has become; or nobody says so (another process,  *)
(* a move of the state machine, a listener that is gone).                  *)
Change(e, c) ==
    /\ changes < MaxChanges /\ c # db[e] /\ (Racing \/ rec = "idle")
    /\ db' = [db EXCEPT ![e] = c] /\ changes' = changes + 1
    /\ \/ bound /\ Enqueue(e, c)
       \/ (~bound \/ "silent" \in Faults)
          /\ UNCHANGED <<queued, debounce, taken, stage, last, lost, refused>>
    /\ UNCHANGED <<index, listed, bound, waiting, reconciling>>

DebounceFires ==
    /\ debounce /\ debounce' = FALSE /\ ProcessBatch(queued)
    /\ UNCHANGED <<db, index, listed, bound, waiting, reconciling, last, lost, changes>>

(* flush(), and destroy(), which unbinds the listeners first. *)
Flush(b) ==
    /\ ~waiting /\ bound' = b
    /\ debounce' = FALSE /\ ProcessBatch(queued)
    /\ waiting' = (stage # "idle" \/ Changed(queued) # {})
    /\ UNCHANGED <<db, index, listed, reconciling, last, lost, changes>>
DrainCalled == bound /\ Flush(TRUE)
DestroyCalled == Flush(FALSE)

-----------------------------------------------------------------------------
(* Mutants: the queue that grew meanwhile waits for the next event; whoever *)
(* waits is not woken.                                                     *)
BatchDoneOnce == /\ listed' = Nothing /\ stage' = "idle" /\ taken' = NoChanges
                 /\ waiting' = FALSE /\ UNCHANGED <<queued, refused>>
BatchDoneDeaf ==
    /\ listed' = Nothing /\ UNCHANGED waiting
    /\ IF Changed(queued) # {} THEN BeginBatch(queued)
       ELSE stage' = "idle" /\ taken' = NoChanges /\ UNCHANGED <<queued, refused>>
(* A batch is over: the queue that grew meanwhile is the next one, and     *)
(* whoever waits goes on when there is none.                               *)
BatchDone ==
    /\ listed' = Nothing
    /\ IF Changed(queued) # {} THEN BeginBatch(queued) /\ UNCHANGED waiting
       ELSE /\ stage' = "idle" /\ taken' = NoChanges /\ waiting' = FALSE
            /\ UNCHANGED <<queued, refused>>

(* What becomes of the upserts of the batch, failed ones among them. *)
GiveUp(failed) == lost' = lost \cup {e \in failed : queued[e] = Same}

(* Deletions come first, one recipe after the other. *)
RemoveRecipe(e) ==
    /\ stage = "removing" /\ taken[e] = Gone
    /\ index' = [index EXCEPT ![e] = {}]
    /\ taken' = [taken EXCEPT ![e] = Same]
    /\ UNCHANGED <<db, queued, debounce, stage, listed, bound, waiting, reconciling,
                   last, lost, refused, changes>>

(* Mutant: a newer change is overwritten by the one put back. *)
PutBackOver == [e \in Entries |-> IF taken[e] = Same THEN queued[e] ELSE taken[e]]
(* What a failed batch has not done is queued again, behind newer changes. *)
PutBackChanges == [e \in Entries |-> IF queued[e] = Same THEN taken[e] ELSE queued[e]]

(* A deletion that fails, some of the chunks being gone or none, ends the  *)
(* batch; whoever waits for it gets the error, and no timer is set.        *)
RemoveFails(e) ==
    /\ "remove" \in Faults /\ stage = "removing" /\ taken[e] = Gone
    /\ \E left \in SUBSET index[e] : index' = [index EXCEPT ![e] = left]
    /\ queued' = PutBackChanges /\ taken' = NoChanges
    /\ stage' = "idle" /\ refused' = TRUE /\ waiting' = FALSE
    /\ UNCHANGED <<db, debounce, listed, bound, reconciling, last, lost, changes>>

(* The upserts: without a provider they are given up; with one the chunks  *)
(* of the index are listed, and those that are missing are embedded.       *)
SkipUpserts ==
    /\ stage = "removing" /\ ToRemove(taken) = {}
    /\ ToUpsert(taken) = {} \/ "embed" \in Faults
    /\ GiveUp(ToUpsert(taken)) /\ BatchDone
    /\ UNCHANGED <<db, index, debounce, bound, reconciling, last, changes>>
BeginUpserts ==
    /\ stage = "removing" /\ ToRemove(taken) = {} /\ ToUpsert(taken) # {}
    /\ listed' = index /\ stage' = "embedding"
    /\ UNCHANGED <<db, index, queued, debounce, taken, bound, waiting, reconciling,
                   last, lost, refused, changes>>

Missing(e) == taken[e] \in Versions \ listed[e]
Stored(S) == [e \in Entries |-> IF e \in S THEN index[e] \cup {taken[e]} ELSE index[e]]

StoreChunks ==
    /\ stage = "embedding"
    /\ index' = Stored({e \in Entries : Missing(e)}) /\ stage' = "cleaning"
    /\ UNCHANGED <<db, queued, debounce, taken, listed, bound, waiting, reconciling,
                   last, lost, refused, changes>>
(* The embedding fails, or the storage after some of the chunks: the       *)
(* upserts are given up, and what is stale stays.                          *)
StoreFails ==
    /\ "embed" \in Faults /\ stage = "embedding" /\ \E e \in Entries : Missing(e)
    /\ \E S \in SUBSET {e \in Entries : Missing(e)} : index' = Stored(S)
    /\ GiveUp(ToUpsert(taken)) /\ BatchDone
    /\ UNCHANGED <<db, debounce, bound, reconciling, last, changes>>

StaleOf(e) == IF taken[e] \in Versions THEN listed[e] \ {taken[e]} ELSE {}
(* The chunks that were stored are read back, then the stale ones of those *)
(* listed go; some of these removals may fail.                             *)
CleanStale ==
    /\ stage = "cleaning"
    /\ IF \A e \in Entries : Missing(e) => taken[e] \in index[e]
       THEN \E failed \in [Entries -> SUBSET Versions] :
            /\ \A e \in Entries : failed[e] \subseteq StaleOf(e) \cap index[e]
            /\ "stale" \in Faults \/ failed = Nothing
            /\ index' = [e \in Entries |-> (index[e] \ StaleOf(e)) \cup failed[e]]
            /\ GiveUp({e \in Entries : failed[e] # {}})
       ELSE GiveUp(ToUpsert(taken)) /\ UNCHANGED index
    /\ BatchDone
    /\ UNCHANGED <<db, debounce, bound, reconciling, last, changes>>

-----------------------------------------------------------------------------
(* reconcile(): the chunks, then the recipes, of which it takes a copy.    *)
RecList ==
    /\ rec = "idle" /\ (Racing \/ (stage = "idle" /\ Changed(queued) = {}))
    /\ rec' = "listed" /\ recListed' = index /\ recErrors' = FALSE
    /\ UNCHANGED <<db, index, queue, bound, recDb, last, lost, refused, changes>>
RecRead ==
    /\ rec = "listed" /\ rec' = "read" /\ recDb' = db
    /\ UNCHANGED <<db, index, queue, bound, recListed, recErrors, last, lost, refused, changes>>

RecEnds == rec' = "idle" /\ recListed' = Nothing /\ UNCHANGED recDb
(* The database cannot be read: that is the end, with no error in the      *)
(* result.  When the index cannot be read again, the result has an error.  *)
RecUnread ==
    /\ "read" \in Faults /\ rec \in {"listed", "read"} /\ RecEnds
    /\ recErrors' = (rec = "read")
    /\ UNCHANGED <<db, index, queue, bound, last, lost, refused, changes>>
(* The index was told of the recipes of S, unless a newer change is queued. *)
Heard(S) == {e \in S : queued[e] = Same /\ taken[e] = Same}
Told(S) == last' = [e \in Entries |-> IF e \in Heard(S) THEN recDb[e] ELSE last[e]]

(* Some of the chunks c, which are to go, cannot be removed. *)
Failing(c) == {f \in [Entries -> SUBSET Versions] :
                  \A e \in Entries : f[e] \subseteq c[e] /\ ("stale" \in Faults \/ f[e] = {})}

(* The chunks of recipes that are no more, that could not be removed. *)
Orphans == [e \in Entries |-> IF recDb[e] = Gone THEN index[e] \cap recListed[e] ELSE {}]
WithOrphans(f) == [e \in Entries |-> IF recDb[e] = Gone THEN (index[e] \ recListed[e]) \cup f[e]
                                                       ELSE index[e]]
ToldRemoves(f) == LET gone == {e \in ToRemove(recDb) : f[e] = {}}
                  IN  Told(gone) /\ lost' = (lost \ Heard(gone)) \cup {e \in Entries : f[e] # {}}

(* The chunks of recipes that are no more; when the index is then what the *)
(* recipes call for, that is all.                                          *)
RecDone ==
    /\ rec = "read" /\ index' = WithOrphans(Nothing)
    /\ index' = Expected(recDb)
    /\ RecEnds /\ Told(Entries) /\ lost' = lost \ Heard(Entries)
    /\ UNCHANGED <<db, queue, bound, recErrors, refused, changes>>
(* Without a provider it is all that can be done. *)
RecDegraded == \E f \in Failing(Orphans) :
    /\ "embed" \in Faults /\ rec = "read"
    /\ index' = WithOrphans(f) /\ index' # Expected(recDb)
    /\ RecEnds /\ ToldRemoves(f) /\ recErrors' = TRUE
    /\ UNCHANGED <<db, queue, bound, refused, changes>>
(* With one everything is indexed again; what is left of the chunks of     *)
(* recipes that are no more is removed once more, first.                   *)
RecBegin == \E f \in Failing(Orphans) : \E g \in Failing(f) :
    /\ rec = "read" /\ WithOrphans(f) # Expected(recDb)
    /\ index' = WithOrphans(g) /\ ToldRemoves(g)
    /\ rec' = "embedding" /\ recListed' = index' /\ UNCHANGED recDb
    /\ recErrors' = (f # Nothing)
    /\ UNCHANGED <<db, queue, bound, refused, changes>>
RecStore ==
    /\ rec = "embedding"
    /\ index' = [e \in Entries |-> index[e] \cup Expected(recDb)[e]]
    /\ rec' = "cleaning" /\ UNCHANGED <<recDb, recListed, recErrors>>
    /\ UNCHANGED <<db, queue, bound, last, lost, refused, changes>>
RecFails ==
    /\ "embed" \in Faults /\ rec = "embedding" /\ RecEnds /\ recErrors' = TRUE
    /\ \E S \in SUBSET ToUpsert(recDb) :
        /\ index' = [e \in Entries |-> IF e \in S THEN index[e] \cup {recDb[e]} ELSE index[e]]
        /\ Told(S) /\ lost' = lost \cup {e \in S : index'[e] # {recDb[e]}}
    /\ UNCHANGED <<db, queue, bound, refused, changes>>
(* Mutant: the chunks of earlier versions stay. *)
RecCleanNothing == rec = "cleaning" /\ RecEnds /\ Told(Entries) /\ lost' = lost \ Heard(Entries)
                   /\ UNCHANGED <<db, index, queue, bound, recErrors, refused, changes>>
(* The stale chunks of the recipes that are. *)
Outdated == [e \in Entries |-> IF recDb[e] = Gone THEN {}
                             ELSE index[e] \cap (recListed[e] \ {recDb[e]})]
RecClean == \E f \in Failing(Outdated) :
    LET told == {e \in Entries : recDb[e] # Gone \/ recListed[e] = {}} IN
    /\ rec = "cleaning" /\ RecEnds /\ Told(told)
    /\ lost' = (lost \ Heard(told)) \cup {e \in Entries : f[e] # {}}
    /\ index' = [e \in Entries |-> (index[e] \ Outdated[e]) \cup f[e]]
    /\ recErrors' = (recErrors \/ f # Nothing)
    /\ UNCHANGED <<db, queue, bound, refused, changes>>

-----------------------------------------------------------------------------
BatchStep == \/ \E e \in Entries : RemoveRecipe(e)
             \/ BeginUpserts \/ StoreChunks \/ CleanStale
SyncNext == \/ \E e \in Entries, c \in States : Change(e, c)
            \/ DebounceFires \/ DrainCalled \/ DestroyCalled
            \/ BatchStep \/ SkipUpserts \/ StoreFails
            \/ \E e \in Entries : RemoveFails(e)
            \/ RecList \/ RecRead \/ RecUnread \/ RecDone \/ RecDegraded \/ RecBegin
            \/ RecStore \/ RecFails \/ RecClean

SyncSpec == SyncInit /\ [][SyncNext]_syncVars

(* Timers fire and awaits come back, with a result or an error. *)
Fairness == WF_syncVars(DebounceFires) /\ WF_syncVars(BatchStep \/ SkipUpserts)
FairSyncSpec == SyncSpec /\ Fairness

-----------------------------------------------------------------------------
(* Whatever overlaps, the index of a recipe becomes what its last event    *)
(* says: it is so already, or the change is queued, or it is in the batch  *)
(* and nothing newer is queued.  Only a change that was given up, because  *)
(* there was no embedding or a stale chunk could not be removed, is not; a *)
(* deletion is never given up, whatever fails.                             *)
LastChangeWins ==
    rec # "cleaning" => \A e \in Entries :
        \/ index[e] = Expected(last)[e]
        \/ queued[e] = last[e]
        \/ queued[e] = Same /\ taken[e] = last[e]
        \/ e \in lost /\ last[e] # Gone

(* A queued change has a timer or a batch that will take it, unless a      *)
(* failed deletion left it to the next event or flush.                     *)
NothingStranded == Changed(queued) # {} => debounce \/ stage # "idle" \/ refused

(* flush() and destroy() come back. *)
DrainEnds == waiting ~> ~waiting

(* reconcile() that has read the recipes and ends without an error has     *)
(* made the index exactly what they call for, whatever was given up or     *)
(* never announced, when nothing runs beside it.  (When the database       *)
(* cannot be read it repairs nothing and its result has no error either;   *)
(* the result is then told from a repair by the inspections it lacks.)     *)
ReconcileRepairs ==
    [][rec \notin {"idle", "listed"} /\ rec' = "idle" /\ ~recErrors'
          => index' = Expected(db)]_syncVars

(* reconcile() leaves no chunk of a deleted recipe, were it deleted while  *)
(* reconcile() was at work.                                                *)
ReconcileLeavesNoOrphan ==
    [][RecClean /\ bound => \A e \in Entries :
          db[e] = Gone /\ queued[e] = Same /\ taken[e] = Same => index'[e] = {}]_syncVars
=============================================================================
