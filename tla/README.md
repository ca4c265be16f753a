# Verification of AlembicCore in TLA+

AlembicCore keeps a project's *recipes* (knowledge entries) in two places, a
Markdown file and a SQLite row, and sustains them: recipes are staged, published,
updated by proposals, watched while they decay, deprecated. Around them it keeps a
vector index, a store of certified facts about the project, an index of the
sources, and leases of generation sessions. Several processes (the daemon, the
agent-side plugin) open the same project. This directory models the parts of it
that have a protocol or durable state, checks them with TLC on small instances, and
proves with TLAPS, for all instances, every safety property that the runs check.

Paths below are relative to `src/src/`.

## 1. Inventory

| component | state | operations | what makes it correct | modelled |
|---|---|---|---|---|
| Lifecycle table and machine (`domain/knowledge/Lifecycle.ts`, `service/sustain/LifecycleStateMachine.ts`) | `lifecycle`; entry times in `stats`; `updatedAt` | `transition`, `checkTimeouts` | moves stay on the table; only servable recipes are active; a timeout measures the stint it ends, and ends it | yes |
| Staging (`service/sustain/StagingManager.ts`) | `stagingDeadline`, `autoApprovable`, `stats.stagingReview` | `enterStaging`, `rollback`, `recordReview`, `checkAndPromote` | nothing is published before its grace period or against a failed review | yes |
| Knowledge service and write path (`service/knowledge/KnowledgeService.ts`, `persistKnowledgeUpdate.ts`, `commitKnowledgeWrite.ts`, `repository/knowledge`) | rows, files | create, update, delete, publish .. restore, usage, quality | file and row agree, or a DivergenceError says they do not; nothing deleted comes back | partly |
| Files and synchronisation (`KnowledgeFileWriter.ts`, `KnowledgeSyncService.ts`) | Markdown files | `persist`, `remove`, `sync` | one file per recipe; an acknowledged write stays; rows follow files, after crashes too | partly |
| Proposals (`repository/evolution/ProposalRepository.ts`, `service/sustain/ProposalGateway.ts`, `domain/evolution/EvolutionPolicy.ts`) | `evolution_proposals` | create, mark*, `submit` | one open proposal of a kind per recipe; decisions are final | partly |
| Executor (`service/sustain/ProposalExecutor.ts`, `ContentPatcher.ts`) | `#inFlight`; running tasks | signal, `checkAndExecute`, `executeOne` | each proposal is executed once, "executed" means done, every proposal is decided | partly |
| Vector persistence (`infrastructure/vector/AsyncPersistence.ts`, `HnswVectorAdapter.ts`, `BinaryPersistence.ts`) | index in memory, journal, snapshot | upsert, remove, clear, flush, both starts, destroy | no call that returned is lost by a crash, none comes back | partly |
| Vector synchronisation (`service/vector/SyncCoordinator.ts`, `RecipeRegionVectorIndex.ts`) | queue, batch, index | events, batches, `flush`, `destroy`, `reconcile` | the index follows the last change of a recipe | partly |
| Certified facts (`service/project-context/foundation/store.ts`) | content-addressed files, preparations, run leases | `put`, `open`, `createPreparation`, `acquireRunLease`, `completeRunLease` | what was acknowledged can be opened, after a power loss too; one run per preparation | yes |
| Sessions of generation (`workflows/surfaces/host-agent/session/GenerateSession.ts`) | sessions in memory, `active-sessions.json` | create, complete, extend, clear, release | one live session per project; a host's progress and lease are kept | partly |
| Source graph (`service/source-graph`, `core/linking`) | generations: hashes, dependencies, calls | `buildFull`, `buildIncremental`, `inspect` | a generation that looks fresh is what a full build would yield | partly |
| Decay detector, signals, database | none of their own | `scanAll`, `emit`, statements | only active recipes are put in decay; a signal is delivered at once; statements are atomic | as used |
| Daemon jobs (`daemon/JobStore.ts`) | one file per job | create, update, interrupt | a terminal status is final | no |
| Git checkpoints, signal windows | last routed commit; windows | advance; flush | no commit, no signal is skipped silently | no |
| Project context, production contracts, search, recipe context, guard, parsers, workflows, single-table stores | none, caches or rows | pure functions, views, CRUD | outputs are functions of inputs | no |

### How they interact

All lifecycle moves but two families go through `transition`; `StagingManager`
enters and rolls back staging itself and `KnowledgeService` moves recipes for users.
All of them end in `commitKnowledgeWrite`: the file first, then the row. `transition`
emits a lifecycle signal; the bus calls the executor's subscriber synchronously, which
starts an asynchronous task over the recipe's proposals. The executor calls
`transition`, the patcher and `transition` again. The gateway deprecates at once or
stores a proposal. The hosts call the sweeps of the lifecycle (`checkAndPromote`,
`checkTimeouts`, `scanAll`) periodically, `checkAndExecute` when they start, and
`sync()` when files may have changed.
The service's events queue changes in the `SyncCoordinator`, which writes the vector
store. The fact store, the sessions and the source graph stand beside all this and
meet other processes only through their own files.

### What is hard

- *Awaits*: guards are evaluated on a row read before two or three awaits; sweeps
  decide on rows queried before their loop; the executor's three entries meet in the
  middle of executions; changes arrive while a batch is being embedded; sources are
  edited while a build reads them.
- *Processes*: `infrastructure/database/DatabaseConnection.ts:264-273` allows several
  processes, orders their single writes and has no retry; read-modify-write sequences
  are not ordered. Sessions, facts and recipes are files that several processes write.
- *Crashes*: journal and snapshot, fact and receipt, new file and old file, file and
  row: a process may die between any two of them.
- *Partial failure*: file written, row refused; transition done, metadata refused;
  patch applied, second transition refused; half of a batch indexed.
- *Time*: five clocks of one recipe written by different operations; session leases.

`PROJECT.json` lists each hazard at its line, with the properties that watch it.

## 2. Modules

```
LifecycleTable ── Lifecycle ──┬── RecipeLifecycle ── RecipeLifecycle_proofs
       │                      │        └── MCRecipeLifecycle
       │                      └── LifecycleHosts ── MCLifecycleHosts ── LifecycleHosts_proofs
       │                              (one host implements RecipeLifecycle)
       └── ProposalExecution ──┬── ProposalExecution_proofs
                               └── MCProposalExecution
VectorOps ──┬── DurableMap
            └── VectorWal      (implements DurableMap) ─┬─ Vectors_proofs ────┐
IndexChanges ─── VectorSync                            ─┘                     │
FactsNames ──┬── RunLease                                                     │
             └── FactsStore    (implements RunLease) ───── FactsStore_proofs ─┤
KnowledgeFormat ─ KnowledgeFiles                       ─┬─ Files_proofs ──────┤
                  Sessions                             ─┘                     │
                  SourceGraph ──────────────────────────── SourceGraph_proofs ┤
the six stores ── MCStores ─────────────────────────────── Stores_proofs ─────┘
```

**`LifecycleTable`, `Lifecycle`.** What the operations share: the table of
`Lifecycle.ts`, the part of a row the lifecycle reads, `Admits` (the guard of
`transition`, with the readiness gate), `MachineRow` (what it persists), `TimedOut`,
`Due`. Timestamps are kept as elapsed times and a deadline as the time left; an
elapsed time stops at `MaxAge`, past every timeout, so comparisons stay exact and time
itself needs no bound. `stint`, the time since the last change of state, is what
`lifecycleHistory` and the event log record.

**`RecipeLifecycle`** is the abstract specification: each operation one atomic step.
`CheckTimeout(r)` and `CheckStaging(r)` are the sweeps' work on one entry; `UserOps` is
the part of the service's lifecycle methods a host exposes (Core is a library; the
surface belongs to its hosts). `cause` is the trigger of the last TransitionEvent, or
`user`, or StagingManager's signal.

**`LifecycleHosts`** is the same with awaits: an operation reads the row (`Read`),
checks (`Refuse`, or goes on), reads again (`Reread`, `persistKnowledgeUpdate`),
writes the file (`Persist`, `PersistService`) and the row (`Commit`), each a step. A
sustain operation writes the whole row it read the second time, with the stats of the
first read; a service operation lays its fields over the row that is there. A staging
sweep queries once and visits its snapshot, reading only the review verdict afresh;
`checkTimeouts` queries each state in turn. Any write may fail (`MayFail`); a failed
row after a written file is recorded in `diverged`. The gateway's decision "valid"
(`Verify`) writes the stats to the row and no file, and nobody hears of its failure;
`verified` records it. A host is a *strand* of operations, each of which ends before the
next begins, as where every call is awaited; hosts interleave at every step. A process
is one host only as long as its operations do not overlap: callers that do not wait for
each other are several, and so is the executor's subscriber, which `SignalBus.emit`
starts in the middle of the transition that emits and which goes on beside the caller
(`ProposalExecutor.ts:111`, `LifecycleStateMachine.ts:223`).

**`ProposalExecution`** models the proposal table and its writers in one process. Each
repository operation is one SQL statement with the status condition of its WHERE. A
task is a signal handler, a sweep, an `executeOne` or an immediate deprecation; its
steps are the code between awaits: `TakeNext` (metrics), `Gate` (verdict,
`#inFlight`, and the synchronous read of `transition`), `Guard`, `Write`, `Patch`,
`Settle`. `Throw` follows the code's try. Steps of tasks interleave freely, which
over-approximates the microtask order of one process, so what holds here holds there.
Verdicts, patch outcomes and readiness are any possible ones. `late` says a proposal's
window (observing) or its 14 days (pending) are over; `moved` and `patched` are history.
The sweep takes a cap (`Caps`): the oldest observing proposals up to it (`nth` is the
order of `proposedAt`), and for the pending ones the `room` these leave.

**`VectorOps`, `DurableMap`, `VectorWal`.** A call changes the memory and appends to
the journal in one synchronous step (`Write`); the one that fills a batch flushes at
once, else a timer does (`TimerFires`). `StartFlush` is `#doFlush` up to its first
await, `Encode` the snapshot taken before `#persist`'s first await, `SaveDone` and
`SaveFails` its rename, `ClearWal` and `RewriteWal` what becomes of the journal,
`PutBack` a failed batch. `FlushCalled` .. `FlushReturns` is an explicit `flush()`,
`StartAsync` and `StartSync` the two ways to load, `Destroy` and `Crash` the two ways to
end; `Tear` (only in `TornSpec`) a crash in the middle of an append. `DurableMap` is what a
caller is promised: a map changed by whole calls. It is implemented by the map that a
restart would find.

**`FactsNames`, `RunLease`, `FactsStore`.** Two states of the directory: `seen` by
processes, and `kept` by a power loss (what was synchronised). `put` and
`createPreparation` publish a list of names in order, each linked (`Publish`) and then
synchronised (`Sync`); a lease is linked, synchronised and read back (`LinkLease`,
`SyncLease`, `VerifyLease`), and completed by a rename (`ReadLease`, `Rename`,
`SyncRenamed`, `VerifyRenamed`). `Die` ends a process between two steps,
`PowerLoss` ends them all and keeps any of the names not yet synchronised. `RunLease` is
the abstract lease of a preparation: one run, completed once.

**`IndexChanges`, `VectorSync`.** The queue holds one change per recipe (the last one
wins), `debounce` the timer, `stage` the batch between its awaits: removing, embedding,
cleaning. Events arrive in every stage. `DrainCalled` and
`DestroyCalled` wait for the batches; `RecList` .. `RecClean` are the steps of
`reconcile()`, `RecUnread` the database that cannot be read. `Faults` names what may go
wrong: a removal, an embedding, the removal of stale chunks, embeddings the provider
drops without an error, a read. `last` and `lost` are history.

**`KnowledgeFormat`, `KnowledgeFiles`.** `file` by path (directory by lifecycle, name by
slug), `row` by recipe. A write (`op`) goes through its stages: file, cleanup of the
old file, row. `FileFails` is a failure before the files change, `WriteFileUnsure` one
after the rename (`fsyncDirectory`), `CleanupFails` one of the unlink, `RowFails` the
DivergenceError, and `ProcessDies` leaves a write between any two stages. `sync()` lists
the two directories, reads each file into its row and deprecates the rows it met in no
file; a row the database refuses is logged and passed over in both loops
(`KnowledgeSyncService.ts:228-238`, `463-474`). The content of a recipe is the number of
the write. `diverged` and `strayed` are history: the recipes whose file was changed and
whose row was not, and those that were left with a second file. With `SyncElsewhere` a
sync runs in another process, beside the writes. Writes do *not* overlap, although
several processes write these files (`commitKnowledgeWrite.ts:69-78` expects it): what
overlapping writes do to rows is in `LifecycleHosts`, what they do to the files of one
recipe (a late write may create again the file a deletion removed) is in no model, and
no property here speaks of it.

**`Sessions`.** A call is synchronous, so in its process it is one step; another
process sees what it reads (`Loaded`) and the rename that publishes the manager's whole
map (`Persist`), before which the write may fail or the process die. Hosts keep objects
the manager has dropped (`old`), which still take calls. `lease` records what the host of a
session was told. `clock` counts hours.

**`SourceGraph`.** A build goes through three phases, each reading its files at
moments among the edits: detecting (hashes), analyzing (the texts of the changed and of
the re-linked files), linking (the targets taken over, the configuration). A text
declares the one name of interest or not, calls it through an import, forwards what
another file declares, or does not parse; resolution has relative specifiers with
candidates by priority and one alias defined by a configuration file. `ChangedSources` ..
`PreservedCalls` are the sets `buildIncremental` computes, `PublishGraph` is
`buildGeneration`. `Exact` is the full build of a tree, built from the same linking
operators as the code's two builds are. Texts are compared as their hashes are, so an
edit that is undone leaves no trace; `missed` is history, the files of which a build
used, or recorded, another text than the one it had compared, until a build finds them
changed. What a search walks through (`Asked`, by
re-exports, and `ImporterClosure`) is stated as the least set closed under its steps
(`Reached`), which is what the code's queues compute. `GraphAssumption` says that the
configuration is no module: it is a JSON file, and only the extensions of
`LINKED_MODULE_EXTENSIONS` are linked. An identity change, which turns an incremental
build into a full one, is `BuildFull`.

**MC modules.** `MCRecipeLifecycle`, `MCLifecycleHosts` (casts "alone" and "race"),
`MCProposalExecution` (casts "tasks", "others"; "pair", "batch", "outside") and `MCStores`
(one store at work per behaviour: `focus`). A cast or a focus is chosen in the initial
state and kept, and restricts who acts, so its behaviours are behaviours of the module it
instantiates; the stores share no state, so their interleavings would add nothing.

Modelled by how it is used: the database (atomic statements), the bus, the file
system (atomic rename and link, directories that keep a name once synchronised).

## 3. Runs

| run | question | instance |
|---|---|---|
| `lifecycle` | no clock that is kept of a state is late (`ClocksNeverBehind`), that of evolving is exact; every move is on the table and only servable recipes become active; timeouts of what the machine put in decay and grace periods of what was staged last; decay, evolving and staging with a deadline end | 1 recipe, every operation, 38,579 states |
| `lifecycle_userdecay` | does every stint in decay last its observation period? **no** | counterexample |
| `lifecycle_stagingends` | does staging always end? **no** | counterexample |
| `hosts` | cast "alone" (operations that do not overlap): is each, with its awaits and its two writes, one step of `RecipeLifecycle`, or none, and do file and row agree between operations unless an error named the recipe? yes. Cast "race": can a late write bring a deleted row back? no | 1 host, unbounded, every write may fail; 2 hosts, a user's operation and then two that overlap; 1,771,431 states |
| `hosts_review` | is a recipe with a failed review never published by the sweep? **no** | 2 hosts, 3 operations |
| `proposals` | decisions are final, "executed" means done, `#inFlight` leaks nothing, young proposals are not judged | 1 proposal; any three of a signal, a sweep, `executeOne` and a gateway, with writes that throw; or any two of them and others who move and delete the recipe; 1,375,698 states |
| `proposals_decided` | never two open proposals of a kind; as long as the sweep is called again, each is decided or expires, whatever the cap | 2 proposals, a signal and a sweep, interleaved with a cap of 1, in turn with caps of 1 and 2; or 1 proposal and others who move and delete the recipe; 480,248 states |
| `proposals_double` | is a proposal in execution never rejected by a second execution? **no** | a signal and `executeOne` |
| `stores` | the promises of the six stores (below) | one store at a time, 624,093 states |
| `wal_torn` | is the memory recoverable when a process dies in the middle of an append? **no** | 2 documents, 3 calls |
| `knowledge_race` | does `sync()` beside a write deprecate only recipes without a file? **no** | 1 recipe, 2 writes |
| `sessions_race` | do two processes whose calls do not overlap keep one session per project? **no** | 2 managers, 2 projects, 3 sessions |

What `stores` asks of each store:

- vectors: whenever the process dies, snapshot and journal together are the memory
  (`MemoryIsRecoverable`); a `flush()` that returns has everything in the snapshot
  (`FlushMeansSaved`); through restarts the store is a map of whole calls
  (`ImplementsDurableMap`). 2 documents, batches of 2, 3 calls, any failed write.
- facts: what was acknowledged can be opened, after a power loss too
  (`ReceiptMeansStored`, `PreparationOpens`); a granted lease stays its run's, a
  completed one is final (`LeasesAreKept`), and the leases are those of `RunLease`. 2
  processes, 2 runs, one of everything else, deaths and power losses everywhere.
- sync: the index follows the last change of each recipe, whatever failed is recorded,
  no deletion is given up (`LastChangeWins`); a queued change has a timer or a batch
  (`NothingStranded`); flush and destroy end (`DrainEnds`); a `reconcile()` that has read
  the recipes and ends without an error repairs everything (`ReconcileRepairs`; one that
  cannot read them repairs nothing and has no error either). 2 recipes, 2 versions,
  batches of 2, 3 changes, every fault.
- knowledge, where writes do not overlap: one file per recipe unless a move was cut short
  (`OneFilePerRecipe`); acknowledged content and deletions stay, but of recipes a move cut
  short left with two files (`AckedIsKept`, `DeletedStaysDeleted`: a sync may read the old
  one, also after a deletion, which removes only one of them); rows mirror files but after
  a refused row, a crash, or a write that failed when its file had its name, of which the
  caller is told that nothing was written (`RowsMirrorFiles`); and after a `sync()`, but
  for the rows the database refused to it (`SyncRepairs`). 2 recipes, 2 slugs, 3 writes.
- sessions: one live session per project; what a host was told of its session stays
  until the host gives it up or it expires (`ProgressIsKept`). 1 manager with restarts,
  failed writes and dropped objects, 2 dimensions, 2 sessions, 3 hours.
- sources: a generation that looks fresh has the dependencies and the calls a full
  build would find, unless a file is missed (`FreshGraphIsExact`; see "Seen while
  modelling"). 4 files (a caller, a file that declares or forwards, a file that declares,
  the configuration), 2 edits in the middle of builds, undone ones among them.

Two caveats. `DeletedStaysDeleted` of the hosts is about rows: the file of a deleted
recipe may come back with a late write, of which the caller is told (DivergenceError).
`Prepare` of `FactsStore` asks for the receipt of a `put` that returned; `createPreparation`
only opens the facts, which a reader may do before that return.

### The bounds

- One recipe in the lifecycle and proposal runs: no operation of the lifecycle reads
  another recipe's row, and the sweeps treat their entries one by one. The theorems
  hold for any number. Two recipes where they can meet: one file name, one batch.
- Grace periods 1 and 2, timeouts 1 and 2, `MaxAge` 3: before, at and past each timeout
  are distinct, and a grace period can end before or after a timeout. In the host runs
  1, 1 and 2, which keeps due and not due, timed out and not.
- Two hosts, three operations: an operation, one that invalidates its read, and before
  them a user's, which prepares the state both read. `SomeUserOps` takes one user
  operation that publishes and one that enters a sustain state; the others differ in the
  target only. `HostsView` leaves out the file of a recipe known to diverge, which nothing
  reads.
- Three of four tasks: one that decides a proposal, one whose read of it is stale, and
  one that finds what the two left; each kind of task meets each other kind. Where others
  delete or move the recipe they take the place of a task.
- Two proposals of one recipe is what deduplication is about, and with caps of one and
  two one of them may be left out of a sweep or not; one task of each entry is
  what `#inFlight` is about, and each entry keeps its own rules.
- Three calls and batches of two: a full batch, a call behind it, a call while the
  snapshot is written. Two versions of two entries and three changes: a change of what
  a batch is embedding, and one of another entry behind it.
- Two processes and two runs on one preparation: who loses a link, retries or finds a
  completed lease is a second process, or the same one after its death. A third
  would repeat the second.
- Three writes: creation, move and what comes behind a cut-short move. The second recipe,
  whose part is to want the name the first has, stays a candidate.
- The lease of a session is two hours and its extension one: three hours are enough to
  see a session live, at its last hour, expired, and extended.
- Two edits: one in a phase of a build and one that undoes it in another, or a second file
  that changes while the first change is built in. Nothing else of a text matters than
  what the linker reads (`Rest` has one element). Edits between builds are edits before
  the next one reads. The caller's file does not change itself; the first build alone is a
  full one.
- `*Break` in `MCStores` keeps one of the behaviours that differ only in the names of
  documents, recipes, versions or slugs; `FilesBound` and `GraphBound` are bounds.

`CHECK_DEADLOCK FALSE` is set where a bounded system may stop: the proposal runs (with
all proposals decided nothing has to happen) and those of the stores (with the bounded
calls, changes, writes and sessions done, nothing has to happen).

### Fairness

`RecipeLifecycle`: time passes, and each sweep visits a recipe that stays due (weak
fairness of `CheckTimeout(r)`, `CheckStaging(r)`): hosts call `checkTimeouts` and
`checkAndPromote` periodically, and without a cap a sweep visits every entry. Nothing else
is fair: no user, reviewer or proposal has to come. `EvolvingEnds` and
`StagingWithDeadlineEnds` ask that the recipe stays publishable, because the readiness
gate otherwise refuses every sweep. `ProposalExecution`: a started task runs on (nothing
in it waits) and time passes. No sweep is fair: nothing calls `checkAndExecute` on a timer
(`ProposalExecutor.ts:286-290`), so `ProposalsAreDecided` is conditional, on sweeps that
are begun again and again, with whatever caps; signals, users and the gateway need not
come, and writes do not fail for ever (`MayThrow = FALSE`). `VectorSync`: timers fire and
what a batch awaits comes back, with a result or an error (`DebounceFires`, `BatchStep \/
SkipUpserts`); no event, flush or reconcile has to come.

### Findings

1. `hosts_review`: `rollback()` returns false when another host has rolled the entry
   back, and the staging sweep then promotes it, against the comment above that code
   (`StagingManager.ts:176`).
2. `proposals_double`: `executeOne` ignores `#inFlight` and no entry looks again after
   the await on the metrics, so a second execution marks rejected what the first
   carries out; the comment on `#inFlight` names this as what the set prevents.
3. `lifecycle_userdecay`: user moves into decaying reuse an old `decayStartedAt`.
4. `lifecycle_stagingends`: a patched recipe enters staging without a deadline.
5. `wal_torn`: an operation appended behind a torn line is glued to it, fails its
   checksum and is lost, although its call returned.
6. `knowledge_race`: `sync()` deprecates a recipe whose file another process wrote or
   moved between the listing and the end.
7. `sessions_race`: a manager that has not read the file since another one's grant
   publishes its map without it; the project is then granted again.

Seen while modelling, and without a run of their own:

- *A fresh generation that is not exact.* `FreshGraphIsExact` without its `missed = {}` is
  violated in `stores`, in seven steps. Three things go wrong, and the proof shows that
  nothing else does. A target that is edited while a build links with it is left out, and
  if the edit is undone no freshness check finds it, against the comment at
  `SourceGraphIndexer.ts:480-481`. The configuration is read at linking without a
  comparison (`:267-272`): edited and restored, it leaves wrong dependencies. And a file
  that is only linked again and was edited between detection and its analysis is recorded
  with its new hash, while calls into it are taken over, against the comment at `:190`. A
  build that finds the file changed, or links everything again, removes all three.
- *A move that is cut short.* It leaves two files, of which a sync reads the later one,
  so that it may undo the move; a deletion removes one and a sync then inserts the recipe
  again. No document speaks of it (`strayed`).
- *A write that "failed".* `persist` returns null when `fsyncDirectory` or the unlink of
  the old file fails, and `commitKnowledgeWrite` reports that the write was aborted, while
  the new file is there and the next `sync()` reads it.
- *Silent ends.* `sync()` that was refused a row, and `reconcile()` that cannot read the
  database (`SyncCoordinator.ts:304-314`), return like those that repaired everything.
- *Timeouts from the last update.* After a user's `evolve()` or `decay()` there is no
  entry time, `#getRecipeAge` falls back to `updatedAt`, and every use or update of the
  recipe prolongs the timeout.

## 4. Proofs

Each proof module has an inductive invariant, a lemma per action that the step keeps
it, and the theorems that follow. Liveness and ENABLED are outside the prover's reach.

**`RecipeLifecycle_proofs`**, for any recipes, grace periods and timeouts that satisfy
`TimeAssumption` and `RecipesAssumption`, whatever users may do:

- `TypeCorrect`; the lemmas before it type each operator on rows.
- `StepCases` (lemma): whatever the step, a recipe's row undergoes one of ten changes;
  the other theorems split on it instead of on the actions, and the `*Fields` lemmas
  say what each does to the clocks.
- `MovesAdmitted`: every move is an edge of the table and a recipe becomes active only
  if it may be served, although only one of the three kinds of code asks the machine.
- `ClocksInv`, `NoClockBehind`: no clock that is kept (an entry time or a deadline that is
  set) is late. The deadline needs a strengthening:
  outside staging an old one may be left over, and it is at most a grace period.
- `DecayClock`, `DecayGrace`, `EvolvingClock`: for a recipe the machine (not a user) put
  there, which `cause` tells, the entry time *is* the start of the stint, so a timeout
  ends it only after the whole period. `lifecycle_userdecay` shows that the condition is
  needed.
- `DeadlineClock`, `GraceHonoured`: a deadline and the time since it was set add up to at
  least a grace period, so the sweep publishes what was staged only after one.

**`LifecycleHosts_proofs`**, for any recipes, hosts, timeouts and number of operations,
any write failing. `HostsInv` holds however the hosts interleave: the types, and that
what a host runs is a proper request for a recipe that existed (`Proper`). From it
`TypeCorrect` and `DeletedIsForGood`: only a creation adds a row, under an id that was
never given, so no late write brings a deleted row back. `AloneInv` is about the cast
"alone", where other hosts stay idle (`CastAssumption`: `Others` is all hosts but one),
that is, about operations that do not overlap:

- `Justified`: what the operation was asked for still holds of the row when it writes:
  an entry a sweep found due or timed out still is, and its review has not failed;
- `JobOK`: the row read first is the row there is, the guard accepted it, and the row
  to be written is the operation's edit of it;
- `SweepOK`: the entries a sweep has left are as they were queried;
- `Mirrored`: every file says what its row says, but for the row about to be written,
  the recipes a DivergenceError was raised for, and the time of the update of those found
  valid since their file was written.

None of the four is inductive alone: the file is right because the row written is the
edit that was filed, that because nothing moved since the first read, and that for a
sweep because its job is not among the entries it has left. From it `AloneMirrors` and
`AloneIsAtomic`: every step is a step or a stutter of `RecipeLifecycle`
(`CommitImplements` splits on the operations; "valid" is a use). So what is proved of that
module holds of operations that do not overlap, with all their awaits and two writes;
`hosts_review` and the hazards show what overlapping ones lose, in two processes or, with
the executor's subscriber, in one.

**`ProposalExecution_proofs`**, for any recipes, proposals and tasks, with and without
exceptions and outside moves (`NamesAssumption`: the value "none" is no name, a caller
of the sweep is not one of `executeOne`):

- `InvHolds`: the core of `Inv` is `JobOK`. A task between two awaits holds a proposal it
  read earlier, and others act in between, so the invariant says by stage what the task
  may still rely on: its proposal exists, has the kind the stage is for, and the
  transitions and the patch the stage comes after are done. All of that only grows
  (`JobStays`), which is why no interleaving spoils it; that the proposal is still open
  does *not* stay true, and no proof uses it.
- `StepInv` (lemma): every step keeps each proposal, or creates it, lets it wait,
  refutes, executes or removes it (`PropChange`); from it `NoDuplicatesHolds`,
  `DecisionsHold`, `YoungHolds`, `ExecutedHolds`, and with `FlightOK` `NothingLeaksHolds`.

**`FactsStore_proofs`**, for any processes, blobs, bindings, preparations and runs.
`StoreInv` says what a process in the middle of an operation knows of the disk (`Knows`:
what is already published is kept, what a readback will find), that what is kept is seen,
and that a completed lease is kept. `Grows` (lemmas): no step but a power loss takes a
name away or turns a lease back; a power loss keeps what is kept and ends every process,
so what they knew is not needed. From it `ReceiptsStand`, `PreparationsOpen`,
`LeasesStand`, and `LeasesImplement`: every step is a step or a stutter of `RunLease`
under the mapping of the run's configuration.

**`Vectors_proofs`**, the synchronisation, for any recipes, versions, batch sizes and
faults, assuming that `reconcile()` does not run beside the coordinator (`Racing =
FALSE`). `Coordinated` ties queue, batch and index of each recipe to its last event
(`QueueIsLast`, `BatchIsLast`, `Settled`) and says that what a batch or a reconcile has
read still holds (`BatchKnows`, `ReconcileKnows`). A reconcile that has read nothing
promises nothing. From it `LastWins`, `NothingIsStranded`, `ReconcileIsRepair`. With
`Racing` the last is false: `reconcile()` indexes a recipe deleted behind its back.

**`Vectors_proofs`**, the journal, for any documents, batch size and number of calls, any
write failing, crashes between any two steps of `Spec` (an append is whole). `WalInv` says
where a call is: in the memory, and in the journal, the queue or the batch being written.
Its conjuncts are `QueueIsDone` (replaying queue and batch over the memory changes
nothing, so a late or repeated append is harmless), `EncodedIsEnough` and
`ConfirmedIsSaved` (the snapshot being written, or last written, with the journal kept
beside it replays to the memory), `CleanIsSaved` and `DownIsBlank`. It rests on lemmas on
`Replay`: the last operation on a document decides (`LastTouchIs`), so replaying a suffix
again changes nothing (`ReplayAgain`, `SettlesOn`). From it `Recoverable`, `FlushSaves`,
and `Implements`: every step is a step or a stutter of `DurableMap` under the map a
restart would find. A torn append is excluded because it breaks it (`wal_torn`).

**`Files_proofs`**, the recipes, for any recipes and slugs and any number of writes, one at
a time, assuming that `sync()` runs in the writers' process (`SyncElsewhere = FALSE`;
`knowledge_race` shows what happens otherwise). `Filed` has the four invariants of the
runs, that acknowledged revisions are not ahead of the counter, what a write between two
stages knows (`Working`) and what a sync has read so far (`Syncing`: of the recipes it met
the row is a file's, unless the database refused it). From it `OneFile`,
`AckedStays`, `DeletedStays`, `RowsMirror`, `SyncIsRepair`, each with the exceptions that
its comment names: `strayed` recipes, and rows the database refused.

**`Files_proofs`**, the sessions, for any projects, dimensions and numbers of sessions and
hours, assuming one manager at a time (`OneManager`; `sessions_race` shows what two do).
`SessionInv` says that a live lease is backed by the file and by the memory of every
manager that is up (`Backed`: the session is there, has what the host was told was done
and lasts at least as long as promised) and its object is the manager's own, that maps are
sound (`Sound`: an identifier occurs once and was issued) and that what a call in the
middle of its write will tell is true of the map it publishes (`Truthful`). From it
`OneSession`, `Progress` and `SessionsTyped`.

**`SourceGraph_proofs`**, for any files, texts, candidates and number of edits, under
`GraphAssumption`. The question is whether what an incremental build takes over is what
a full one would link. The inductive invariant has two parts, proved in turn:

- `ReadingInv` (`ReadingsAreKnown`) is about what builds read: the types, what a build
  has read at each stage, and that what was read or recorded are texts the files may have
  (the configuration's among them, which declares nothing). It says nothing of *when* a
  text was there: an edit may be undone, so no comparison tells.
- `LinksInv` (`LinksAreRight`) is about what was linked. `RightUnlessMissed`: the edges of
  each file are those its *recorded* texts call for, unless the configuration is missed,
  or, for calls, a missed file has it in its closure of importers; and edges are of
  files that parse, and a generation that used the alias says so (`ConfiguredIfUsed`).
  The tree does not occur in it, which is why no edit disturbs it: the exception is about
  what a build did, not about what is there now.

The argument is in the lemmas about the operators: a search depends on the texts it asks
and on no other (`CallsAgree`, `LinkedWith`), whoever calls through a file is in its
closure of importers, where the dependencies are right (`AskedIsImported`), so a build
that does not link a file again takes over links no changed text decides; a file that
went through a missed one does so after the build, or through one that is missed now
(`StillImports`). If a file is new or gone everything is linked again (`PublishesAll`).
From it `FreshIsExact`, and more than the runs asked: `FreshDependsAreExact` needs only
that the configuration is not missed, so what a missed source leaves behind is calls,
never dependencies. Induction over the length of a walk is avoided by stating the
closures as least sets.

**`Stores_proofs`**: a behaviour of `StoresSpec` is one of each store, so `StoresTyped`
follows from the type theorems of the six, under the assumptions they have
(`SyncElsewhere = FALSE`, `Racing = FALSE`, `OneManager`: those of the run).

Every invariant and action property of the passing runs is proved. Only model-checked is
liveness (`DecayEnds`, `EvolvingEnds`, `StagingWithDeadlineEnds`, `DrainEnds`, that
proposals are decided), which is out of the prover's reach.

## 5. Not modelled

- Left out of modelled components: titles, relations, graph edges, audit and events of the
  knowledge service; caps of the lifecycle sweeps; overlapping writes of the files of one
  recipe; evidence, warnings and edges of proposals; fields a row has and the file has
  not; contents, hashes, dry runs and malformed files of `sync()`; the snapshot's codec
  and a dimension mismatch; appends that fail without a crash; batch embedding, hydration
  and the retirement of `entry_*` vectors; hints, caches and submissions of sessions;
  types, packages, external edges, budgets, identity and the limit of eight re-exports in
  a row of the source graph. Each component's note in `PROJECT.json` says what.
- The approximate vector index has no exact answer to compare with.
- Parsers, discoverers, project context, production contracts, search, guard, recipe
  context, evidence and quality are functions of their inputs and most of the
  repository's lines; they have no protocol, and a model would be a transliteration.
- Input and output, logging, configuration, read-through caches, tables with plain CRUD.

## 6. Plan

Done: the modules above. Next, in this order:

1. `SweepBudget`: the capped sweeps, and whether waiting entries starve due ones.
2. `DaemonJobs`: `JobStore` with two processes and a restart.
3. `DiffCheckpoint` (no commit skipped) and `SignalWindow` (drops during a slow write).
4. Pure checks: rank fusion, output budget, the dimension scheduler.
