--------------------------- MODULE KnowledgeFiles ---------------------------
(***************************************************************************)
(* The Markdown files of the recipes, which are the truth, and the rows    *)
(* that index them: KnowledgeFileWriter.ts, commitKnowledgeWrite.ts, the   *)
(* creation, update and deletion of KnowledgeService.ts, and the           *)
(* synchronisation of KnowledgeSyncService.ts.                             *)
(*                                                                         *)
(* A write serializes a recipe to a file named after its trigger or title  *)
(* under candidates/ or recipes/, removes the file it had elsewhere, then  *)
(* writes the row; a process may die, and the disk or the database refuse, *)
(* between these steps.  sync() lists both directories, reads each file    *)
(* into its row and deprecates the rows whose recipe it met in no file; it *)
(* logs what the database refuses and goes on.                             *)
(*                                                                         *)
(* Writes do not overlap: what two processes that write the same recipe at *)
(* a time do to each other is not here.                                    *)
(*                                                                         *)
(* The content of a recipe is its revision, numbered by the write.         *)
(***************************************************************************)
EXTENDS KnowledgeFormat

CONSTANTS MaxRevs,     \* bound: the writes begun
          SyncElsewhere   \* whether sync() may run in another process

VARIABLES file,        \* the files
          row,         \* the rows of the database
          op,          \* the write at work
          sync,        \* the sync() at work
          diverged,    \* history: the recipes whose file was changed and whose row was
                       \* not, until a write or a sync() repairs them
          strayed,     \* history: the recipes that were left with a second file
          acked,       \* history: the last revision a caller was told is written, 0 for none
          deleted,     \* history: the recipes whose deletion was acknowledged
          revs         \* the writes begun

filesVars == <<file, row, op, sync, diverged, strayed, acked, deleted, revs>>

Held(r) == {p \in Paths : file[p] # NoFile /\ file[p].id = r}

Idle == [kind |-> "none", stage |-> "idle"]
Writes == [kind : {"create", "update"}, stage : {"file", "cleanup", "row"}, id : Recipes,
           entry : Rows, prev : Paths \cup {NoFile}]
Removals == [kind : {"delete"}, stage : {"file", "row"}, id : Recipes, at : Paths]
NoSync == [stage |-> "idle", todo |-> {}, ids |-> {}, refused |-> {}]

FilesTypeOK == /\ file \in [Paths -> Files \cup {NoFile}]
               /\ row \in [Recipes -> Rows \cup {NoFile}]
               /\ op \in Writes \cup Removals \cup {Idle}
               /\ sync \in [stage : {"idle", "listing", "reading"}, todo : SUBSET Paths,
                            ids : SUBSET Recipes, refused : SUBSET Recipes]
               /\ diverged \subseteq Recipes /\ strayed \subseteq Recipes
               /\ acked \in [Recipes -> Nat] /\ deleted \subseteq Recipes
               /\ revs \in Nat

FilesInit == /\ file = [p \in Paths |-> NoFile] /\ row = [r \in Recipes |-> NoFile]
             /\ op = Idle /\ sync = NoSync
             /\ diverged = {} /\ strayed = {} /\ deleted = {}
             /\ acked = [r \in Recipes |-> 0] /\ revs = 0

-----------------------------------------------------------------------------
(* In one process sync() is one step to everybody else, and a file is      *)
(* written and the old one removed in one step.                            *)
Undisturbed == sync.stage = "idle" \/ SyncElsewhere

(* A write removes no other file than the one the row names.               *)
Begin(r) == /\ op = Idle /\ Undisturbed
            /\ revs < MaxRevs /\ revs' = revs + 1
            /\ strayed' = IF \E p \in Held(r) : p # row[r].at THEN strayed \cup {r} ELSE strayed

(* create: a new identifier. *)
Create(r, life, s) ==
    /\ r \notin deleted /\ row[r] = NoFile /\ Held(r) = {} /\ Begin(r)
    /\ op' = [kind |-> "create", stage |-> "file", id |-> r, prev |-> NoFile,
              entry |-> [rev |-> revs', life |-> life, at |-> PathOf(life, s)]]
    /\ UNCHANGED <<file, row, sync, diverged, acked, deleted>>

(* update, and the moves of the state machine: the recipe as the database  *)
(* has it, changed.                                                        *)
Update(r, life, s) ==
    /\ row[r] # NoFile /\ Begin(r)
    /\ op' = [kind |-> "update", stage |-> "file", id |-> r, prev |-> row[r].at,
              entry |-> [rev |-> revs', life |-> life, at |-> PathOf(life, s)]]
    /\ UNCHANGED <<file, row, sync, diverged, acked, deleted>>

(* delete, which may be retried after a divergence. *)
Delete(r) ==
    /\ op = Idle /\ Undisturbed /\ row[r] # NoFile
    /\ op' = [kind |-> "delete", stage |-> "file", id |-> r, at |-> row[r].at]
    /\ UNCHANGED <<file, row, sync, diverged, strayed, acked, deleted, revs>>

-----------------------------------------------------------------------------
Writing(stage) == op.kind \in {"create", "update"} /\ op.stage = stage /\ Undisturbed
(* Where no other recipe has its file. *)
NotTaken == {p \in Paths : file[p] # NoFile => file[p].id = op.id}
(* The file that a move leaves behind, if it is there. *)
Old == (Held(op.id) \cap {op.prev}) \ {op.entry.at}
Content(w) == [id |-> w.id, rev |-> w.entry.rev, life |-> w.entry.life]
Staged(w, stage) == [kind |-> w.kind, stage |-> stage, id |-> w.id, entry |-> w.entry,
                     prev |-> w.prev]

(* Mutant: the file of another recipe is replaced. *)
WriteFileOver ==
    /\ Writing("file") /\ op' = Staged(op, "cleanup")
    /\ file' = [file EXCEPT ![op.entry.at] = Content(op)]
    /\ UNCHANGED <<row, sync, diverged, strayed, acked, deleted, revs>>
(* Mutant: a name that is taken is found out after the row is written. *)
WriteFileRefusedLate ==
    /\ Writing("file") /\ op' = Staged(op, "cleanup")
    /\ file' = IF op.entry.at \in NotTaken
               THEN [file EXCEPT ![op.entry.at] = Content(op)] ELSE file
    /\ UNCHANGED <<row, sync, diverged, strayed, acked, deleted, revs>>
(* persist: a name that another recipe has refuses the write. *)
WriteFile ==
    /\ Writing("file")
    /\ IF op.entry.at \in NotTaken
       THEN /\ file' = [file EXCEPT ![op.entry.at] = Content(op)]
            /\ op' = Staged(op, "cleanup")
       ELSE op' = Idle /\ UNCHANGED file
    /\ UNCHANGED <<row, sync, diverged, strayed, acked, deleted, revs>>

(* It fails after the file has its name, at fsyncDirectory: the caller is  *)
(* told that nothing was written.                                          *)
WriteFileUnsure ==
    /\ Writing("file") /\ op' = Idle
    /\ op.entry.at \in NotTaken
    /\ file' = [file EXCEPT ![op.entry.at] = Content(op)]
    /\ diverged' = diverged \cup {op.id}
    /\ strayed' = IF Old = {} THEN strayed ELSE strayed \cup {op.id}
    /\ UNCHANGED <<row, sync, acked, deleted, revs>>
(* Any other failure before the files change. *)
FileFails ==
    /\ op # Idle /\ op.stage = "file" /\ Undisturbed /\ op' = Idle
    /\ UNCHANGED <<file, row, sync, diverged, strayed, acked, deleted, revs>>

Without(p) == [file EXCEPT ![p] = NoFile]
(* Mutant: the file the recipe had stays. *)
CleanupNever ==
    /\ Writing("cleanup") /\ op' = Staged(op, "row")
    /\ UNCHANGED <<file, row, sync, diverged, strayed, acked, deleted, revs>>
(* _cleanupOldFile. *)
Cleanup ==
    /\ Writing("cleanup")
    /\ file' = IF Old = {} THEN file ELSE Without(op.prev)
    /\ op' = Staged(op, "row")
    /\ UNCHANGED <<row, sync, diverged, strayed, acked, deleted, revs>>
(* It throws: the caller is told that the file was not written. *)
CleanupFails ==
    /\ Writing("cleanup") /\ Old # {} /\ op' = Idle
    /\ diverged' = diverged \cup {op.id} /\ strayed' = strayed \cup {op.id}
    /\ UNCHANGED <<file, row, sync, acked, deleted, revs>>

(* The row: an insertion finds it taken when sync() was faster. *)
WriteRow ==
    /\ Writing("row") /\ (op.kind = "create" <=> row[op.id] = NoFile)
    /\ row' = [row EXCEPT ![op.id] = op.entry]
    /\ acked' = [acked EXCEPT ![op.id] = op.entry.rev]
    /\ op' = Idle /\ diverged' = diverged \ {op.id}
    /\ UNCHANGED <<file, sync, strayed, deleted, revs>>

(* Mutant: only the directory of the candidates is searched. *)
FoundCandidate == {p \in Held(op.id) : p[1] = "candidates"}
(* remove: the file of the row, else one of that name, candidates first,   *)
(* else any that names the recipe.                                         *)
Found == LET held == Held(op.id)
             named == {p \in held : p[2] = op.at[2]}
             first == {p \in named : p[1] = "candidates"}
         IN  IF op.at \in held THEN {op.at}
             ELSE IF first # {} THEN first
             ELSE IF named # {} THEN named ELSE held

Removing(stage) == op.kind = "delete" /\ op.stage = stage /\ Undisturbed

RemoveFile ==
    /\ Removing("file")
    /\ \/ Found = {} /\ UNCHANGED file
       \/ \E p \in Found : file' = Without(p)
    /\ op' = [kind |-> "delete", stage |-> "row", id |-> op.id, at |-> op.at]
    /\ acked' = [acked EXCEPT ![op.id] = 0]
    /\ UNCHANGED <<row, sync, diverged, strayed, deleted, revs>>
DeleteRow ==
    /\ Removing("row")
    /\ row' = [row EXCEPT ![op.id] = NoFile]
    /\ deleted' = deleted \cup {op.id} /\ diverged' = diverged \ {op.id}
    /\ op' = Idle
    /\ UNCHANGED <<file, sync, strayed, acked, revs>>

(* The database refuses; the caller is told of the divergence. *)
RowFails ==
    /\ op # Idle /\ op.stage = "row" /\ Undisturbed
    /\ op' = Idle /\ diverged' = diverged \cup {op.id}
    /\ UNCHANGED <<file, row, sync, strayed, acked, deleted, revs>>

(* The process dies, a sync() with it.  sync() is run after the restart. *)
ProcessDies ==
    /\ op # Idle \/ sync # NoSync
    /\ op' = Idle /\ sync' = NoSync
    /\ diverged' = IF op.stage \in {"cleanup", "row"} THEN diverged \cup {op.id} ELSE diverged
    /\ strayed' = IF op.stage = "cleanup" /\ Old # {} THEN strayed \cup {op.id} ELSE strayed
    /\ UNCHANGED <<file, row, acked, deleted, revs>>

-----------------------------------------------------------------------------
(* sync(): the files of candidates/, those of recipes/, then one after the *)
(* other; a file that is gone meanwhile is skipped.                        *)
Present(area) == {p \in Paths : p[1] = area /\ file[p] # NoFile}
SyncCandidates ==
    /\ sync = NoSync /\ (op.stage # "cleanup" \/ SyncElsewhere)
    /\ sync' = [NoSync EXCEPT !.stage = "listing", !.todo = Present("candidates")]
    /\ UNCHANGED <<file, row, op, diverged, strayed, acked, deleted, revs>>
SyncRecipes ==
    /\ sync.stage = "listing"
    /\ sync' = [sync EXCEPT !.stage = "reading", !.todo = @ \cup Present("recipes")]
    /\ UNCHANGED <<file, row, op, diverged, strayed, acked, deleted, revs>>

(* _buildDbRow. *)
RowOf(p) == [rev |-> file[p].rev, life |-> file[p].life, at |-> p]

(* The database may refuse the row: that is logged, the recipe was met.    *)
SyncFile(p) ==
    /\ sync.stage = "reading" /\ p \in sync.todo
    /\ p[1] = "recipes" => \A q \in sync.todo : q[1] = "recipes"
    /\ LET met == IF file[p] = NoFile THEN {} ELSE {file[p].id}
       IN  \E denied \in SUBSET met :
             /\ row' = [r \in Recipes |-> IF r \in met \ denied THEN RowOf(p) ELSE row[r]]
             /\ sync' = [sync EXCEPT !.todo = @ \ {p}, !.ids = @ \cup met,
                                     !.refused = @ \cup denied]
    /\ UNCHANGED <<file, op, diverged, strayed, acked, deleted, revs>>

Deprecated(d) == [rev |-> d.rev, life |-> "deprecated", at |-> d.at]
(* The rows in use of the recipes that were met in no file. *)
Unmet == {r \in Recipes \ sync.ids : row[r] # NoFile /\ row[r].life # "deprecated"}
(* Mutant: the orphans stay as they are. *)
DeprecateNone(denied) ==
    /\ sync.stage = "reading" /\ sync.todo = {} /\ sync' = NoSync
    /\ diverged' = {} /\ UNCHANGED <<file, row, op, strayed, acked, deleted, revs>>
(* They are deprecated, but where the database refuses.                    *)
DeprecateUnmet(denied) ==
    /\ sync.stage = "reading" /\ sync.todo = {} /\ sync' = NoSync
    /\ row' = [r \in Recipes |-> IF r \in Unmet \ denied THEN Deprecated(row[r]) ELSE row[r]]
    /\ diverged' = diverged \cap (sync.refused \cup denied)
    /\ UNCHANGED <<file, op, strayed, acked, deleted, revs>>
(* _detectOrphans: what the database refuses is logged. *)
SyncOrphans == \E denied \in SUBSET Unmet : DeprecateUnmet(denied)

FilesNext == \/ \E r \in Recipes : Delete(r)
             \/ \E r \in Recipes, life \in Lives, s \in Slugs :
                    Create(r, life, s) \/ Update(r, life, s)
             \/ WriteFile \/ WriteFileUnsure \/ FileFails
             \/ Cleanup \/ CleanupFails \/ WriteRow
             \/ RemoveFile \/ DeleteRow \/ RowFails \/ ProcessDies
             \/ SyncCandidates \/ SyncRecipes \/ SyncOrphans
             \/ \E p \in Paths : SyncFile(p)

FilesSpec == FilesInit /\ [][FilesNext]_filesVars

-----------------------------------------------------------------------------
(* A recipe has one file, but while a write that moves it removes the old  *)
(* one.  Two things leave it a second one, which the next sync() may read  *)
(* and undo a write, and which may outlive a deletion: a move that was cut *)
(* short, and a write before a file that is elsewhere than its row says    *)
(* was synchronised.  Nothing else does, as long as writes do not overlap  *)
(* (nor below).                                                            *)
OneFilePerRecipe ==
    \A r \in Recipes \ strayed : \A p, q \in Held(r) :
        p = q \/ (op.stage = "cleanup" /\ op.id = r /\ {p, q} = {op.prev, op.entry.at})

(* What a caller was told is written is neither replaced by the file of    *)
(* another recipe nor undone by a crash, a refused row or a sync(), as     *)
(* long as the recipe was not left with a second file: its file and its    *)
(* row have that revision or a later one.                                  *)
AckedIsKept ==
    \A r \in Recipes \ strayed : acked[r] # 0 =>
        /\ \E p \in Held(r) : file[p].rev >= acked[r]
        /\ row[r] # NoFile /\ row[r].rev >= acked[r]

(* No sync() brings back a recipe whose deletion was acknowledged, unless  *)
(* it was left with a second file before: of a recipe with two files the   *)
(* deletion removes one.                                                   *)
DeletedStaysDeleted == \A r \in deleted \ strayed : Held(r) = {} /\ row[r] = NoFile

(* Between writes the row of a recipe is what a file of it says, and a     *)
(* recipe without a file is deprecated or has no row.  Three things make   *)
(* them differ until a write or a sync() of that recipe succeeds: a row    *)
(* the database refused, of which the caller is told; a crash; and a write *)
(* that failed when its file had its name, of which the caller is told     *)
(* that nothing was written.  Besides, the deletion of a recipe with two   *)
(* files leaves one without a row.                                         *)
Mirrors(r) == IF Held(r) = {} THEN row[r] = NoFile \/ row[r].life = "deprecated"
              ELSE \E p \in Held(r) : row[r] = RowOf(p)
RowsMirrorFiles ==
    \A r \in Recipes \ (diverged \cup (deleted \cap strayed)) :
        (op.stage \in {"idle", "file"} \/ op.id # r) => Mirrors(r)

(* A sync() leaves no divergence but of the recipes whose row the database *)
(* refused, to write or to deprecate: of every other recipe, one with a    *)
(* move that was cut short too, the row is what its file says, and one     *)
(* without a file is deprecated.                                           *)
SyncRepairs ==
    [][\A denied \in SUBSET Unmet : DeprecateUnmet(denied) =>
          \A r \in Recipes \ (sync.refused \cup denied) : Mirrors(r)']_filesVars

(* sync() deprecates no recipe that has a file. *)
OrphansHaveNoFile ==
    [][SyncOrphans => \A r \in Recipes : row'[r] # row[r] => Held(r) = {}]_filesVars
=============================================================================
