---------------------------- MODULE Files_proofs ----------------------------
(***************************************************************************)
(* What is kept in files of the project.  The files of the recipes and     *)
(* their rows, for any recipes, names and numbers of writes, when sync()   *)
(* runs in the process that writes.  And the lease of a project, for one   *)
(* manager and any number of projects, dimensions, sessions and hours.     *)
(*                                                                         *)
(* The two properties of the sessions speak of what hosts were told; they  *)
(* hold because the file, and the memory of a manager that runs, back each *)
(* live session: they have it under its project, with every completion its *)
(* host was told of, none its host did not ask for, and at least the life  *)
(* it was promised (Backed), and its object is the manager's own.          *)
(***************************************************************************)
EXTENDS KnowledgeFiles, Sessions, TLAPS

(* What a write or a deletion knows of the files at each of its stages.    *)
IsWrite == op.kind \in {"create", "update"}
Working ==
    /\ IsWrite => op.entry.rev = revs
    /\ op.kind = "delete" /\ op.stage = "row" => acked[op.id] = 0
    /\ IsWrite /\ op.stage \in {"cleanup", "row"} => file[op.entry.at] = Content(op)
    /\ op # Idle /\ op.id \notin strayed =>
        /\ op.id \notin deleted
        /\ IsWrite /\ op.stage = "file" => Held(op.id) \subseteq {op.prev}
        /\ IsWrite /\ op.stage = "cleanup" => Held(op.id) \subseteq {op.prev, op.entry.at}
        /\ IsWrite /\ op.stage = "row" => Held(op.id) = {op.entry.at}
        /\ op.kind = "delete" /\ op.stage = "row" => Held(op.id) = {}

(* What sync() knows: it has met every file or is going to, and the rows   *)
(* of the recipes it met are what one of their files says, but where the   *)
(* database refused.                                                       *)
Syncing ==
    /\ sync.stage # "idle" => op.stage # "cleanup"
    /\ sync.stage = "listing" => sync.todo = Present("candidates") /\ sync.ids = {}
    /\ sync.stage = "reading" =>
        /\ \A p \in Paths : file[p] # NoFile => p \in sync.todo \/ file[p].id \in sync.ids
        /\ \A r \in sync.ids \ sync.refused : \E p \in Held(r) : row[r] = RowOf(p)

Filed == /\ FilesTypeOK /\ OneFilePerRecipe /\ AckedIsKept /\ DeletedStaysDeleted /\ RowsMirrorFiles
         /\ \A r \in Recipes : acked[r] <= revs
         /\ Working /\ Syncing

-----------------------------------------------------------------------------
LEMMA OpCases ==
    ASSUME FilesTypeOK
    PROVE  \/ op = Idle /\ op.kind = "none" /\ op.stage = "idle"
           \/ /\ op \in Writes /\ IsWrite /\ op # Idle /\ op.stage \in {"file", "cleanup", "row"}
              /\ op.kind # "delete"
              /\ op.id \in Recipes /\ op.entry \in Rows /\ op.prev \in Paths \cup {NoFile}
           \/ /\ op \in Removals /\ op.kind = "delete" /\ op # Idle /\ op.stage \in {"file", "row"}
              /\ op.id \in Recipes /\ op.at \in Paths /\ ~IsWrite
<1>1. Idle.kind = "none" /\ Idle.stage = "idle"
  BY DEF Idle
<1>2. CASE op \in Writes
  BY <1>1, <1>2 DEF Writes, IsWrite
<1>3. CASE op \in Removals
  BY <1>1, <1>3 DEF Removals, IsWrite
<1> QED
  BY <1>1, <1>2, <1>3 DEF FilesTypeOK

LEMMA HeldSame ==
    ASSUME file' = file
    PROVE  /\ \A r : Held(r)' = Held(r)
           /\ \A p : RowOf(p)' = RowOf(p)
           /\ \A a : Present(a)' = Present(a)
  BY DEF Held, RowOf, Present

LEMMA HeldChanges ==
    ASSUME FilesTypeOK, NEW p \in Paths, NEW v \in Files \cup {NoFile}, file' = [file EXCEPT ![p] = v]
    PROVE  /\ file' \in [Paths -> Files \cup {NoFile}]
           /\ \A r : v # NoFile /\ v.id = r => Held(r)' = Held(r) \cup {p}
           /\ \A r : v = NoFile \/ v.id # r => Held(r)' = Held(r) \ {p}
           /\ \A q \in Paths \ {p} : file'[q] = file[q] /\ RowOf(q)' = RowOf(q)
           /\ file'[p] = v
  BY DEF FilesTypeOK, Held, RowOf

LEMMA HeldArePaths == \A r : /\ Held(r) \subseteq Paths
                             /\ \A p \in Held(r) : file[p] # NoFile /\ file[p].id = r
  BY DEF Held

LEMMA FilesInitially == FilesInit => Filed
<1> SUFFICES ASSUME FilesInit PROVE Filed
  OBVIOUS
<1>1. FilesTypeOK
  BY DEF FilesInit, FilesTypeOK, NoSync
<1>2. \A r : Held(r) = {}
  BY DEF FilesInit, Held
<1>3. OneFilePerRecipe /\ AckedIsKept /\ DeletedStaysDeleted
  BY <1>2 DEF FilesInit, OneFilePerRecipe, AckedIsKept, DeletedStaysDeleted
<1>4. RowsMirrorFiles
  BY <1>2 DEF FilesInit, RowsMirrorFiles, Mirrors
<1>5. Working /\ Syncing
  BY DEF FilesInit, Working, Syncing, Idle, NoSync, IsWrite
<1> QED
  BY <1>1, <1>3, <1>4, <1>5 DEF Filed, FilesInit

-----------------------------------------------------------------------------
(* A step that changes no file and no row. *)
LEMMA QuietKeeps ==
    ASSUME Filed, UNCHANGED <<file, row, acked, deleted>>, FilesTypeOK',
           strayed \subseteq strayed', diverged \subseteq diverged', revs <= revs',
           op.stage = "cleanup" => op' = op \/ op.id \in strayed' \/ Old = {},
           op.stage \in {"cleanup", "row"} => op' = op \/ op.id \in diverged'
    PROVE  OneFilePerRecipe' /\ AckedIsKept' /\ DeletedStaysDeleted' /\ RowsMirrorFiles'
           /\ \A r \in Recipes : acked'[r] <= revs'
<1>1. /\ \A r : Held(r)' = Held(r)
      /\ \A p : RowOf(p)' = RowOf(p)
  BY HeldSame
<1>2. ASSUME NEW r \in Recipes \ strayed', NEW p \in Held(r), NEW q \in Held(r)
      PROVE  p = q \/ (op'.stage = "cleanup" /\ op'.id = r /\ {p, q} = {op'.prev, op'.entry.at})
  <2> SUFFICES ASSUME p # q
               PROVE  op'.stage = "cleanup" /\ op'.id = r /\ {p, q} = {op'.prev, op'.entry.at}
    OBVIOUS
  <2>1. op.stage = "cleanup" /\ op.id = r /\ {p, q} = {op.prev, op.entry.at}
    BY <1>2 DEF Filed, OneFilePerRecipe
  <2>2. op.prev \in Old
    BY <1>2, <2>1 DEF Old
  <2> QED
    BY <1>2, <2>1, <2>2
<1>3. OneFilePerRecipe'
  BY <1>1, <1>2 DEF OneFilePerRecipe
<1>4. AckedIsKept' /\ DeletedStaysDeleted'
  BY <1>1 DEF Filed, AckedIsKept, DeletedStaysDeleted
<1>5. RowsMirrorFiles'
  <2> SUFFICES ASSUME NEW r \in Recipes \ (diverged' \cup (deleted' \cap strayed')),
                      op'.stage \in {"idle", "file"} \/ op'.id # r
               PROVE  Mirrors(r)'
    BY DEF RowsMirrorFiles
  <2>1. Mirrors(r)
    BY OpCases DEF Filed, RowsMirrorFiles
  <2> QED
    BY <1>1, <2>1 DEF Mirrors
<1>6. \A r \in Recipes : acked'[r] <= revs'
  BY DEF Filed, FilesTypeOK
<1> QED
  BY <1>3, <1>4, <1>5, <1>6

LEMMA PathIs == \A life \in Lives, s \in Slugs : PathOf(life, s) \in Paths
  BY DEF PathOf, Paths, Areas

(* What a recipe that is written regularly had. *)
LEMMA BeginKnows ==
    ASSUME SyncElsewhere = FALSE, Filed, NEW r \in Recipes, Begin(r)
    PROVE  /\ op = Idle /\ sync.stage = "idle" /\ revs' = revs + 1 /\ revs \in Nat
           /\ strayed \subseteq strayed' /\ strayed' \subseteq Recipes
           /\ r \notin strayed' /\ row[r] # NoFile => Held(r) \subseteq {row[r].at} /\ r \notin deleted
<1>1. op = Idle /\ sync.stage = "idle" /\ revs' = revs + 1 /\ revs \in Nat
      /\ strayed \subseteq strayed' /\ strayed' \subseteq Recipes
      /\ (r \notin strayed' => r \notin strayed /\ \A p \in Held(r) : p = row[r].at)
  BY DEF Begin, Undisturbed, Filed, FilesTypeOK
<1>2. r \notin strayed' /\ row[r] # NoFile => r \notin deleted
  BY <1>1 DEF Filed, DeletedStaysDeleted
<1> QED
  BY <1>1, <1>2

LEMMA BeginsKeep ==
    ASSUME SyncElsewhere = FALSE, Filed, NEW r \in Recipes, NEW life \in Lives, NEW s \in Slugs,
           Create(r, life, s) \/ Update(r, life, s)
    PROVE  Filed'
<1>1. Begin(r) /\ UNCHANGED <<file, row, sync, diverged, acked, deleted>>
  BY DEF Create, Update
<1>2. /\ op = Idle /\ sync.stage = "idle" /\ revs' = revs + 1 /\ revs \in Nat
      /\ strayed \subseteq strayed' /\ strayed' \subseteq Recipes
      /\ r \notin strayed' /\ row[r] # NoFile => Held(r) \subseteq {row[r].at} /\ r \notin deleted
  BY <1>1, BeginKnows
<1>3. /\ op' \in Writes /\ op'.stage = "file" /\ op'.id = r /\ op'.entry.rev = revs'
      /\ op'.kind \in {"create", "update"}
      /\ \/ r \notin deleted /\ Held(r) = {}
         \/ row[r] # NoFile /\ op'.prev = row[r].at
  <2>1. [rev |-> revs', life |-> life, at |-> PathOf(life, s)] \in Rows
    BY <1>2, PathIs DEF Rows, Revs
  <2>2. row[r] # NoFile => row[r].at \in Paths
    BY DEF Filed, FilesTypeOK, Rows
  <2>3. CASE Create(r, life, s)
    BY <2>1, <2>3 DEF Create, Writes
  <2>4. CASE Update(r, life, s)
    BY <2>1, <2>2, <2>4 DEF Update, Writes
  <2> QED
    BY <2>3, <2>4
<1>4. FilesTypeOK'
  BY <1>1, <1>2, <1>3 DEF Filed, FilesTypeOK
<1>5. OneFilePerRecipe' /\ AckedIsKept' /\ DeletedStaysDeleted' /\ RowsMirrorFiles'
      /\ \A x \in Recipes : acked'[x] <= revs'
  BY <1>1, <1>2, <1>4, QuietKeeps, OpCases DEF Filed
<1>6. Working'
  BY <1>1, <1>2, <1>3, HeldSame DEF Working, IsWrite
<1>7. Syncing'
  BY <1>1, <1>2 DEF Syncing
<1> QED
  BY <1>4, <1>5, <1>6, <1>7 DEF Filed

LEMMA DeleteKeeps ==
    ASSUME SyncElsewhere = FALSE, Filed, NEW r \in Recipes, Delete(r)
    PROVE  Filed'
<1>1. /\ op = Idle /\ sync.stage = "idle" /\ row[r] # NoFile
      /\ UNCHANGED <<file, row, sync, diverged, strayed, acked, deleted, revs>>
  BY DEF Delete, Undisturbed
<1>2. op' \in Removals /\ op'.stage = "file" /\ op'.id = r /\ op'.kind = "delete"
  BY <1>1 DEF Delete, Filed, FilesTypeOK, Rows, Removals
<1>3. FilesTypeOK'
  BY <1>1, <1>2 DEF Filed, FilesTypeOK
<1>4. OneFilePerRecipe' /\ AckedIsKept' /\ DeletedStaysDeleted' /\ RowsMirrorFiles'
      /\ \A x \in Recipes : acked'[x] <= revs'
  BY <1>1, <1>3, QuietKeeps, OpCases DEF Filed, FilesTypeOK
<1>5. r \notin strayed => r \notin deleted
  BY <1>1 DEF Filed, DeletedStaysDeleted
<1>6. Working' /\ Syncing'
  BY <1>1, <1>2, <1>5 DEF Working, IsWrite, Syncing
<1> QED
  BY <1>3, <1>4, <1>6 DEF Filed

-----------------------------------------------------------------------------
(* The write at work, step by step. *)
LEMMA WritingIs ==
    ASSUME SyncElsewhere = FALSE, Filed, NEW stage \in {"file", "cleanup", "row"}, Writing(stage)
    PROVE  /\ op \in Writes /\ op # Idle /\ op.stage = stage /\ op.kind \in {"create", "update"}
           /\ op.id \in Recipes /\ op.entry \in Rows /\ op.entry.at \in Paths
           /\ op.prev \in Paths \cup {NoFile}
           /\ op.entry.rev = revs /\ revs \in Revs
           /\ sync.stage = "idle"
           /\ Content(op) \in Files /\ Content(op).id = op.id /\ Content(op) # NoFile
           /\ Idle.stage = "idle" /\ Idle.kind = "none"
<1>1. /\ op \in Writes /\ op # Idle /\ op.stage = stage /\ op.kind \in {"create", "update"}
      /\ op.id \in Recipes /\ op.entry \in Rows /\ op.prev \in Paths \cup {NoFile}
  BY OpCases DEF Writing, IsWrite, Filed
<1>2. op.entry.rev = revs /\ sync.stage = "idle" /\ revs \in Revs /\ op.entry.at \in Paths
  BY <1>1 DEF Filed, Working, IsWrite, Writing, Undisturbed, Rows
<1>3. Content(op) \in Files /\ Content(op).id = op.id
  BY <1>1 DEF Content, Files, Rows
<1>4. Content(op) # NoFile
  BY <1>3, NoFileAssumption
<1>5. Idle.stage = "idle" /\ Idle.kind = "none"
  BY DEF Idle
<1> QED
  BY <1>1, <1>2, <1>3, <1>4, <1>5

LEMMA StagedIs ==
    ASSUME op \in Writes, NEW s \in {"file", "cleanup", "row"}
    PROVE  LET w == Staged(op, s) IN
           /\ w \in Writes /\ w.stage = s /\ w.kind = op.kind /\ w.id = op.id
           /\ w.entry = op.entry /\ w.prev = op.prev /\ Content(w) = Content(op) /\ w # Idle
<1> DEFINE w == Staged(op, s)
<1>1. /\ w \in Writes /\ w.stage = s /\ w.kind = op.kind /\ w.id = op.id
      /\ w.entry = op.entry /\ w.prev = op.prev
  BY DEF Staged, Writes
<1>2. w # Idle
  BY <1>1 DEF Idle, Writes
<1>3. Content(w) = Content(op)
  BY <1>1 DEF Content
<1> QED
  BY <1>1, <1>2, <1>3

(* The file of a write of r is at p. *)
NewFile(r, p) ==
    /\ file' \in [Paths -> Files \cup {NoFile}] /\ file'[p] = Content(op)
    /\ Held(r)' = Held(r) \cup {p} /\ \A x : x # r => Held(x)' = Held(x)
    /\ r \notin strayed => Held(r) \subseteq {op.prev} /\ r \notin deleted
    /\ AckedIsKept' /\ DeletedStaysDeleted'
    /\ \A x \in Recipes \ (diverged' \cup (deleted \cap strayed')) : x # r => Mirrors(x)'
    /\ \A x \in Recipes : acked'[x] <= revs'
LEMMA NewFileIs ==
    ASSUME SyncElsewhere = FALSE, Filed, Writing("file"), op.entry.at \in NotTaken,
           file' = [file EXCEPT ![op.entry.at] = Content(op)],
           UNCHANGED <<row, acked, deleted, revs>>,
           strayed \subseteq strayed', diverged \subseteq diverged'
    PROVE  NewFile(op.id, op.entry.at)
<1>1. /\ op \in Writes /\ op # Idle /\ op.stage = "file" /\ op.kind \in {"create", "update"}
      /\ op.id \in Recipes /\ op.entry \in Rows /\ op.entry.at \in Paths
      /\ op.entry.rev = revs /\ revs \in Revs
      /\ Content(op) \in Files /\ Content(op).id = op.id /\ Content(op) # NoFile
  BY WritingIs
<1>2. PICK r \in Recipes, p \in Paths, v \in Files : r = op.id /\ p = op.entry.at /\ v = Content(op)
  BY <1>1
<1>3. /\ file' \in [Paths -> Files \cup {NoFile}]
      /\ Held(r)' = Held(r) \cup {p} /\ \A x : x # r => Held(x)' = Held(x) \ {p}
      /\ \A q \in Paths \ {p} : file'[q] = file[q] /\ RowOf(q)' = RowOf(q)
      /\ file'[p] = Content(op)
  <2>1. file' = [file EXCEPT ![p] = v] /\ v # NoFile /\ v.id = r /\ FilesTypeOK
    BY <1>1, <1>2 DEF Filed
  <2>2. v \in Files \cup {NoFile}
    OBVIOUS
  <2>3. /\ file' \in [Paths -> Files \cup {NoFile}]
        /\ \A x : v # NoFile /\ v.id = x => Held(x)' = Held(x) \cup {p}
        /\ \A x : v = NoFile \/ v.id # x => Held(x)' = Held(x) \ {p}
        /\ \A q \in Paths \ {p} : file'[q] = file[q] /\ RowOf(q)' = RowOf(q)
        /\ file'[p] = v
    BY <2>1, <2>2, HeldChanges
  <2> QED
    BY <1>2, <2>1, <2>3
<1>4. ASSUME NEW x, x # r PROVE Held(x)' = Held(x) /\ p \notin Held(x)
  <2>1. p \notin Held(x)
    BY <1>2, <1>4, HeldArePaths DEF NotTaken
  <2> QED
    BY <1>3, <1>4, <2>1
<1>5. r \notin strayed => Held(r) \subseteq {op.prev} /\ r \notin deleted
  BY <1>1, <1>2 DEF Filed, Working, IsWrite
<1>6. AckedIsKept'
  <2> SUFFICES ASSUME NEW x \in Recipes \ strayed', acked[x] # 0
               PROVE  /\ \E q \in Held(x)' : file'[q].rev >= acked[x]
                      /\ row[x] # NoFile /\ row[x].rev >= acked[x]
    BY DEF AckedIsKept
  <2>1. /\ \E q \in Held(x) : file[q].rev >= acked[x]
        /\ row[x] # NoFile /\ row[x].rev >= acked[x]
    BY DEF Filed, AckedIsKept
  <2>2. CASE x = r
    <3>1. file'[p].rev = revs /\ acked[x] <= revs /\ p \in Held(x)'
      BY <1>1, <1>2, <1>3, <2>2 DEF Filed, Content
    <3>2. revs >= acked[x]
      BY <1>1, <3>1 DEF Filed, FilesTypeOK, Revs
    <3> QED
      BY <2>1, <3>1, <3>2
  <2>3. CASE x # r
    BY <1>3, <1>4, <2>1, <2>3, HeldArePaths
  <2> QED
    BY <2>2, <2>3
<1>7. DeletedStaysDeleted'
  BY <1>4, <1>5 DEF Filed, DeletedStaysDeleted
<1>8. ASSUME NEW x \in Recipes \ (diverged' \cup (deleted \cap strayed')), x # r
      PROVE  Mirrors(x)'
  <2>1. Mirrors(x) /\ Held(x)' = Held(x) /\ p \notin Held(x)
    BY <1>1, <1>2, <1>4, <1>8 DEF Filed, RowsMirrorFiles
  <2>2. \A q \in Held(x) : RowOf(q)' = RowOf(q)
    BY <1>3, <2>1, HeldArePaths
  <2> QED
    BY <2>1, <2>2 DEF Mirrors
<1>9. \A x \in Recipes : acked'[x] <= revs'
  BY DEF Filed
<1>10. NewFile(r, p)
  BY <1>3, <1>4, <1>5, <1>6, <1>7, <1>8, <1>9 DEF NewFile
<1> QED
  BY <1>2, <1>10

(* The write ends before a file changes. *)
LEMMA FileFailsKeeps ==
    ASSUME SyncElsewhere = FALSE, Filed, op # Idle, op.stage = "file", Undisturbed, op' = Idle,
           UNCHANGED <<file, row, sync, diverged, strayed, acked, deleted, revs>>
    PROVE  Filed'
<1>1. Idle.stage = "idle" /\ Idle.kind = "none" /\ sync.stage = "idle"
  BY DEF Idle, Undisturbed
<1>2. FilesTypeOK'
  BY DEF Filed, FilesTypeOK
<1>3. OneFilePerRecipe' /\ AckedIsKept' /\ DeletedStaysDeleted' /\ RowsMirrorFiles'
      /\ \A x \in Recipes : acked'[x] <= revs'
  BY <1>2, QuietKeeps DEF Filed, FilesTypeOK
<1>4. Working' /\ Syncing'
  BY <1>1 DEF Working, IsWrite, Syncing
<1> QED
  BY <1>2, <1>3, <1>4 DEF Filed

LEMMA WriteFileKeeps ==
    ASSUME SyncElsewhere = FALSE, Filed, WriteFile
    PROVE  Filed'
<1>0. UNCHANGED <<row, sync, diverged, strayed, acked, deleted, revs>> /\ Writing("file")
  BY DEF WriteFile
<1>1. /\ op \in Writes /\ op # Idle /\ op.stage = "file" /\ op.kind \in {"create", "update"}
      /\ op.id \in Recipes /\ op.entry.rev = revs /\ sync.stage = "idle"
  BY <1>0, WritingIs
<1>2. CASE op' = Idle /\ UNCHANGED file
  BY <1>0, <1>1, <1>2, FileFailsKeeps DEF Writing
<1>3. CASE /\ op.entry.at \in NotTaken
           /\ file' = [file EXCEPT ![op.entry.at] = Content(op)]
           /\ op' = Staged(op, "cleanup")
  <2>0. PICK r, p : r \in Recipes /\ r = op.id /\ p = op.entry.at
    BY <1>1
  <2>1. /\ op' \in Writes /\ op'.stage = "cleanup" /\ op'.kind = op.kind /\ op'.id = r
        /\ op'.entry = op.entry /\ op'.prev = op.prev /\ Content(op') = Content(op) /\ op' # Idle
    BY <1>1, <1>3, <2>0, StagedIs
  <2>2. /\ file' \in [Paths -> Files \cup {NoFile}] /\ file'[p] = Content(op)
        /\ Held(r)' = Held(r) \cup {p} /\ \A x : x # r => Held(x)' = Held(x)
        /\ r \notin strayed => Held(r) \subseteq {op.prev} /\ r \notin deleted
        /\ AckedIsKept' /\ DeletedStaysDeleted'
        /\ \A x \in Recipes \ (diverged' \cup (deleted \cap strayed')) : x # r => Mirrors(x)'
        /\ \A x \in Recipes : acked'[x] <= revs'
    <3>1. NewFile(op.id, op.entry.at)
      BY <1>0, <1>3, NewFileIs
    <3>2. NewFile(r, p)
      BY <2>0, <3>1
    <3> QED
      BY <3>2 DEF NewFile
  <2>3. FilesTypeOK'
    BY <1>0, <2>1, <2>2 DEF Filed, FilesTypeOK
  <2>4. OneFilePerRecipe'
    <3> SUFFICES ASSUME NEW x \in Recipes \ strayed, NEW a \in Held(x)', NEW b \in Held(x)', a # b
                 PROVE  op'.id = x /\ {a, b} = {op'.prev, op'.entry.at}
      BY <1>0, <2>1 DEF OneFilePerRecipe
    <3>1. x = r
      BY <1>1, <2>2 DEF Filed, OneFilePerRecipe
    <3> QED
      BY <2>0, <2>1, <2>2, <3>1
  <2>5. RowsMirrorFiles'
    BY <1>0, <2>1, <2>2 DEF RowsMirrorFiles
  <2>6. Working'
    BY <1>0, <1>1, <2>0, <2>1, <2>2 DEF Working, IsWrite, Filed
  <2>7. Syncing'
    BY <1>0, <1>1 DEF Syncing
  <2> QED
    BY <2>2, <2>3, <2>4, <2>5, <2>6, <2>7 DEF Filed
<1> QED
  BY <1>2, <1>3 DEF WriteFile

LEMMA WriteFileUnsureKeeps ==
    ASSUME SyncElsewhere = FALSE, Filed, WriteFileUnsure
    PROVE  Filed'
<1>0. /\ Writing("file") /\ op' = Idle /\ op.entry.at \in NotTaken
      /\ file' = [file EXCEPT ![op.entry.at] = Content(op)]
      /\ diverged' = diverged \cup {op.id}
      /\ strayed' = IF Old = {} THEN strayed ELSE strayed \cup {op.id}
      /\ UNCHANGED <<row, sync, acked, deleted, revs>>
  BY DEF WriteFileUnsure
<1>1. /\ op.stage = "file" /\ op.id \in Recipes /\ sync.stage = "idle"
      /\ Idle.stage = "idle" /\ Idle.kind = "none"
  BY <1>0, WritingIs
<1>2. PICK r, p : r \in Recipes /\ r = op.id /\ p = op.entry.at
  BY <1>1
<1>3. /\ file' \in [Paths -> Files \cup {NoFile}]
      /\ Held(r)' = Held(r) \cup {p} /\ \A x : x # r => Held(x)' = Held(x)
      /\ r \notin strayed => Held(r) \subseteq {op.prev} /\ r \notin deleted
      /\ AckedIsKept' /\ DeletedStaysDeleted'
      /\ \A x \in Recipes \ (diverged' \cup (deleted \cap strayed')) : x # r => Mirrors(x)'
      /\ \A x \in Recipes : acked'[x] <= revs'
  <2>1. NewFile(op.id, op.entry.at)
    BY <1>0, NewFileIs
  <2>2. NewFile(r, p)
    BY <1>2, <2>1
  <2> QED
    BY <2>2 DEF NewFile
<1>4. FilesTypeOK'
  BY <1>0, <1>1, <1>3 DEF Filed, FilesTypeOK
<1>5. OneFilePerRecipe'
  <2> SUFFICES ASSUME NEW x \in Recipes \ strayed', NEW a \in Held(x)', NEW b \in Held(x)'
               PROVE  a = b
    BY DEF OneFilePerRecipe
  <2>1. CASE x = r
    <3>1. Old = {} /\ r \notin strayed
      BY <1>0, <1>2, <2>1
    <3> QED
      BY <1>2, <1>3, <2>1, <3>1 DEF Old
  <2>2. CASE x # r
    BY <1>0, <1>1, <1>2, <1>3, <2>2 DEF Filed, OneFilePerRecipe
  <2> QED
    BY <2>1, <2>2
<1>6. RowsMirrorFiles'
  BY <1>0, <1>2, <1>3 DEF RowsMirrorFiles
<1>7. Working' /\ Syncing'
  BY <1>0, <1>1 DEF Working, IsWrite, Syncing
<1> QED
  BY <1>3, <1>4, <1>5, <1>6, <1>7 DEF Filed

LEMMA CleanupKeeps ==
    ASSUME SyncElsewhere = FALSE, Filed, Cleanup
    PROVE  Filed'
<1>0. UNCHANGED <<row, sync, diverged, strayed, acked, deleted, revs>> /\ Writing("cleanup")
      /\ op' = Staged(op, "row")
      /\ file' = IF op.prev \in Held(op.id) \ {op.entry.at} THEN Without(op.prev) ELSE file
  BY DEF Cleanup, Old
<1>1. /\ op \in Writes /\ op # Idle /\ op.stage = "cleanup" /\ op.kind \in {"create", "update"}
      /\ op.id \in Recipes /\ op.entry.at \in Paths /\ op.entry.rev = revs
      /\ sync.stage = "idle" /\ Content(op).id = op.id
  BY <1>0, WritingIs
<1>2. PICK r \in Recipes, p \in Paths : r = op.id /\ p = op.entry.at
  BY <1>1
<1>3. /\ op' \in Writes /\ op'.stage = "row" /\ op'.kind = op.kind /\ op'.id = r
      /\ op'.entry = op.entry /\ op'.prev = op.prev /\ Content(op') = Content(op) /\ op' # Idle
  BY <1>0, <1>1, <1>2, StagedIs
<1>4. /\ file' \in [Paths -> Files \cup {NoFile}]
      /\ \A q \in Paths : q # op.prev \/ q = p \/ file[q].id # r => file'[q] = file[q]
      /\ Held(r)' \subseteq Held(r)
      /\ p \in Held(r) => p \in Held(r)'
      /\ Held(r) \subseteq {op.prev, p} => Held(r)' \subseteq {p}
      /\ \A x : x # r => Held(x)' = Held(x)
      /\ \A q \in Paths : file'[q] # NoFile => RowOf(q)' = RowOf(q) /\ file'[q] = file[q]
  <2>1. CASE op.prev \in Held(r) \ {p}
    <3>1. PICK o \in Paths : o = op.prev
      BY <2>1, HeldArePaths
    <3>2. file' = [file EXCEPT ![o] = NoFile] /\ FilesTypeOK
      BY <1>0, <1>2, <2>1, <3>1 DEF Without, Filed
    <3>3. NoFile \in Files \cup {NoFile}
      OBVIOUS
    <3>4. /\ file' \in [Paths -> Files \cup {NoFile}]
          /\ \A x : Held(x)' = Held(x) \ {o}
          /\ \A q \in Paths \ {o} : file'[q] = file[q] /\ RowOf(q)' = RowOf(q)
          /\ file'[o] = NoFile
      BY <3>2, <3>3, HeldChanges
    <3>5. \A x : x # r => o \notin Held(x)
      BY <2>1, <3>1, HeldArePaths
    <3>6. \A x : x # r => Held(x)' = Held(x)
      BY <3>4, <3>5
    <3> QED
      BY <2>1, <3>1, <3>4, <3>6, HeldArePaths
  <2>2. CASE op.prev \notin Held(r) \ {p}
    <3>1. file' = file
      BY <1>0, <1>2, <2>2
    <3> QED
      BY <2>2, <3>1, HeldSame DEF Filed, FilesTypeOK
  <2> QED
    BY <2>1, <2>2
<1>5. /\ file'[p] = Content(op) /\ p \in Held(r)'
      /\ r \notin strayed => Held(r)' = {p} /\ r \notin deleted
  <2>1. file[p] = Content(op)
    BY <1>1, <1>2 DEF Filed, Working, IsWrite
  <2>2. r \notin strayed => Held(r) \subseteq {op.prev, p} /\ r \notin deleted
    BY <1>1, <1>2 DEF Filed, Working, IsWrite
  <2>3. p \in Held(r)
    BY <1>0, <1>1, <1>2, <2>1, WritingIs DEF Held
  <2> QED
    BY <1>4, <2>1, <2>2, <2>3
<1>6. FilesTypeOK'
  BY <1>0, <1>3, <1>4 DEF Filed, FilesTypeOK
<1>7. OneFilePerRecipe'
  <2> SUFFICES ASSUME NEW x \in Recipes \ strayed, NEW a \in Held(x)', NEW b \in Held(x)'
               PROVE  a = b
    BY <1>0 DEF OneFilePerRecipe
  <2>1. CASE x = r
    BY <1>5, <2>1
  <2>2. CASE x # r
    BY <1>1, <1>2, <1>4, <2>2 DEF Filed, OneFilePerRecipe
  <2> QED
    BY <2>1, <2>2
<1>8. AckedIsKept'
  <2> SUFFICES ASSUME NEW x \in Recipes \ strayed, acked[x] # 0
               PROVE  /\ \E q \in Held(x)' : file'[q].rev >= acked[x]
                      /\ row[x] # NoFile /\ row[x].rev >= acked[x]
    BY <1>0 DEF AckedIsKept
  <2>1. /\ \E q \in Held(x) : file[q].rev >= acked[x]
        /\ row[x] # NoFile /\ row[x].rev >= acked[x]
    BY DEF Filed, AckedIsKept
  <2>2. CASE x = r
    <3>1. file'[p].rev = revs /\ acked[x] <= revs /\ p \in Held(x)'
      BY <1>1, <1>5, <2>2 DEF Filed, Content
    <3>2. revs >= acked[x]
      BY <3>1 DEF Filed, FilesTypeOK
    <3> QED
      BY <2>1, <3>1, <3>2
  <2>3. CASE x # r
    <3>1. Held(x)' = Held(x) /\ \A q \in Held(x) : file'[q] = file[q]
      BY <1>2, <1>4, <2>3, HeldArePaths
    <3> QED
      BY <2>1, <3>1
  <2> QED
    BY <2>2, <2>3
<1>9. DeletedStaysDeleted'
  BY <1>0, <1>4, <1>5 DEF Filed, DeletedStaysDeleted
<1>10. RowsMirrorFiles'
  <2> SUFFICES ASSUME NEW x \in Recipes \ (diverged \cup (deleted \cap strayed)), x # r
               PROVE  Mirrors(x)'
    BY <1>0, <1>3 DEF RowsMirrorFiles
  <2>1. Mirrors(x) /\ Held(x)' = Held(x)
    BY <1>1, <1>2, <1>4 DEF Filed, RowsMirrorFiles
  <2>2. \A q \in Held(x) : RowOf(q)' = RowOf(q)
    BY <1>2, <1>4, HeldArePaths DEF RowOf
  <2> QED
    BY <1>0, <2>1, <2>2 DEF Mirrors
<1>11. Working'
  BY <1>0, <1>1, <1>2, <1>3, <1>5 DEF Working, IsWrite, Filed
<1>12. Syncing' /\ \A x \in Recipes : acked'[x] <= revs'
  BY <1>0, <1>1 DEF Syncing, Filed
<1> QED
  BY <1>6, <1>7, <1>8, <1>9, <1>10, <1>11, <1>12 DEF Filed

LEMMA CleanupFailsKeeps ==
    ASSUME SyncElsewhere = FALSE, Filed, CleanupFails
    PROVE  Filed'
<1>0. UNCHANGED <<file, row, sync, acked, deleted, revs>> /\ Writing("cleanup") /\ op' = Idle
      /\ strayed' = strayed \cup {op.id} /\ diverged' = diverged \cup {op.id}
  BY DEF CleanupFails
<1>1. op.id \in Recipes /\ sync.stage = "idle" /\ op.stage = "cleanup"
      /\ Idle.stage = "idle" /\ Idle.kind = "none"
  BY <1>0, WritingIs
<1>2. FilesTypeOK'
  BY <1>0, <1>1 DEF Filed, FilesTypeOK
<1>3. OneFilePerRecipe' /\ AckedIsKept' /\ DeletedStaysDeleted' /\ RowsMirrorFiles'
      /\ \A x \in Recipes : acked'[x] <= revs'
  BY <1>0, <1>1, <1>2, QuietKeeps DEF Filed, FilesTypeOK
<1>4. Working' /\ Syncing'
  BY <1>0, <1>1 DEF Working, IsWrite, Syncing
<1> QED
  BY <1>2, <1>3, <1>4 DEF Filed

LEMMA WriteRowKeeps ==
    ASSUME SyncElsewhere = FALSE, Filed, WriteRow
    PROVE  Filed'
<1>0. /\ Writing("row") /\ op' = Idle /\ UNCHANGED <<file, sync, strayed, deleted, revs>>
      /\ diverged' = diverged \ {op.id}
      /\ row' = [row EXCEPT ![op.id] = op.entry]
      /\ acked' = [acked EXCEPT ![op.id] = op.entry.rev]
  BY DEF WriteRow
<1>1. /\ op \in Writes /\ op # Idle /\ op.stage = "row" /\ op.kind \in {"create", "update"}
      /\ op.id \in Recipes /\ op.entry \in Rows /\ op.entry.at \in Paths /\ op.entry.rev = revs
      /\ revs \in Revs /\ sync.stage = "idle" /\ Content(op).id = op.id
      /\ Idle.stage = "idle" /\ Idle.kind = "none"
  BY <1>0, WritingIs
<1>2. PICK r \in Recipes, p \in Paths, e \in Rows : r = op.id /\ p = op.entry.at /\ e = op.entry
  BY <1>1
<1>3. /\ \A x : Held(x)' = Held(x)
      /\ \A q : RowOf(q)' = RowOf(q)
  BY <1>0, HeldSame
<1>4. FilesTypeOK /\ revs \in Nat /\ e.rev = revs /\ e # NoFile
  BY <1>1, <1>2, NoFileAssumption DEF Filed, Revs
<1>5. /\ \A x \in Recipes : row'[x] = IF x = r THEN e ELSE row[x]
      /\ \A x \in Recipes : acked'[x] = IF x = r THEN revs ELSE acked[x]
  BY <1>0, <1>1, <1>2, <1>4 DEF FilesTypeOK
<1>6. FilesTypeOK'
  BY <1>0, <1>1, <1>4 DEF FilesTypeOK
<1>7. /\ file[p] = Content(op) /\ p \in Held(r) /\ RowOf(p) = e
      /\ r \notin strayed => Held(r) = {p} /\ r \notin deleted
  <2>1. file[p] = Content(op) /\ (r \notin strayed => Held(r) = {p} /\ r \notin deleted)
    BY <1>1, <1>2 DEF Filed, Working, IsWrite
  <2>2. p \in Held(r)
    BY <1>0, <1>1, <1>2, <2>1, WritingIs DEF Held
  <2>3. file[p].rev = e.rev /\ file[p].life = e.life /\ p = e.at
    BY <1>2, <2>1 DEF Content
  <2>4. e = [rev |-> e.rev, life |-> e.life, at |-> e.at]
    BY DEF Rows
  <2> QED
    BY <2>1, <2>2, <2>3, <2>4 DEF RowOf
<1>8. OneFilePerRecipe'
  BY <1>0, <1>1, <1>3 DEF Filed, OneFilePerRecipe
<1>9. AckedIsKept'
  <2> SUFFICES ASSUME NEW x \in Recipes \ strayed, acked'[x] # 0
               PROVE  /\ \E q \in Held(x) : file[q].rev >= acked'[x]
                      /\ row'[x] # NoFile /\ row'[x].rev >= acked'[x]
    BY <1>0, <1>3 DEF AckedIsKept
  <2>1. CASE x = r
    <3>1. file[p].rev = revs
      BY <1>1, <1>2, <1>7, <2>1 DEF Content
    <3> QED
      BY <1>4, <1>5, <1>7, <2>1, <3>1
  <2>2. CASE x # r
    BY <1>5, <2>2 DEF Filed, AckedIsKept
  <2> QED
    BY <2>1, <2>2
<1>10. DeletedStaysDeleted'
  BY <1>0, <1>3, <1>4, <1>5, <1>7 DEF Filed, FilesTypeOK, DeletedStaysDeleted
<1>11. RowsMirrorFiles'
  <2> SUFFICES ASSUME NEW x \in Recipes \ (diverged' \cup (deleted \cap strayed))
               PROVE  Mirrors(x)'
    BY <1>0 DEF RowsMirrorFiles
  <2>1. CASE x = r
    BY <1>3, <1>5, <1>7, <2>1 DEF Mirrors
  <2>2. CASE x # r
    <3>1. Mirrors(x)
      BY <1>0, <1>2, <2>2 DEF Filed, RowsMirrorFiles
    <3> QED
      BY <1>3, <1>5, <2>2, <3>1 DEF Mirrors
  <2> QED
    BY <2>1, <2>2
<1>12. Working' /\ Syncing'
  BY <1>0, <1>1 DEF Working, IsWrite, Syncing
<1>13. \A x \in Recipes : acked'[x] <= revs'
  BY <1>0, <1>4, <1>5 DEF Filed
<1> QED
  BY <1>6, <1>8, <1>9, <1>10, <1>11, <1>12, <1>13 DEF Filed

-----------------------------------------------------------------------------
(* The deletion at work. *)
LEMMA RemovingIs ==
    ASSUME SyncElsewhere = FALSE, Filed, NEW stage \in {"file", "row"}, Removing(stage)
    PROVE  /\ op # Idle /\ op.stage = stage /\ op.kind = "delete" /\ op.id \in Recipes
           /\ op.at \in Paths /\ sync.stage = "idle"
           /\ Idle.stage = "idle" /\ Idle.kind = "none"
<1>1. op # Idle /\ op.stage = stage /\ op.kind = "delete" /\ op.id \in Recipes /\ op.at \in Paths
  BY OpCases DEF Removing, IsWrite, Filed
<1>2. sync.stage = "idle"
  BY DEF Removing, Undisturbed
<1>3. Idle.stage = "idle" /\ Idle.kind = "none"
  BY DEF Idle
<1> QED
  BY <1>1, <1>2, <1>3

LEMMA FoundIsHeld == Found \subseteq Held(op.id) /\ (Held(op.id) # {} => Found # {})
  BY DEF Found

LEMMA RemoveFileKeeps ==
    ASSUME SyncElsewhere = FALSE, Filed, RemoveFile
    PROVE  Filed'
<1>0. /\ Removing("file") /\ UNCHANGED <<row, sync, diverged, strayed, deleted, revs>>
      /\ op' = [kind |-> "delete", stage |-> "row", id |-> op.id, at |-> op.at]
      /\ acked' = [acked EXCEPT ![op.id] = 0]
  BY DEF RemoveFile
<1>1. /\ op # Idle /\ op.stage = "file" /\ op.kind = "delete" /\ op.id \in Recipes
      /\ op.at \in Paths /\ sync.stage = "idle"
  BY <1>0, RemovingIs
<1>2. PICK r \in Recipes : r = op.id
  BY <1>1
<1>3. op' \in Removals /\ op'.stage = "row" /\ op'.kind = "delete" /\ op'.id = r
  BY <1>0, <1>1, <1>2 DEF Removals
<1>4. /\ file' \in [Paths -> Files \cup {NoFile}]
      /\ Held(r)' \subseteq Held(r)
      /\ (\A a, b \in Held(r) : a = b) => Held(r)' = {}
      /\ \A x : x # r => Held(x)' = Held(x)
      /\ \A q \in Paths : q \notin Held(r) => file'[q] = file[q] /\ RowOf(q)' = RowOf(q)
  <2>1. CASE Found = {} /\ UNCHANGED file
    BY <1>2, <2>1, FoundIsHeld, HeldSame DEF Filed, FilesTypeOK
  <2>2. ASSUME NEW o \in Found, file' = Without(o)
        PROVE  /\ file' \in [Paths -> Files \cup {NoFile}]
               /\ Held(r)' \subseteq Held(r)
               /\ (\A a, b \in Held(r) : a = b) => Held(r)' = {}
               /\ \A x : x # r => Held(x)' = Held(x)
               /\ \A q \in Paths : q \notin Held(r) => file'[q] = file[q] /\ RowOf(q)' = RowOf(q)
    <3>1. o \in Held(r) /\ o \in Paths
      BY <1>2, FoundIsHeld, HeldArePaths
    <3>2. file' = [file EXCEPT ![o] = NoFile] /\ FilesTypeOK /\ NoFile \in Files \cup {NoFile}
      BY <2>2 DEF Without, Filed
    <3>3. /\ file' \in [Paths -> Files \cup {NoFile}]
          /\ \A x : Held(x)' = Held(x) \ {o}
          /\ \A q \in Paths \ {o} : file'[q] = file[q] /\ RowOf(q)' = RowOf(q)
      BY <3>1, <3>2, HeldChanges
    <3>4. \A x : x # r => o \notin Held(x)
      BY <3>1, HeldArePaths
    <3>5. \A x : x # r => Held(x)' = Held(x)
      BY <3>3, <3>4
    <3> QED
      BY <3>1, <3>3, <3>5
  <2> QED
    BY <2>1, <2>2 DEF RemoveFile
<1>5. r \notin strayed => Held(r)' = {} /\ r \notin deleted
  BY <1>1, <1>2, <1>4 DEF Filed, OneFilePerRecipe, Working
<1>6. FilesTypeOK /\ \A x \in Recipes : acked'[x] = IF x = r THEN 0 ELSE acked[x]
  BY <1>0, <1>2 DEF Filed, FilesTypeOK
<1>7. FilesTypeOK'
  BY <1>0, <1>3, <1>4, <1>6 DEF FilesTypeOK
<1>8. OneFilePerRecipe'
  BY <1>0, <1>1, <1>2, <1>4, <1>5 DEF Filed, OneFilePerRecipe
<1>9. AckedIsKept'
  <2> SUFFICES ASSUME NEW x \in Recipes \ strayed, acked'[x] # 0
               PROVE  /\ \E q \in Held(x)' : file'[q].rev >= acked'[x]
                      /\ row[x] # NoFile /\ row[x].rev >= acked'[x]
    BY <1>0 DEF AckedIsKept
  <2>1. x # r /\ acked'[x] = acked[x] /\ Held(x)' = Held(x)
    BY <1>4, <1>6
  <2>2. \A q \in Held(x) : file'[q] = file[q]
    BY <1>4, <2>1, HeldArePaths
  <2> QED
    BY <2>1, <2>2 DEF Filed, AckedIsKept
<1>10. DeletedStaysDeleted'
  BY <1>0, <1>4, <1>5 DEF Filed, DeletedStaysDeleted
<1>11. RowsMirrorFiles'
  <2> SUFFICES ASSUME NEW x \in Recipes \ (diverged \cup (deleted \cap strayed)), x # r
               PROVE  Mirrors(x)'
    BY <1>0, <1>3 DEF RowsMirrorFiles
  <2>1. Mirrors(x) /\ Held(x)' = Held(x)
    BY <1>1, <1>2, <1>4 DEF Filed, RowsMirrorFiles
  <2>2. \A q \in Held(x) : RowOf(q)' = RowOf(q)
    BY <1>4, HeldArePaths
  <2> QED
    BY <1>0, <2>1, <2>2 DEF Mirrors
<1>12. Working'
  BY <1>0, <1>3, <1>5, <1>6 DEF Working, IsWrite
<1>13. Syncing'
  BY <1>0, <1>1 DEF Syncing
<1>14. \A x \in Recipes : acked'[x] <= revs'
  BY <1>0, <1>6 DEF Filed, FilesTypeOK
<1> QED
  BY <1>7, <1>8, <1>9, <1>10, <1>11, <1>12, <1>13, <1>14 DEF Filed

LEMMA DeleteRowKeeps ==
    ASSUME SyncElsewhere = FALSE, Filed, DeleteRow
    PROVE  Filed'
<1>0. /\ Removing("row") /\ op' = Idle /\ UNCHANGED <<file, sync, strayed, acked, revs>>
      /\ row' = [row EXCEPT ![op.id] = NoFile]
      /\ deleted' = deleted \cup {op.id} /\ diverged' = diverged \ {op.id}
  BY DEF DeleteRow
<1>1. /\ op # Idle /\ op.stage = "row" /\ op.kind = "delete" /\ op.id \in Recipes
      /\ sync.stage = "idle" /\ Idle.stage = "idle" /\ Idle.kind = "none"
  BY <1>0, RemovingIs
<1>2. PICK r \in Recipes : r = op.id
  BY <1>1
<1>3. /\ \A x : Held(x)' = Held(x)
      /\ \A q : RowOf(q)' = RowOf(q)
  BY <1>0, HeldSame
<1>4. acked[r] = 0 /\ (r \notin strayed => Held(r) = {})
  BY <1>1, <1>2 DEF Filed, Working
<1>5. FilesTypeOK /\ \A x \in Recipes : row'[x] = IF x = r THEN NoFile ELSE row[x]
  BY <1>0, <1>2 DEF Filed, FilesTypeOK
<1>6. FilesTypeOK'
  BY <1>0, <1>1, <1>5 DEF FilesTypeOK
<1>7. OneFilePerRecipe'
  BY <1>0, <1>1, <1>3 DEF Filed, OneFilePerRecipe
<1>8. AckedIsKept'
  BY <1>0, <1>3, <1>4, <1>5 DEF Filed, AckedIsKept
<1>9. DeletedStaysDeleted'
  BY <1>0, <1>2, <1>3, <1>4, <1>5 DEF Filed, FilesTypeOK, DeletedStaysDeleted
<1>10. RowsMirrorFiles'
  <2> SUFFICES ASSUME NEW x \in Recipes \ (diverged' \cup (deleted' \cap strayed))
               PROVE  Mirrors(x)'
    BY <1>0 DEF RowsMirrorFiles
  <2>1. CASE x = r
    <3>1. x \in deleted'
      BY <1>0, <1>2, <2>1
    <3> QED
      BY <1>3, <1>4, <1>5, <2>1, <3>1 DEF Mirrors
  <2>2. CASE x # r
    <3>1. Mirrors(x)
      BY <1>0, <1>2, <2>2 DEF Filed, RowsMirrorFiles
    <3> QED
      BY <1>3, <1>5, <2>2, <3>1 DEF Mirrors
  <2> QED
    BY <2>1, <2>2
<1>11. Working' /\ Syncing' /\ \A x \in Recipes : acked'[x] <= revs'
  BY <1>0, <1>1 DEF Working, IsWrite, Syncing, Filed
<1> QED
  BY <1>6, <1>7, <1>8, <1>9, <1>10, <1>11 DEF Filed

-----------------------------------------------------------------------------
LEMMA RowFailsKeeps ==
    ASSUME SyncElsewhere = FALSE, Filed, RowFails
    PROVE  Filed'
<1>0. /\ op # Idle /\ op.stage = "row" /\ op' = Idle /\ diverged' = diverged \cup {op.id}
      /\ sync.stage = "idle" /\ UNCHANGED <<file, row, sync, strayed, acked, deleted, revs>>
  BY DEF RowFails, Undisturbed
<1>1. op.id \in Recipes /\ Idle.stage = "idle" /\ Idle.kind = "none"
  BY <1>0, OpCases DEF Filed, Idle
<1>2. FilesTypeOK'
  BY <1>0, <1>1 DEF Filed, FilesTypeOK
<1>3. OneFilePerRecipe' /\ AckedIsKept' /\ DeletedStaysDeleted' /\ RowsMirrorFiles'
      /\ \A x \in Recipes : acked'[x] <= revs'
  BY <1>0, <1>1, <1>2, QuietKeeps DEF Filed, FilesTypeOK
<1>4. Working' /\ Syncing'
  BY <1>0, <1>1 DEF Working, IsWrite, Syncing
<1> QED
  BY <1>2, <1>3, <1>4 DEF Filed

LEMMA CrashKeeps ==
    ASSUME SyncElsewhere = FALSE, Filed, ProcessDies
    PROVE  Filed'
<1>0. /\ op' = Idle /\ sync' = NoSync /\ UNCHANGED <<file, row, acked, deleted, revs>>
      /\ diverged' = IF op.stage \in {"cleanup", "row"} THEN diverged \cup {op.id} ELSE diverged
      /\ strayed' = IF op.stage = "cleanup" /\ Old # {} THEN strayed \cup {op.id} ELSE strayed
  BY DEF ProcessDies
<1>1. Idle.stage = "idle" /\ Idle.kind = "none" /\ NoSync.stage = "idle"
      /\ NoSync \in [stage : {"idle", "listing", "reading"}, todo : SUBSET Paths,
                     ids : SUBSET Recipes, refused : SUBSET Recipes]
  BY DEF Idle, NoSync
<1>2. op.stage \in {"row", "cleanup"} => op.id \in Recipes
  BY <1>1, OpCases DEF Filed
<1>3. FilesTypeOK'
  BY <1>0, <1>1, <1>2 DEF Filed, FilesTypeOK
<1>4. OneFilePerRecipe' /\ AckedIsKept' /\ DeletedStaysDeleted' /\ RowsMirrorFiles'
      /\ \A x \in Recipes : acked'[x] <= revs'
  BY <1>0, <1>1, <1>3, QuietKeeps DEF Filed, FilesTypeOK
<1>5. Working' /\ Syncing'
  BY <1>0, <1>1 DEF Working, IsWrite, Syncing
<1> QED
  BY <1>3, <1>4, <1>5 DEF Filed

-----------------------------------------------------------------------------
(* sync(), which nobody writes beside. *)
LEMMA ListingKeeps ==
    ASSUME SyncElsewhere = FALSE, Filed, SyncCandidates \/ SyncRecipes
    PROVE  Filed'
<1>0. UNCHANGED <<file, row, op, diverged, strayed, acked, deleted, revs>>
  BY DEF SyncCandidates, SyncRecipes
<1>1. /\ sync' \in [stage : {"idle", "listing", "reading"}, todo : SUBSET Paths,
                    ids : SUBSET Recipes, refused : SUBSET Recipes]
      /\ sync'.ids = {} /\ op.stage # "cleanup"
      /\ \/ sync'.stage = "listing" /\ sync'.todo = Present("candidates")
         \/ sync'.stage = "reading" /\ sync'.todo = Present("candidates") \cup Present("recipes")
  <2>1. Present("candidates") \in SUBSET Paths /\ Present("recipes") \in SUBSET Paths
    BY DEF Present
  <2>2. CASE SyncCandidates
    BY <2>1, <2>2 DEF SyncCandidates, NoSync
  <2>3. CASE SyncRecipes
    BY <2>1, <2>3 DEF SyncRecipes, Filed, FilesTypeOK, Syncing
  <2> QED
    BY <2>2, <2>3
<1>2. FilesTypeOK'
  BY <1>0, <1>1 DEF Filed, FilesTypeOK
<1>3. OneFilePerRecipe' /\ AckedIsKept' /\ DeletedStaysDeleted' /\ RowsMirrorFiles'
      /\ \A x \in Recipes : acked'[x] <= revs'
  BY <1>0, <1>2, QuietKeeps DEF Filed, FilesTypeOK
<1>4. Working'
  BY <1>0, HeldSame DEF Filed, Working, IsWrite, Content
<1>5. Syncing'
  <2>1. \A p \in Paths : p[1] \in {"candidates", "recipes"}
    BY DEF Paths, Areas
  <2> QED
    BY <1>0, <1>1, <2>1 DEF Syncing, Present
<1> QED
  BY <1>2, <1>3, <1>4, <1>5 DEF Filed

LEMMA SyncFileKeeps ==
    ASSUME SyncElsewhere = FALSE, Filed, NEW p \in Paths, SyncFile(p)
    PROVE  Filed'
<1> DEFINE met == IF file[p] = NoFile THEN {} ELSE {file[p].id}
<1>0. /\ sync.stage = "reading" /\ p \in sync.todo /\ op.stage # "cleanup" /\ FilesTypeOK
      /\ UNCHANGED <<file, op, diverged, strayed, acked, deleted, revs>>
  BY DEF SyncFile, Filed, Syncing
<1>1. PICK denied \in SUBSET met :
         /\ row' = [r \in Recipes |-> IF r \in met \ denied THEN RowOf(p) ELSE row[r]]
         /\ sync' = [sync EXCEPT !.todo = @ \ {p}, !.ids = @ \cup met,
                                 !.refused = @ \cup denied]
  BY DEF SyncFile
<1>2. /\ \A x : Held(x)' = Held(x)
      /\ \A q : RowOf(q)' = RowOf(q)
  BY <1>0, HeldSame
<1>3. /\ met \subseteq Recipes
      /\ \A r \in met : /\ p \in Held(r) /\ RowOf(p) \in Rows /\ RowOf(p) # NoFile
                        /\ RowOf(p).rev = file[p].rev
      /\ file[p] # NoFile => file[p].id \in met
  BY <1>0, NoFileAssumption DEF FilesTypeOK, Files, Held, RowOf, Rows
<1> HIDE DEF met
<1>4. /\ sync'.stage = "reading" /\ sync'.todo = sync.todo \ {p}
      /\ sync'.ids = sync.ids \cup met /\ sync'.refused = sync.refused \cup denied
      /\ sync' \in [stage : {"idle", "listing", "reading"}, todo : SUBSET Paths,
                    ids : SUBSET Recipes, refused : SUBSET Recipes]
  BY <1>0, <1>1, <1>3 DEF FilesTypeOK
<1>5. \A x \in Recipes : row'[x] = IF x \in met \ denied THEN RowOf(p) ELSE row[x]
  BY <1>1
<1>6. FilesTypeOK'
  <2>1. row' \in [Recipes -> Rows \cup {NoFile}]
    BY <1>0, <1>1, <1>3 DEF FilesTypeOK
  <2> QED
    BY <1>0, <1>4, <2>1 DEF FilesTypeOK
<1>7. OneFilePerRecipe'
  BY <1>0, <1>2 DEF Filed, OneFilePerRecipe
<1>8. AckedIsKept'
  <2> SUFFICES ASSUME NEW x \in Recipes \ strayed, acked[x] # 0
               PROVE  /\ \E q \in Held(x) : file[q].rev >= acked[x]
                      /\ row'[x] # NoFile /\ row'[x].rev >= acked[x]
    BY <1>0, <1>2 DEF AckedIsKept
  <2>1. /\ \E q \in Held(x) : file[q].rev >= acked[x]
        /\ row[x] # NoFile /\ row[x].rev >= acked[x]
    BY DEF Filed, AckedIsKept
  <2>2. CASE x \in met \ denied
    <3>1. \A q \in Held(x) : q = p
      BY <1>0, <1>3, <2>2 DEF Filed, OneFilePerRecipe
    <3> QED
      BY <1>3, <1>5, <2>1, <2>2, <3>1
  <2>3. CASE x \notin met \ denied
    BY <1>5, <2>1, <2>3
  <2> QED
    BY <2>2, <2>3
<1>9. DeletedStaysDeleted'
  BY <1>0, <1>2, <1>3, <1>5 DEF Filed, DeletedStaysDeleted, FilesTypeOK
<1>10. RowsMirrorFiles'
  <2> SUFFICES ASSUME NEW x \in Recipes \ (diverged \cup (deleted \cap strayed)),
                      op.stage \in {"idle", "file"} \/ op.id # x
               PROVE  Mirrors(x)'
    BY <1>0 DEF RowsMirrorFiles
  <2>1. Mirrors(x)
    BY DEF Filed, RowsMirrorFiles
  <2>2. CASE x \in met \ denied
    BY <1>2, <1>3, <1>5, <2>2 DEF Mirrors
  <2>3. CASE x \notin met \ denied
    BY <1>2, <1>5, <2>1, <2>3 DEF Mirrors
  <2> QED
    BY <2>2, <2>3
<1>11. Working' /\ \A x \in Recipes : acked'[x] <= revs'
  BY <1>0, <1>2 DEF Filed, Working, IsWrite, Content
<1>12. Syncing'
  <2>1. \A q \in Paths : file[q] # NoFile => q \in sync'.todo \/ file[q].id \in sync'.ids
    BY <1>0, <1>3, <1>4 DEF Filed, Syncing
  <2>2. ASSUME NEW x \in sync'.ids \ sync'.refused PROVE \E q \in Held(x) : row'[x] = RowOf(q)
    <3>1. x \in Recipes
      BY <1>4
    <3>2. CASE x \in met
      BY <1>3, <1>4, <1>5, <2>2, <3>1, <3>2
    <3>3. CASE x \notin met
      BY <1>0, <1>4, <1>5, <2>2, <3>1, <3>3 DEF Filed, Syncing
    <3> QED
      BY <3>2, <3>3
  <2> QED
    BY <1>0, <1>2, <1>4, <2>1, <2>2 DEF Syncing
<1> QED
  BY <1>6, <1>7, <1>8, <1>9, <1>10, <1>11, <1>12 DEF Filed

(* The end of sync(): a recipe it met in no file has none, and every row   *)
(* is what a file says, or that of an orphan, but where the database       *)
(* refused.                                                                *)
LEMMA OrphansRepair ==
    ASSUME Filed, NEW denied \in SUBSET Unmet, DeprecateUnmet(denied)
    PROVE  /\ \A r \in Recipes \ sync.ids : Held(r) = {}
           /\ \A r \in Recipes \ (sync.refused \cup denied) : Mirrors(r)'
           /\ \A r \in Recipes : Mirrors(r) => Mirrors(r)'
<1>1. sync.stage = "reading" /\ sync.todo = {} /\ file' = file
  BY DEF DeprecateUnmet
<1>2. row' = [r \in Recipes |-> IF r \in Unmet \ denied THEN Deprecated(row[r]) ELSE row[r]]
  BY DEF DeprecateUnmet
<1>3. /\ \A x : Held(x)' = Held(x)
      /\ \A q : RowOf(q)' = RowOf(q)
  BY <1>1, HeldSame
<1>4. ASSUME NEW r \in Recipes \ sync.ids PROVE Held(r) = {}
  BY <1>1, <1>4, HeldArePaths DEF Filed, Syncing
<1>5. ASSUME NEW r \in Recipes \ (sync.refused \cup denied) PROVE Mirrors(r)'
  <2>1. CASE r \in sync.ids
    <3>1. \E p \in Held(r) : row[r] = RowOf(p)
      BY <1>1, <2>1 DEF Filed, Syncing
    <3>2. row'[r] = row[r]
      BY <1>2, <2>1 DEF Unmet
    <3> QED
      BY <1>3, <3>1, <3>2 DEF Mirrors
  <2>2. CASE r \notin sync.ids
    <3>1. Held(r) = {}
      BY <1>4, <2>2
    <3>2. CASE r \in Unmet
      BY <1>2, <1>3, <3>1, <3>2 DEF Mirrors, Deprecated
    <3>3. CASE r \notin Unmet
      BY <1>2, <1>3, <2>2, <3>1, <3>3 DEF Mirrors, Unmet
    <3> QED
      BY <3>2, <3>3
  <2> QED
    BY <2>1, <2>2
<1>6. ASSUME NEW r \in Recipes, Mirrors(r) PROVE Mirrors(r)'
  <2>1. CASE r \in Unmet \ denied
    <3>1. Held(r) = {}
      BY <1>4, <2>1 DEF Unmet
    <3> QED
      BY <1>2, <1>3, <2>1, <3>1 DEF Mirrors, Deprecated
  <2>2. CASE r \notin Unmet \ denied
    BY <1>2, <1>3, <1>6, <2>2 DEF Mirrors
  <2> QED
    BY <2>1, <2>2
<1> QED
  BY <1>4, <1>5, <1>6

LEMMA SyncOrphansKeeps ==
    ASSUME SyncElsewhere = FALSE, Filed, SyncOrphans
    PROVE  Filed'
<1> PICK denied \in SUBSET Unmet : DeprecateUnmet(denied)
  BY DEF SyncOrphans
<1>0. /\ sync.stage = "reading" /\ op.stage # "cleanup" /\ sync' = NoSync /\ FilesTypeOK
      /\ UNCHANGED <<file, op, strayed, acked, deleted, revs>>
  BY DEF DeprecateUnmet, Filed, Syncing
<1>1. /\ row' = [r \in Recipes |-> IF r \in Unmet \ denied THEN Deprecated(row[r]) ELSE row[r]]
      /\ diverged' = diverged \cap (sync.refused \cup denied)
  BY DEF DeprecateUnmet
<1>2. /\ \A x : Held(x)' = Held(x)
      /\ \A q : RowOf(q)' = RowOf(q)
  BY <1>0, HeldSame
<1>3. \A d \in Rows : Deprecated(d) \in Rows /\ Deprecated(d).rev = d.rev
                      /\ Deprecated(d).life = "deprecated"
  BY DEF Deprecated, Rows, Lives
<1>4. ASSUME NEW r \in Recipes
      PROVE  /\ row'[r] \in Rows \cup {NoFile}
             /\ row[r] = NoFile <=> row'[r] = NoFile
             /\ row[r] # NoFile => row'[r].rev = row[r].rev
  BY <1>0, <1>1, <1>3, NoFileAssumption DEF FilesTypeOK, Unmet
<1>5. NoSync.stage = "idle"
      /\ NoSync \in [stage : {"idle", "listing", "reading"}, todo : SUBSET Paths,
                     ids : SUBSET Recipes, refused : SUBSET Recipes]
  BY DEF NoSync
<1>6. FilesTypeOK'
  <2>1. row' \in [Recipes -> Rows \cup {NoFile}]
    BY <1>1, <1>4
  <2> QED
    BY <1>0, <1>1, <1>5, <2>1 DEF FilesTypeOK
<1>7. OneFilePerRecipe' /\ AckedIsKept' /\ DeletedStaysDeleted'
  <2>1. OneFilePerRecipe'
    BY <1>0, <1>2 DEF Filed, OneFilePerRecipe
  <2>2. AckedIsKept'
    BY <1>0, <1>2, <1>4 DEF Filed, AckedIsKept
  <2>3. DeletedStaysDeleted'
    BY <1>0, <1>2, <1>4 DEF Filed, FilesTypeOK, DeletedStaysDeleted
  <2> QED
    BY <2>1, <2>2, <2>3
<1>8. RowsMirrorFiles'
  <2> SUFFICES ASSUME NEW r \in Recipes \ (diverged' \cup (deleted \cap strayed)),
                      op.stage \in {"idle", "file"} \/ op.id # r
               PROVE  Mirrors(r)'
    BY <1>0 DEF RowsMirrorFiles
  <2>1. CASE r \notin diverged
    BY <2>1, OrphansRepair DEF Filed, RowsMirrorFiles
  <2>2. CASE r \in diverged
    <3>1. r \notin sync.refused /\ r \notin denied
      BY <1>1, <2>2
    <3> QED
      BY <3>1, OrphansRepair
  <2> QED
    BY <2>1, <2>2
<1>9. Working' /\ \A x \in Recipes : acked'[x] <= revs'
  BY <1>0, <1>2 DEF Filed, Working, IsWrite, Content
<1>10. Syncing'
  BY <1>0, <1>5 DEF Syncing
<1> QED
  BY <1>6, <1>7, <1>8, <1>9, <1>10 DEF Filed

-----------------------------------------------------------------------------
LEMMA FilesStepKeeps ==
    ASSUME SyncElsewhere = FALSE, Filed, [FilesNext]_filesVars
    PROVE  Filed'
<1>1. CASE UNCHANGED filesVars
  <2>1. UNCHANGED <<file, row, op, sync, diverged, strayed, acked, deleted, revs>>
    BY <1>1 DEF filesVars
  <2>2. FilesTypeOK'
    BY <2>1 DEF Filed, FilesTypeOK
  <2>3. OneFilePerRecipe' /\ AckedIsKept' /\ DeletedStaysDeleted' /\ RowsMirrorFiles'
        /\ \A x \in Recipes : acked'[x] <= revs'
    BY <2>1, <2>2, QuietKeeps DEF Filed, FilesTypeOK
  <2>4. Working' /\ Syncing'
    BY <2>1, HeldSame DEF Filed, Working, IsWrite, Content, Syncing
  <2> QED
    BY <2>2, <2>3, <2>4 DEF Filed
<1>2. CASE FilesNext
  <2>1. ASSUME FileFails PROVE Filed'
    BY <2>1, FileFailsKeeps DEF FileFails
  <2> QED
    BY <1>2, <2>1, BeginsKeep, DeleteKeeps, WriteFileKeeps, WriteFileUnsureKeeps, CleanupKeeps,
     CleanupFailsKeeps, WriteRowKeeps, RemoveFileKeeps, DeleteRowKeeps, RowFailsKeeps, CrashKeeps, ListingKeeps, SyncFileKeeps,
     SyncOrphansKeeps DEF FilesNext
<1> QED
  BY <1>1, <1>2

(* Files, rows, writes and sync() agree in every state. *)
THEOREM FiledAlways == ASSUME SyncElsewhere = FALSE PROVE FilesSpec => []Filed
<1>1. FilesInit => Filed
  BY FilesInitially
<1>2. Filed /\ [FilesNext]_filesVars => Filed'
  BY FilesStepKeeps
<1> QED
  BY <1>1, <1>2, PTL DEF FilesSpec

(* Files, rows and the operations at work have their types. *)
THEOREM FilesTyped == ASSUME SyncElsewhere = FALSE PROVE FilesSpec => []FilesTypeOK
<1>1. Filed => FilesTypeOK
  BY DEF Filed
<1> QED
  BY <1>1, FiledAlways, PTL

(* A recipe has one file, but while persist() moves it; a second one stays *)
(* only from a move that was cut short, or from a write before a file that *)
(* is elsewhere than its row says was synchronised.                        *)
THEOREM OneFile == ASSUME SyncElsewhere = FALSE PROVE FilesSpec => []OneFilePerRecipe
<1>1. Filed => OneFilePerRecipe
  BY DEF Filed
<1> QED
  BY <1>1, FiledAlways, PTL

(* Of a recipe that was not left with a second file, no acknowledged write *)
(* is lost to another recipe, a crash, a refused file or row, or a sync(), *)
(* as long as writes do not overlap.                                       *)
THEOREM AckedStays == ASSUME SyncElsewhere = FALSE PROVE FilesSpec => []AckedIsKept
<1>1. Filed => AckedIsKept
  BY DEF Filed
<1> QED
  BY <1>1, FiledAlways, PTL

(* No sync() revives what was deleted, unless it had a second file when it *)
(* was: the deletion removes one, and the other comes back.  As long as    *)
(* writes do not overlap.                                                  *)
THEOREM DeletedStays == ASSUME SyncElsewhere = FALSE PROVE FilesSpec => []DeletedStaysDeleted
<1>1. Filed => DeletedStaysDeleted
  BY DEF Filed
<1> QED
  BY <1>1, FiledAlways, PTL

(* Between writes that do not overlap the rows say what a file says, but   *)
(* for the recipes of a refused row, a crash, or a write that failed when  *)
(* its file had its name, until they are written or synchronised again,    *)
(* and for those deleted with a second file.                               *)
THEOREM RowsMirror == ASSUME SyncElsewhere = FALSE PROVE FilesSpec => []RowsMirrorFiles
<1>1. Filed => RowsMirrorFiles
  BY DEF Filed
<1> QED
  BY <1>1, FiledAlways, PTL

(* sync() repairs every divergence, that of a move that was cut short too, *)
(* but of the recipes whose row the database refused to write or to        *)
(* deprecate, which it logs and returns.                                   *)
THEOREM SyncIsRepair == ASSUME SyncElsewhere = FALSE PROVE FilesSpec => SyncRepairs
<1>1. Filed /\ [FilesNext]_filesVars
       => [\A denied \in SUBSET Unmet : DeprecateUnmet(denied) =>
              \A r \in Recipes \ (sync.refused \cup denied) : Mirrors(r)']_filesVars
  BY OrphansRepair
<1> QED
  BY <1>1, FiledAlways, PTL DEF SyncRepairs, FilesSpec

-----------------------------------------------------------------------------
(* The sessions.                                                           *)

OneManager == \A m, n \in Managers : m = n

Backed(i, map) ==
    LET s == map[lease[i].project] IN
    /\ s # NoSession /\ s.id = i
    /\ lease[i].told \subseteq s.done /\ s.done \subseteq lease[i].tried
    /\ lease[i].expires <= s.expires

(* A map has a session once, and none that was not created. *)
Sound(map) ==
    /\ \A p \in Projects : map[p] # NoSession => map[p].id <= born
    /\ \A p, q \in Projects :
          map[p] # NoSession /\ map[q] # NoSession /\ map[p].id = map[q].id => p = q

(* What the call at work will tell its host is in the memory. *)
Granting(m, a) ==
    /\ known[m][a.project] = [id |-> a.id, done |-> {}, expires |-> a.expires]
    /\ clock <= a.expires /\ a.id <= born /\ a.id \notin old[m] /\ lease[a.id] = NoSession
    /\ \A j \in SessionIds : Live(j) => lease[j].project # a.project
Updating(m, a) ==
    Live(a.id) => /\ a.done \subseteq known[m][lease[a.id].project].done
                  /\ a.expires <= known[m][lease[a.id].project].expires
Truthful(m) ==
    doing[m] = "saving" /\ asked[m].id # 0 =>
        IF asked[m].project # NoSession THEN Granting(m, asked[m]) ELSE Updating(m, asked[m])

LeasesRun == \A i \in SessionIds :
                lease[i] # NoSession => i <= born /\ clock <= lease[i].expires
FileSound == sessionsFile # NoSession => Sound(sessionsFile)
ManagerSound(m) == Sound(known[m]) /\ (\A i \in old[m] : i <= born) /\ Truthful(m)
LiveIn(m, i) == i \notin old[m] /\ (doing[m] # "down" => Backed(i, known[m]))
LiveBacked == \A i \in SessionIds : Live(i) =>
                 /\ sessionsFile # NoSession /\ Backed(i, sessionsFile)
                 /\ \A m \in Managers : LiveIn(m, i)

SessionInv == /\ SessionsTypeOK /\ LeasesRun /\ FileSound /\ LiveBacked
              /\ \A m \in Managers : ManagerSound(m)

LEMMA NewIsNot ==
    /\ \A i \in SessionIds, d \in SUBSET Dimensions, e \in Nat :
          [id |-> i, done |-> d, expires |-> e] # NoSession
    /\ \A s \in SessionRecords : s # NoSession
    /\ \A l \in Agreements : l # NoSession
    /\ \A map \in Maps : map # NoSession
    /\ \A p \in Projects : p # NoSession
  BY NoSessionAssumption DEF SessionRecords

-----------------------------------------------------------------------------
LEMMA SessionsInitially == SessionsInit => SessionInv
<1> SUFFICES ASSUME SessionsInit PROVE SessionInv
  OBVIOUS
<1>1. SessionsTypeOK
  BY SessionsAssumption DEF SessionsInit, SessionsTypeOK, Maps, EmptyMap, NoAnswer, Answers
<1>2. \A i \in SessionIds : lease[i] = NoSession
  BY DEF SessionsInit
<1>3. \A m \in Managers : known[m] = EmptyMap /\ doing[m] = "down" /\ old[m] = {}
  BY DEF SessionsInit
<1>4. LeasesRun /\ LiveBacked
  BY <1>2 DEF LeasesRun, LiveBacked, Live
<1>5. FileSound
  BY DEF SessionsInit, FileSound
<1>6. \A m \in Managers : ManagerSound(m)
  BY <1>3 DEF ManagerSound, Sound, EmptyMap, Truthful
<1> QED
  BY <1>1, <1>4, <1>5, <1>6 DEF SessionInv

(* What a manager that loads has: the file if there is one. *)
LEMMA LoadsWell ==
    ASSUME SessionInv, NEW m \in Managers
    PROVE  /\ Loaded(m) \in Maps /\ Sound(Loaded(m))
           /\ \A i \in SessionIds : Live(i) => Backed(i, Loaded(m))
<1>1. Loaded(m) \in Maps
  BY DEF SessionInv, SessionsTypeOK, Loaded
<1>2. Sound(Loaded(m))
  BY DEF SessionInv, FileSound, ManagerSound, Loaded
<1>3. \A i \in SessionIds : Live(i) => Backed(i, Loaded(m))
  BY DEF SessionInv, LiveBacked, Loaded
<1> QED
  BY <1>1, <1>2, <1>3

(* A live session that is in a map is not among what it drops. *)
LEMMA BackedStays ==
    ASSUME SessionInv, NEW m \in Managers, NEW map \in Maps, NEW i \in SessionIds,
           lease[i] # NoSession, Backed(i, map)
    PROVE  i \notin Dropped(known[m], map)
<1>1. lease[i].project \in Projects
  BY DEF SessionInv, SessionsTypeOK, Agreements
<1> QED
  BY <1>1 DEF Dropped, IdsOf, Backed

LEMMA IdsAreBorn ==
    ASSUME SessionInv, NEW m \in Managers, NEW map
    PROVE  /\ Dropped(known[m], map) \subseteq SessionIds
           /\ \A i \in Dropped(known[m], map) : i <= born
<1>1. known[m] \in Maps
  BY DEF SessionInv, SessionsTypeOK
<1>2. Sound(known[m])
  BY DEF SessionInv, ManagerSound
<1> QED
  BY <1>1, <1>2 DEF Dropped, IdsOf, Sound, Maps, SessionRecords

(* With one manager, the invariant after a step of it. *)
LEMMA OneKeeps ==
    ASSUME OneManager, NEW m \in Managers, SessionsTypeOK', LeasesRun', FileSound',
           ManagerSound(m)',
           \A i \in SessionIds : Live(i)' => /\ sessionsFile' # NoSession
                                             /\ Backed(i, sessionsFile)' /\ LiveIn(m, i)'
    PROVE  SessionInv'
<1>1. \A n \in Managers : n = m
  BY DEF OneManager
<1>2. LiveBacked'
  BY <1>1 DEF LiveBacked
<1>3. \A n \in Managers : ManagerSound(n)'
  BY <1>1
<1> QED
  BY <1>2, <1>3 DEF SessionInv

(* A map that a manager takes over. *)
LEMMA BecomesTyped ==
    ASSUME SessionInv, NEW m \in Managers, NEW map \in Maps, Becomes(m, map)
    PROVE  /\ known' \in [Managers -> Maps] /\ known'[m] = map
           /\ old' \in [Managers -> SUBSET SessionIds]
           /\ old'[m] = old[m] \cup Dropped(known[m], map)
<1>1. Dropped(known[m], map) \subseteq SessionIds
  BY IdsAreBorn
<1>2. /\ known \in [Managers -> Maps] /\ known' = [known EXCEPT ![m] = map]
      /\ old \in [Managers -> SUBSET SessionIds]
      /\ old' = [old EXCEPT ![m] = old[m] \cup Dropped(known[m], map)]
  BY DEF SessionInv, SessionsTypeOK, Becomes
<1> HIDE DEF Maps, SessionIds, Dropped
<1> QED
  BY <1>1, <1>2

-----------------------------------------------------------------------------
LEMMA OpenKeeps ==
    ASSUME SessionInv, OneManager, NEW m \in Managers, OpenManager(m)
    PROVE  SessionInv'
<1>1. /\ doing[m] = "down" /\ doing' = [doing EXCEPT ![m] = "idle"]
      /\ known' = [known EXCEPT ![m] = Loaded(m)]
      /\ UNCHANGED <<sessionsFile, asked, old, born, clock, lease>>
  BY DEF OpenManager
<1>2. Loaded(m) \in Maps
  BY LoadsWell
<1>3. SessionsTypeOK' /\ known'[m] = Loaded(m) /\ doing'[m] = "idle"
  BY <1>1, <1>2 DEF SessionInv, SessionsTypeOK
<1>4. LeasesRun' /\ FileSound'
  BY <1>1 DEF SessionInv, LeasesRun, FileSound, Sound
<1>5. ManagerSound(m)'
  BY <1>1, <1>3, LoadsWell DEF SessionInv, ManagerSound, Truthful, Sound
<1>6. ASSUME NEW i \in SessionIds, Live(i)'
      PROVE  sessionsFile' # NoSession /\ Backed(i, sessionsFile)' /\ LiveIn(m, i)'
  <2>1. Live(i)
    BY <1>1, <1>6 DEF Live
  <2>2. sessionsFile # NoSession /\ Backed(i, sessionsFile) /\ i \notin old[m]
        /\ Backed(i, Loaded(m))
    BY <2>1, LoadsWell DEF SessionInv, LiveBacked, LiveIn
  <2> QED
    BY <1>1, <1>3, <2>2 DEF Backed, LiveIn
<1> QED
  BY <1>3, <1>4, <1>5, <1>6, OneKeeps

LEMMA RefuseKeeps ==
    ASSUME SessionInv, OneManager, NEW m \in Managers, NEW p \in Projects, RefuseSession(m, p)
    PROVE  SessionInv'
<1>1. /\ doing[m] = "idle" /\ Becomes(m, Loaded(m))
      /\ UNCHANGED <<sessionsFile, doing, asked, born, clock, lease>>
  BY DEF RefuseSession
<1>2. Loaded(m) \in Maps
  BY LoadsWell
<1>3. /\ known' \in [Managers -> Maps] /\ known'[m] = Loaded(m)
      /\ old' \in [Managers -> SUBSET SessionIds]
      /\ old'[m] = old[m] \cup Dropped(known[m], Loaded(m))
  BY <1>1, <1>2, BecomesTyped
<1>4. SessionsTypeOK'
  BY <1>1, <1>3 DEF SessionInv, SessionsTypeOK
<1>5. LeasesRun' /\ FileSound'
  BY <1>1 DEF SessionInv, LeasesRun, FileSound, Sound
<1>6. ManagerSound(m)'
  <2>1. \A i \in old'[m] : i <= born'
    BY <1>1, <1>3, IdsAreBorn DEF SessionInv, ManagerSound
  <2> QED
    BY <1>1, <1>3, <2>1, LoadsWell DEF ManagerSound, Truthful, Sound
<1>7. ASSUME NEW i \in SessionIds, Live(i)'
      PROVE  sessionsFile' # NoSession /\ Backed(i, sessionsFile)' /\ LiveIn(m, i)'
  <2>1. Live(i)
    BY <1>1, <1>7 DEF Live
  <2>2. sessionsFile # NoSession /\ Backed(i, sessionsFile) /\ i \notin old[m]
        /\ Backed(i, Loaded(m))
    BY <2>1, LoadsWell DEF SessionInv, LiveBacked, LiveIn
  <2>3. i \notin Dropped(known[m], Loaded(m))
    BY <1>2, <2>1, <2>2, BackedStays DEF Live
  <2> QED
    BY <1>1, <1>3, <2>2, <2>3 DEF Backed, LiveIn
<1> QED
  BY <1>4, <1>5, <1>6, <1>7, OneKeeps

(* A live session keeps others from its project, unless they replace it.   *)
LEMMA CreateKeeps ==
    ASSUME SessionInv, OneManager, NEW m \in Managers, NEW p \in Projects,
           NEW replace \in BOOLEAN, CreateSession(m, p, replace)
    PROVE  SessionInv'
<1> DEFINE new == NewSession(m, p)
           map == [Loaded(m) EXCEPT ![p] = new]
<1>1. /\ doing[m] = "idle" /\ born < MaxSessions /\ Becomes(m, map)
      /\ Blocking(Loaded(m)[p]) => replace
      /\ born' = born + 1
      /\ lease' = Relying(IF replace THEN LeasesOf(p) ELSE {})
      /\ doing' = [doing EXCEPT ![m] = "saving"]
      /\ asked' = [asked EXCEPT ![m] = [id |-> born + 1, project |-> p, done |-> {},
                                        expires |-> clock + Ttl]]
      /\ UNCHANGED <<sessionsFile, clock>>
  BY DEF CreateSession, Saves
<1>2. Loaded(m) \in Maps /\ Sound(Loaded(m))
  BY LoadsWell
<1>3. /\ born \in Nat /\ born + 1 \in SessionIds /\ clock \in Nat /\ clock + Ttl \in Nat
      /\ new = [id |-> born + 1, done |-> {}, expires |-> clock + Ttl]
      /\ new \in SessionRecords /\ new # NoSession
  <2>1. born \in 0..MaxSessions /\ clock \in 0..MaxClock
    BY DEF SessionInv, SessionsTypeOK
  <2>2. new \in SessionRecords
    BY <1>1, <2>1, SessionsAssumption DEF NewSession, SessionRecords, SessionIds, Ttl
  <2> QED
    BY <1>1, <2>1, <2>2, NewIsNot, SessionsAssumption DEF NewSession, SessionIds, Ttl
<1>4. map \in Maps
  BY <1>2, <1>3 DEF Maps
<1>5. /\ known' \in [Managers -> Maps] /\ known'[m] = map
      /\ old' \in [Managers -> SUBSET SessionIds]
      /\ old'[m] = old[m] \cup Dropped(known[m], map)
  BY <1>1, <1>4, BecomesTyped
<1>6. /\ lease' \in [SessionIds -> Agreements \cup {NoSession}]
      /\ \A i \in SessionIds : lease'[i] # NoSession =>
            /\ lease'[i] = lease[i]
            /\ replace => lease[i].project # p
  BY <1>1 DEF SessionInv, SessionsTypeOK, Relying, LeasesOf
<1>7. /\ doing' \in [Managers -> {"down", "idle", "saving"}] /\ doing'[m] = "saving"
      /\ asked' \in [Managers -> Answers]
      /\ asked'[m] = [id |-> born + 1, project |-> p, done |-> {}, expires |-> clock + Ttl]
  BY <1>1, <1>3 DEF SessionInv, SessionsTypeOK, Answers
<1>8. SessionsTypeOK'
  BY <1>1, <1>3, <1>5, <1>6, <1>7, SessionsAssumption DEF SessionInv, SessionsTypeOK, SessionIds
<1>9. LeasesRun' /\ FileSound'
  <2>1. LeasesRun'
    BY <1>1, <1>3, <1>6 DEF SessionInv, LeasesRun, SessionIds
  <2>2. ASSUME sessionsFile # NoSession PROVE Sound(sessionsFile)'
    <3>1. \A q \in Projects : sessionsFile[q] # NoSession =>
             sessionsFile[q].id \in Nat /\ sessionsFile[q].id <= born
      BY <2>2 DEF SessionInv, FileSound, Sound, SessionsTypeOK, Maps, SessionRecords, SessionIds
    <3>2. \A q \in Projects : sessionsFile[q] # NoSession => sessionsFile[q].id <= born + 1
      BY <1>3, <3>1
    <3> QED
      BY <1>1, <2>2, <3>2 DEF SessionInv, FileSound, Sound
  <2> QED
    BY <1>1, <2>1, <2>2 DEF FileSound
<1>10. \A i \in SessionIds : Live(i)' =>
          Live(i) /\ lease'[i] = lease[i] /\ lease[i].project \in Projects /\ lease[i].project # p
  <2> SUFFICES ASSUME NEW i \in SessionIds, Live(i)'
               PROVE  /\ Live(i) /\ lease'[i] = lease[i]
                      /\ lease[i].project \in Projects /\ lease[i].project # p
    OBVIOUS
  <2>1. lease'[i] = lease[i] /\ Live(i) /\ (replace => lease[i].project # p)
    BY <1>6 DEF Live
  <2>2. lease[i].project \in Projects /\ lease[i].tried \subseteq Dimensions
    BY <2>1 DEF Live, SessionInv, SessionsTypeOK, Agreements
  <2>3. ASSUME lease[i].project = p PROVE Blocking(Loaded(m)[p])
    <3>1. Backed(i, Loaded(m)) /\ clock <= lease[i].expires
      BY <2>1, LoadsWell DEF SessionInv, LeasesRun, Live
    <3>2. Loaded(m)[p] \in SessionRecords /\ lease[i].expires \in Nat
      BY <1>2, <2>1, <2>3, <3>1 DEF Backed, Maps, Live, SessionInv, SessionsTypeOK, Agreements
    <3> DEFINE s == Loaded(m)[p]
    <3>3. /\ s # NoSession /\ s.done \subseteq lease[i].tried /\ lease[i].expires <= s.expires
          /\ s.expires \in Nat
      BY <2>3, <3>1, <3>2 DEF Backed, SessionRecords
    <3>4. clock <= s.expires
      BY <1>3, <3>1, <3>2, <3>3
    <3>5. s.done # Dimensions
      BY <2>1, <2>2, <3>3 DEF Live
    <3> QED
      BY <3>3, <3>4, <3>5 DEF Blocking
  <2> QED
    BY <1>1, <2>1, <2>2, <2>3
<1>11. Sound(known[m])'
  <2>1. \A q \in Projects : q # p => map[q] = Loaded(m)[q]
    BY <1>2 DEF Maps
  <2>2. map[p] = new
    BY <1>2 DEF Maps
  <2>3. \A q \in Projects : Loaded(m)[q] # NoSession =>
           Loaded(m)[q].id \in Nat /\ Loaded(m)[q].id <= born
    BY <1>2 DEF Sound, Maps, SessionRecords, SessionIds
  <2>4. \A q \in Projects : map[q] # NoSession =>
           map[q].id <= born' /\ (q # p => map[q].id # map[p].id)
    <3> HIDE DEF map, new
    <3> QED
      BY <1>1, <1>3, <2>1, <2>2, <2>3
  <2>5. \A q, r \in Projects : map[q] # NoSession /\ map[r] # NoSession
                               /\ map[q].id = map[r].id => q = r
    <3>1. \A q, r \in Projects : q # p /\ r # p /\ map[q] # NoSession /\ map[r] # NoSession
                               /\ map[q].id = map[r].id => q = r
      BY <1>2, <2>1 DEF Sound
    <3> HIDE DEF map
    <3> QED
      BY <2>4, <3>1
  <2> HIDE DEF map, new
  <2> QED
    BY <1>5, <2>4, <2>5 DEF Sound
<1>12. ManagerSound(m)'
  <2>1. \A i \in old'[m] : i <= born /\ i <= born'
    BY <1>1, <1>3, <1>5, IdsAreBorn DEF SessionInv, ManagerSound, SessionsTypeOK, SessionIds
  <2>2. known'[m][p] = [id |-> born + 1, done |-> {}, expires |-> clock + Ttl]
    BY <1>2, <1>3, <1>5 DEF Maps
  <2>3. lease'[born + 1] = NoSession
    BY <1>3, <1>6 DEF SessionInv, LeasesRun
  <2>4. Granting(m, asked[m])'
    <3>1. clock' <= clock + Ttl /\ born + 1 <= born' /\ born + 1 \notin old'[m]
      BY <1>1, <1>3, <2>1 DEF Ttl
    <3>2. \A i \in SessionIds : Live(i)' => lease'[i].project # p
      BY <1>10
    <3> QED
      BY <1>7, <2>2, <2>3, <3>1, <3>2 DEF Granting
  <2> QED
    BY <1>7, <1>11, <2>1, <2>4, NewIsNot DEF ManagerSound, Truthful
<1>13. ASSUME NEW i \in SessionIds, Live(i)'
       PROVE  sessionsFile' # NoSession /\ Backed(i, sessionsFile)' /\ LiveIn(m, i)'
  <2>1. /\ Live(i) /\ lease'[i] = lease[i]
        /\ lease[i].project \in Projects /\ lease[i].project # p
    BY <1>10, <1>13
  <2>2. sessionsFile # NoSession /\ Backed(i, sessionsFile) /\ i \notin old[m]
        /\ Backed(i, Loaded(m))
    BY <2>1, LoadsWell DEF SessionInv, LiveBacked, LiveIn
  <2>3. map[lease[i].project] = Loaded(m)[lease[i].project]
    BY <1>2, <2>1 DEF Maps
  <2>4. Backed(i, map)
    BY <2>2, <2>3 DEF Backed
  <2>5. i \notin Dropped(known[m], map)
    BY <1>4, <2>1, <2>4, BackedStays DEF Live
  <2> HIDE DEF map
  <2> QED
    BY <1>1, <1>5, <2>1, <2>2, <2>4, <2>5 DEF Backed, LiveIn
<1> QED
  BY <1>8, <1>9, <1>12, <1>13, OneKeeps

(* A call on an object: the hosts' leases learn what it tries, the map of  *)
(* the manager gets it if it has the object.                               *)
Tries(i, d) == /\ lease' \in [SessionIds -> Agreements \cup {NoSession}]
               /\ \A j \in SessionIds :
                     /\ lease'[j] = NoSession <=> lease[j] = NoSession
                     /\ lease[j] # NoSession =>
                           /\ lease'[j].project = lease[j].project
                           /\ lease'[j].told = lease[j].told
                           /\ lease'[j].expires = lease[j].expires
                           /\ lease'[j].tried = IF j = i THEN lease[j].tried \cup d
                                                ELSE lease[j].tried
Learns(m, p, i, d, e) ==
    /\ HasSession(m, p, i)
    /\ \A q \in Projects : q # p => known'[m][q] = known[m][q]
    /\ known'[m][p] # NoSession /\ known'[m][p].id = i
    /\ known'[m][p].done = known[m][p].done \cup d
    /\ known[m][p].expires <= known'[m][p].expires /\ e <= known'[m][p].expires

LEMMA CallKeeps ==
    ASSUME SessionInv, OneManager, NEW m \in Managers, NEW i \in SessionIds,
           NEW d \in SUBSET Dimensions, NEW e \in Nat,
           doing[m] = "idle", known' \in [Managers -> Maps], Tries(i, d),
           \/ i \in old[m] /\ known'[m] = known[m]
           \/ \E p \in Projects : Learns(m, p, i, d, e),
           Saves(m, [id |-> i, project |-> NoSession, done |-> d, expires |-> e]),
           UNCHANGED <<sessionsFile, old, born, clock>>
    PROVE  SessionInv'
<1>1. /\ doing' \in [Managers -> {"down", "idle", "saving"}] /\ doing'[m] = "saving"
      /\ asked' \in [Managers -> Answers]
      /\ asked'[m] = [id |-> i, project |-> NoSession, done |-> d, expires |-> e]
  BY DEF Saves, SessionInv, SessionsTypeOK, Answers
<1>2. SessionsTypeOK'
  BY <1>1 DEF SessionInv, SessionsTypeOK, Tries
<1>3. LeasesRun' /\ FileSound'
  BY DEF SessionInv, LeasesRun, FileSound, Sound, Tries
<1>4. \A j \in SessionIds : Live(j)' =>
         /\ Live(j) /\ lease[j].project \in Projects /\ lease[j].expires \in Nat
         /\ lease'[j].project = lease[j].project /\ lease'[j].told = lease[j].told
         /\ lease'[j].expires = lease[j].expires
         /\ lease'[j].tried = IF j = i THEN lease[j].tried \cup d ELSE lease[j].tried
  BY DEF Tries, Live, SessionInv, SessionsTypeOK, Agreements
<1>5. ASSUME NEW p \in Projects, Learns(m, p, i, d, e), NEW j \in SessionIds, Live(j)
      PROVE  (lease[j].project = p) <=> (j = i)
  <2>1. Backed(j, known[m]) /\ lease[j].project \in Projects
    BY <1>5 DEF SessionInv, LiveBacked, LiveIn, Live, SessionsTypeOK, Agreements
  <2>2. known[m][lease[j].project] # NoSession /\ known[m][lease[j].project].id = j
    BY <2>1 DEF Backed
  <2>3. known[m][p] # NoSession /\ known[m][p].id = i
    BY <1>5 DEF Learns, HasSession
  <2>4. \A q, r \in Projects : known[m][q] # NoSession /\ known[m][r] # NoSession
                                /\ known[m][q].id = known[m][r].id => q = r
    BY DEF SessionInv, ManagerSound, Sound
  <2> QED
    BY <2>1, <2>2, <2>3, <2>4
<1>6. Sound(known[m])'
  <2>1. Sound(known[m])
    BY DEF SessionInv, ManagerSound
  <2>2. CASE known'[m] = known[m]
    BY <2>1, <2>2 DEF Sound
  <2>3. CASE \E p \in Projects : Learns(m, p, i, d, e)
    <3>1. PICK p \in Projects : Learns(m, p, i, d, e)
      BY <2>3
    <3>2. \A q \in Projects : /\ known'[m][q] = NoSession <=> known[m][q] = NoSession
                              /\ known[m][q] # NoSession => known'[m][q].id = known[m][q].id
      BY <3>1 DEF Learns, HasSession
    <3> QED
      BY <2>1, <3>2 DEF Sound
  <2> QED
    BY <2>2, <2>3
<1>7. ASSUME NEW j \in SessionIds, Live(j)'
      PROVE  /\ sessionsFile' # NoSession /\ Backed(j, sessionsFile)' /\ LiveIn(m, j)'
             /\ j = i => /\ d \subseteq known'[m][lease'[i].project].done
                         /\ e <= known'[m][lease'[i].project].expires
  <2>1. sessionsFile # NoSession /\ Backed(j, sessionsFile) /\ j \notin old[m]
        /\ Backed(j, known[m])
    BY <1>4, <1>7 DEF SessionInv, LiveBacked, LiveIn
  <2>2. Backed(j, sessionsFile)'
    BY <1>4, <1>7, <2>1 DEF Backed
  <2>3. CASE i \in old[m] /\ known'[m] = known[m]
    <3>1. j # i
      BY <2>1, <2>3
    <3>2. Backed(j, known[m])'
      BY <1>4, <1>7, <2>1, <2>3, <3>1 DEF Backed
    <3> QED
      BY <2>1, <2>2, <3>1, <3>2 DEF LiveIn
  <2>4. CASE \E p \in Projects : Learns(m, p, i, d, e)
    <3>1. PICK p \in Projects : Learns(m, p, i, d, e)
      BY <2>4
    <3>2. (lease[j].project = p) <=> (j = i)
      BY <1>4, <1>5, <1>7, <3>1
    <3>3. CASE j # i
      <4>1. known'[m][lease[j].project] = known[m][lease[j].project]
        BY <1>4, <1>7, <3>1, <3>2, <3>3 DEF Learns
      <4>2. Backed(j, known[m])'
        BY <1>4, <1>7, <2>1, <3>3, <4>1 DEF Backed
      <4> QED
        BY <2>1, <2>2, <3>3, <4>2 DEF LiveIn
    <3>4. CASE j = i
      <4>1. lease'[j].project = p /\ lease[j].project = p
        BY <1>4, <1>7, <3>2, <3>4
      <4>2. known[m][p] \in SessionRecords /\ known'[m][p] \in SessionRecords
        BY <3>1 DEF Learns, HasSession, SessionInv, SessionsTypeOK, Maps
      <4>3. lease[j].expires <= known'[m][p].expires
        <5>1. lease[j].expires <= known[m][p].expires
          BY <2>1, <4>1 DEF Backed
        <5>2. /\ lease[j].expires \in Nat /\ known[m][p].expires \in Nat
              /\ known'[m][p].expires \in Nat
          BY <1>4, <1>7, <4>2 DEF SessionRecords
        <5> QED
          BY <3>1, <5>1, <5>2 DEF Learns
      <4>4. Backed(j, known[m])'
        BY <1>4, <1>7, <2>1, <3>1, <3>4, <4>1, <4>3 DEF Backed, Learns
      <4> QED
        BY <2>1, <2>2, <3>1, <3>4, <4>1, <4>4 DEF LiveIn, Learns
    <3> QED
      BY <3>3, <3>4
  <2> QED
    BY <2>3, <2>4
<1>8. ManagerSound(m)'
  <2>1. \A j \in old'[m] : j <= born'
    BY DEF SessionInv, ManagerSound
  <2>2. Updating(m, asked[m])'
    BY <1>1, <1>7 DEF Updating
  <2> QED
    BY <1>1, <1>6, <2>1, <2>2 DEF ManagerSound, Truthful
<1> QED
  BY <1>2, <1>3, <1>7, <1>8, OneKeeps

LEMMA MarkCompleteKeeps ==
    ASSUME SessionInv, OneManager, NEW m \in Managers, NEW i \in SessionIds,
           NEW d \in Dimensions, MarkComplete(m, i, d)
    PROVE  SessionInv'
<1>1. /\ doing[m] = "idle" /\ UNCHANGED <<sessionsFile, old, born, clock>>
      /\ Saves(m, [id |-> i, project |-> NoSession, done |-> {d}, expires |-> 0])
      /\ lease' = IF lease[i] = NoSession THEN lease
                  ELSE [lease EXCEPT ![i].tried = @ \cup {d}]
  BY DEF MarkComplete
<1>2. Tries(i, {d})
  BY <1>1, NewIsNot DEF Tries, SessionInv, SessionsTypeOK, Agreements
<1>3. CASE i \in old[m] /\ UNCHANGED known
  BY <1>1, <1>2, <1>3, CallKeeps DEF SessionInv, SessionsTypeOK
<1>4. CASE \E p \in Projects : HasSession(m, p, i)
                               /\ known' = [known EXCEPT ![m][p].done = @ \cup {d}]
  <2>1. PICK p \in Projects : HasSession(m, p, i)
                              /\ known' = [known EXCEPT ![m][p].done = @ \cup {d}]
    BY <1>4
  <2>2. known \in [Managers -> Maps] /\ known[m] \in Maps /\ known[m][p] \in SessionRecords
    BY <2>1 DEF HasSession, SessionInv, SessionsTypeOK, Maps
  <2> DEFINE r == [known[m][p] EXCEPT !.done = @ \cup {d}]
             map == [known[m] EXCEPT ![p] = r]
  <2>3. /\ r \in SessionRecords /\ r # NoSession /\ r.id = i
        /\ r.done = known[m][p].done \cup {d}
        /\ r.expires = known[m][p].expires /\ r.expires \in Nat
    BY <2>1, <2>2, NewIsNot DEF SessionRecords, HasSession
  <2>4. known' = [known EXCEPT ![m] = map]
    BY <2>1
  <2> HIDE DEF r
  <2>5. map \in Maps /\ map[p] = r /\ \A q \in Projects : q # p => map[q] = known[m][q]
    BY <2>2, <2>3 DEF Maps
  <2> HIDE DEF map
  <2>6. known' \in [Managers -> Maps] /\ known'[m] = map
    BY <2>2, <2>4, <2>5
  <2>7. Learns(m, p, i, {d}, 0)
    <3>1. /\ HasSession(m, p, i) /\ known'[m][p] = r
          /\ \A q \in Projects : q # p => known'[m][q] = known[m][q]
      BY <2>1, <2>5, <2>6
    <3>2. known[m][p].expires <= r.expires /\ 0 <= r.expires
      BY <2>3
    <3> QED
      BY <2>3, <3>1, <3>2 DEF Learns
  <2> QED
    BY <1>1, <1>2, <2>6, <2>7, CallKeeps
<1> QED
  BY <1>3, <1>4 DEF MarkComplete

LEMMA ExtendKeeps ==
    ASSUME SessionInv, OneManager, NEW m \in Managers, NEW i \in SessionIds, ExtendTtl(m, i)
    PROVE  SessionInv'
<1>1. /\ doing[m] = "idle" /\ UNCHANGED <<sessionsFile, old, born, clock, lease>>
      /\ clock + Extension \in Nat /\ {} \in SUBSET Dimensions
  BY SessionsAssumption DEF ExtendTtl, Extension, SessionInv, SessionsTypeOK
<1>2. Tries(i, {})
  BY <1>1 DEF Tries, SessionInv, SessionsTypeOK
<1>3. CASE i \in old[m] /\ UNCHANGED known
           /\ Saves(m, [id |-> i, project |-> NoSession, done |-> {},
                        expires |-> clock + Extension])
  BY <1>1, <1>2, <1>3, CallKeeps DEF SessionInv, SessionsTypeOK
<1>4. CASE \E p \in Projects :
             LET expires == Later(known[m][p].expires, clock + Extension) IN
             /\ HasSession(m, p, i)
             /\ known' = [known EXCEPT ![m][p].expires = expires]
             /\ Saves(m, [id |-> i, project |-> NoSession, done |-> {}, expires |-> expires])
  <2> DEFINE e(q) == Later(known[m][q].expires, clock + Extension)
  <2>1. PICK p \in Projects :
             /\ HasSession(m, p, i)
             /\ known' = [known EXCEPT ![m][p].expires = e(p)]
             /\ Saves(m, [id |-> i, project |-> NoSession, done |-> {}, expires |-> e(p)])
    BY <1>4
  <2>2. known \in [Managers -> Maps] /\ known[m] \in Maps /\ known[m][p] \in SessionRecords
    BY <2>1 DEF HasSession, SessionInv, SessionsTypeOK, Maps
  <2>3. e(p) \in Nat /\ known[m][p].expires <= e(p)
    BY <1>1, <2>2 DEF Later, SessionRecords
  <2> HIDE DEF e
  <2> DEFINE r == [known[m][p] EXCEPT !.expires = e(p)]
             map == [known[m] EXCEPT ![p] = r]
  <2>4. /\ r \in SessionRecords /\ r # NoSession /\ r.id = i
        /\ r.done = known[m][p].done \cup {} /\ r.expires = e(p)
    BY <2>1, <2>2, <2>3, NewIsNot DEF SessionRecords, HasSession
  <2>5. known' = [known EXCEPT ![m] = map]
    BY <2>1
  <2> HIDE DEF r
  <2>6. map \in Maps /\ map[p] = r /\ \A q \in Projects : q # p => map[q] = known[m][q]
    BY <2>2, <2>4 DEF Maps
  <2> HIDE DEF map
  <2>7. known' \in [Managers -> Maps] /\ known'[m] = map
    BY <2>2, <2>5, <2>6
  <2>8. Learns(m, p, i, {}, e(p))
    <3>1. /\ HasSession(m, p, i) /\ known'[m][p] = r
          /\ \A q \in Projects : q # p => known'[m][q] = known[m][q]
      BY <2>1, <2>6, <2>7
    <3>2. known[m][p].expires <= r.expires /\ e(p) <= r.expires
      BY <2>3, <2>4
    <3> QED
      BY <2>4, <3>1, <3>2 DEF Learns
  <2> QED
    BY <1>1, <1>2, <2>1, <2>3, <2>7, <2>8, CallKeeps
<1> QED
  BY <1>3, <1>4 DEF ExtendTtl

(* What is forgotten is not a live session's, but of those given up.       *)
LEMMA ForgetKeeps ==
    ASSUME SessionInv, OneManager, NEW m \in Managers, NEW gone \in SUBSET Projects,
           NEW given \in SUBSET SessionIds, Forget(m, gone, given),
           \A i \in SessionIds : Live(i) /\ i \notin given => lease[i].project \notin gone
    PROVE  SessionInv'
<1> DEFINE map == [p \in Projects |-> IF p \in gone THEN NoSession ELSE known[m][p]]
<1>1. /\ doing[m] = "idle" /\ Becomes(m, map) /\ lease' = Relying(given)
      /\ Saves(m, NoAnswer) /\ UNCHANGED <<sessionsFile, born, clock>>
  BY DEF Forget
<1>2. map \in Maps
  BY DEF SessionInv, SessionsTypeOK, Maps
<1>3. \A p \in Projects : map[p] = IF p \in gone THEN NoSession ELSE known[m][p]
  OBVIOUS
<1> HIDE DEF map
<1>4. /\ known' \in [Managers -> Maps] /\ known'[m] = map
      /\ old' \in [Managers -> SUBSET SessionIds]
      /\ old'[m] = old[m] \cup Dropped(known[m], map)
  BY <1>1, <1>2, BecomesTyped
<1>5. /\ doing' \in [Managers -> {"down", "idle", "saving"}] /\ doing'[m] = "saving"
      /\ asked' \in [Managers -> Answers] /\ asked'[m].id = 0
  BY <1>1 DEF Saves, NoAnswer, Answers, SessionInv, SessionsTypeOK
<1>6. /\ lease' \in [SessionIds -> Agreements \cup {NoSession}]
      /\ \A i \in SessionIds : lease'[i] # NoSession => lease'[i] = lease[i] /\ i \notin given
  BY <1>1 DEF Relying, SessionInv, SessionsTypeOK
<1>7. SessionsTypeOK'
  BY <1>1, <1>4, <1>5, <1>6 DEF SessionInv, SessionsTypeOK
<1>8. LeasesRun' /\ FileSound'
  BY <1>1, <1>6 DEF SessionInv, LeasesRun, FileSound, Sound
<1>9. ManagerSound(m)'
  <2>1. Sound(known[m])'
    BY <1>1, <1>3, <1>4 DEF SessionInv, ManagerSound, Sound
  <2>2. \A i \in old'[m] : i <= born'
    BY <1>1, <1>4, IdsAreBorn DEF SessionInv, ManagerSound
  <2> QED
    BY <1>5, <2>1, <2>2 DEF ManagerSound, Truthful
<1>10. ASSUME NEW i \in SessionIds, Live(i)'
       PROVE  sessionsFile' # NoSession /\ Backed(i, sessionsFile)' /\ LiveIn(m, i)'
  <2>1. Live(i) /\ lease'[i] = lease[i] /\ lease[i].project \in Projects \ gone
    BY <1>6, <1>10 DEF Live, SessionInv, SessionsTypeOK, Agreements
  <2>2. sessionsFile # NoSession /\ Backed(i, sessionsFile) /\ i \notin old[m]
        /\ Backed(i, known[m])
    BY <1>1, <2>1 DEF SessionInv, LiveBacked, LiveIn
  <2>3. Backed(i, map)
    BY <1>3, <2>1, <2>2 DEF Backed
  <2>4. i \notin Dropped(known[m], map)
    BY <1>2, <2>1, <2>3, BackedStays DEF Live
  <2> QED
    BY <1>1, <1>4, <2>1, <2>2, <2>3, <2>4 DEF Backed, LiveIn
<1> QED
  BY <1>7, <1>8, <1>9, <1>10, OneKeeps

LEMMA ClearKeeps ==
    ASSUME SessionInv, OneManager, NEW m \in Managers
    PROVE  /\ ClearSessions(m) => SessionInv'
           /\ \A i \in SessionIds : ClearSession(m, i) => SessionInv'
           /\ \A p \in Projects : ReleaseProjectLease(m, p) => SessionInv'
<1>1. ASSUME ClearSessions(m) PROVE SessionInv'
  BY <1>1, ForgetKeeps DEF ClearSessions
<1>2. ASSUME NEW i \in SessionIds, ClearSession(m, i) PROVE SessionInv'
  <2> DEFINE gone == {p \in Projects : HasSession(m, p, i)}
  <2>1. Forget(m, gone, {i})
    BY <1>2 DEF ClearSession
  <2>2. ASSUME NEW j \in SessionIds, Live(j), j # i PROVE lease[j].project \notin gone
    <3>1. doing[m] = "idle"
      BY <2>1 DEF Forget
    <3> QED
      BY <2>2, <3>1 DEF SessionInv, LiveBacked, LiveIn, Backed, HasSession
  <2> HIDE DEF gone
  <2>3. gone \in SUBSET Projects /\ {i} \in SUBSET SessionIds
    BY DEF gone
  <2> QED
    BY <2>1, <2>2, <2>3, ForgetKeeps
<1>3. ASSUME NEW p \in Projects, ReleaseProjectLease(m, p) PROVE SessionInv'
  <2>1. Forget(m, {p}, LeasesOf(p))
    BY <1>3 DEF ReleaseProjectLease
  <2>2. \A i \in SessionIds : Live(i) /\ i \notin LeasesOf(p) => lease[i].project \notin {p}
    BY DEF Live, LeasesOf
  <2>3. LeasesOf(p) \in SUBSET SessionIds
    BY DEF LeasesOf
  <2> QED
    BY <2>1, <2>2, <2>3, ForgetKeeps
<1> QED
  BY <1>1, <1>2, <1>3

(* What the host is told is in the file with which the call returns.       *)
LEMMA PersistKeeps ==
    ASSUME SessionInv, OneManager, NEW m \in Managers, Persist(m)
    PROVE  SessionInv'
<1> DEFINE a == asked[m]
           granted == [project |-> a.project, tried |-> {}, told |-> {}, expires |-> a.expires]
           updated(l) == [l EXCEPT !.told = @ \cup a.done, !.expires = Later(@, a.expires)]
<1>1. /\ doing[m] = "saving" /\ doing' = [doing EXCEPT ![m] = "idle"]
      /\ sessionsFile' = known[m] /\ asked' = [asked EXCEPT ![m] = NoAnswer]
      /\ lease' = [i \in SessionIds |-> IF i # a.id THEN lease[i]
                                        ELSE IF a.project # NoSession THEN granted
                                        ELSE IF lease[i] = NoSession THEN NoSession
                                        ELSE updated(lease[i])]
      /\ UNCHANGED <<known, old, born, clock>>
  BY DEF Persist
<1>2. /\ known[m] \in Maps /\ known[m] # NoSession /\ a \in Answers
      /\ lease \in [SessionIds -> Agreements \cup {NoSession}]
      /\ born \in Nat /\ clock \in Nat
  BY NewIsNot, SessionsAssumption DEF SessionInv, SessionsTypeOK
<1>3. /\ a.id \in SessionIds \cup {0} /\ a.project \in Projects \cup {NoSession}
      /\ a.done \in SUBSET Dimensions /\ a.expires \in Nat
  BY <1>2 DEF Answers
<1>4. a.project # NoSession => granted \in Agreements /\ granted # NoSession
  BY <1>3, NewIsNot DEF Agreements
<1>5. ASSUME NEW l \in Agreements
      PROVE  /\ updated(l) \in Agreements /\ updated(l) # NoSession
             /\ updated(l).project = l.project /\ updated(l).tried = l.tried
             /\ updated(l).told = l.told \cup a.done
             /\ updated(l).expires = Later(l.expires, a.expires)
             /\ updated(l).expires \in Nat /\ l.expires \in Nat
  <2>1. updated(l) \in Agreements
    BY <1>3 DEF Agreements, Later
  <2> QED
    BY <2>1, NewIsNot DEF Agreements
<1> HIDE DEF a
<1>6. ASSUME NEW i \in SessionIds
      PROVE  /\ lease'[i] \in Agreements \cup {NoSession}
             /\ i # a.id => lease'[i] = lease[i]
             /\ i = a.id /\ a.project # NoSession => lease'[i] = granted
             /\ i = a.id /\ a.project = NoSession =>
                   /\ lease[i] = NoSession => lease'[i] = NoSession
                   /\ lease[i] # NoSession => lease[i] \in Agreements
                                              /\ lease'[i] = updated(lease[i])
  <2> HIDE DEF granted, updated
  <2> QED
    BY <1>1, <1>2, <1>4, <1>5
<1>7. SessionsTypeOK'
  <2>1. lease' \in [SessionIds -> Agreements \cup {NoSession}]
    <3> HIDE DEF granted, updated
    <3> QED
      BY <1>1, <1>6
  <2>2. NoAnswer \in Answers
    BY DEF NoAnswer, Answers
  <2> QED
    BY <1>1, <1>2, <2>1, <2>2 DEF SessionInv, SessionsTypeOK
<1>8. a.id \in SessionIds =>
         IF a.project # NoSession THEN Granting(m, a) ELSE Updating(m, a)
  <2>1. a.id \in SessionIds => a.id # 0
    BY SessionsAssumption DEF SessionIds
  <2>2. a = asked[m]
    BY DEF a
  <2>3. ManagerSound(m)
    BY DEF SessionInv
  <2> QED
    BY <1>1, <2>1, <2>2, <2>3 DEF ManagerSound, Truthful
<1>9. LeasesRun'
  <2> SUFFICES ASSUME NEW i \in SessionIds, lease'[i] # NoSession
               PROVE  i <= born /\ clock <= lease'[i].expires
    BY <1>1 DEF LeasesRun
  <2>1. lease[i] # NoSession => i <= born /\ clock <= lease[i].expires
    BY DEF SessionInv, LeasesRun
  <2>2. CASE i # a.id
    BY <1>6, <2>1, <2>2
  <2>3. CASE i = a.id /\ a.project # NoSession
    <3>1. lease'[i] = granted /\ clock <= a.expires /\ i <= born
      BY <1>6, <1>8, <2>3 DEF Granting
    <3>2. granted.expires = a.expires
      OBVIOUS
    <3> QED
      BY <3>1, <3>2
  <2>4. CASE i = a.id /\ a.project = NoSession
    <3>1. lease[i] \in Agreements /\ lease[i] # NoSession /\ lease'[i] = updated(lease[i])
      BY <1>6, <2>4
    <3>2. lease'[i].expires = Later(lease[i].expires, a.expires) /\ lease[i].expires \in Nat
      BY <1>5, <3>1
    <3> QED
      BY <1>2, <1>3, <2>1, <3>1, <3>2 DEF Later
  <2> QED
    BY <2>2, <2>3, <2>4
<1>10. FileSound' /\ ManagerSound(m)'
  <2>1. doing'[m] = "idle"
    BY <1>1 DEF SessionInv, SessionsTypeOK
  <2> QED
    BY <1>1, <2>1 DEF SessionInv, ManagerSound, FileSound, Sound, Truthful
<1>11. ASSUME NEW i \in SessionIds, Live(i)'
       PROVE  sessionsFile' # NoSession /\ Backed(i, sessionsFile)' /\ LiveIn(m, i)'
  <2> SUFFICES i \notin old[m] /\ Backed(i, known[m])'
    BY <1>1, <1>2 DEF Backed, LiveIn
  <2>1. Live(i) => /\ lease[i] \in Agreements /\ i \notin old[m] /\ Backed(i, known[m])
    BY <1>1, <1>2 DEF SessionInv, LiveBacked, LiveIn, Live
  <2>2. CASE i # a.id
    <3>1. lease'[i] = lease[i] /\ Live(i)
      BY <1>6, <1>11, <2>2 DEF Live
    <3> QED
      BY <1>1, <2>1, <3>1 DEF Backed
  <2>3. CASE i = a.id /\ a.project # NoSession
    <3>1. Granting(m, a) /\ lease'[i] = granted
      BY <1>6, <1>8, <2>3
    <3>2. known[m][a.project] \in SessionRecords /\ known[m][a.project] # NoSession
      BY <1>3, <2>3, <3>1, NewIsNot DEF Granting, SessionRecords
    <3> QED
      BY <1>1, <1>3, <2>3, <3>1, <3>2 DEF Granting, Backed
  <2>4. CASE i = a.id /\ a.project = NoSession
    <3>1. lease[i] \in Agreements /\ lease[i] # NoSession /\ lease'[i] = updated(lease[i])
      BY <1>6, <1>11, <2>4 DEF Live
    <3>2. /\ lease'[i].project = lease[i].project /\ lease'[i].tried = lease[i].tried
          /\ lease'[i].told = lease[i].told \cup a.done
          /\ lease'[i].expires = Later(lease[i].expires, a.expires)
          /\ lease[i].expires \in Nat
      BY <1>5, <3>1
    <3>3. Live(i) /\ i \notin old[m] /\ Backed(i, known[m])
      BY <1>11, <2>1, <3>1, <3>2 DEF Live
    <3>4. /\ a.done \subseteq known[m][lease[i].project].done
          /\ a.expires <= known[m][lease[i].project].expires
      BY <1>8, <2>4, <3>3 DEF Updating
    <3>5. lease'[i].expires <= known[m][lease[i].project].expires
      BY <3>2, <3>3, <3>4 DEF Backed, Later
    <3> HIDE DEF updated
    <3> QED
      BY <1>1, <3>2, <3>3, <3>4, <3>5 DEF Backed
  <2> QED
    BY <2>2, <2>3, <2>4
<1> QED
  BY <1>7, <1>9, <1>10, <1>11, OneKeeps

LEMMA PersistFailsKeeps ==
    ASSUME SessionInv, OneManager, NEW m \in Managers, PersistFails(m)
    PROVE  SessionInv'
<1>1. /\ doing[m] = "saving" /\ doing' = [doing EXCEPT ![m] = "idle"]
      /\ asked' = [asked EXCEPT ![m] = NoAnswer]
      /\ UNCHANGED <<sessionsFile, known, old, born, clock, lease>>
  BY DEF PersistFails
<1>2. SessionsTypeOK' /\ doing'[m] = "idle"
  BY <1>1 DEF SessionInv, SessionsTypeOK, NoAnswer, Answers
<1>3. LeasesRun' /\ FileSound' /\ ManagerSound(m)'
  BY <1>1, <1>2 DEF SessionInv, LeasesRun, FileSound, ManagerSound, Sound, Truthful
<1>4. ASSUME NEW i \in SessionIds, Live(i)'
      PROVE  sessionsFile' # NoSession /\ Backed(i, sessionsFile)' /\ LiveIn(m, i)'
  <2>1. Live(i)
    BY <1>1, <1>4 DEF Live
  <2>2. sessionsFile # NoSession /\ Backed(i, sessionsFile) /\ i \notin old[m]
        /\ Backed(i, known[m])
    BY <1>1, <2>1 DEF SessionInv, LiveBacked, LiveIn
  <2> QED
    BY <1>1, <2>2 DEF Backed, LiveIn
<1> QED
  BY <1>2, <1>3, <1>4, OneKeeps

LEMMA DiesKeeps ==
    ASSUME SessionInv, OneManager, NEW m \in Managers, ManagerDies(m)
    PROVE  SessionInv'
<1>1. /\ doing' = [doing EXCEPT ![m] = "down"] /\ known' = [known EXCEPT ![m] = EmptyMap]
      /\ asked' = [asked EXCEPT ![m] = NoAnswer] /\ old' = [old EXCEPT ![m] = {}]
      /\ UNCHANGED <<sessionsFile, born, clock, lease>>
  BY DEF ManagerDies
<1>2. /\ SessionsTypeOK' /\ doing'[m] = "down" /\ old'[m] = {} /\ known'[m] = EmptyMap
  BY <1>1 DEF SessionInv, SessionsTypeOK, NoAnswer, Answers, EmptyMap, Maps
<1>3. LeasesRun' /\ FileSound' /\ ManagerSound(m)'
  BY <1>1, <1>2 DEF SessionInv, LeasesRun, FileSound, ManagerSound, Sound, Truthful, EmptyMap
<1>4. ASSUME NEW i \in SessionIds, Live(i)'
      PROVE  sessionsFile' # NoSession /\ Backed(i, sessionsFile)' /\ LiveIn(m, i)'
  <2>1. Live(i)
    BY <1>1, <1>4 DEF Live
  <2>2. sessionsFile # NoSession /\ Backed(i, sessionsFile)
    BY <2>1 DEF SessionInv, LiveBacked
  <2> QED
    BY <1>1, <1>2, <2>2 DEF Backed, LiveIn
<1> QED
  BY <1>2, <1>3, <1>4, OneKeeps

LEMMA HourKeeps ==
    ASSUME SessionInv, Hour
    PROVE  SessionInv'
<1> DEFINE over == {i \in SessionIds : lease[i] # NoSession /\ lease[i].expires < clock'}
<1>1. /\ clock < MaxClock /\ clock' = clock + 1 /\ lease' = Relying(over)
      /\ \A m \in Managers : doing[m] # "saving"
      /\ UNCHANGED <<sessionsFile, known, doing, asked, old, born>>
  BY DEF Hour
<1>2. /\ lease' \in [SessionIds -> Agreements \cup {NoSession}]
      /\ \A i \in SessionIds : lease'[i] # NoSession =>
            lease'[i] = lease[i] /\ lease[i] \in Agreements /\ ~ (lease[i].expires < clock')
  BY <1>1 DEF Relying, SessionInv, SessionsTypeOK
<1> HIDE DEF over
<1>3. SessionsTypeOK' /\ clock' \in Nat
  BY <1>1, <1>2, SessionsAssumption DEF SessionInv, SessionsTypeOK
<1>4. LeasesRun'
  BY <1>1, <1>2, <1>3 DEF SessionInv, LeasesRun, Agreements
<1>5. FileSound' /\ \A m \in Managers : ManagerSound(m)'
  BY <1>1 DEF SessionInv, FileSound, ManagerSound, Sound, Truthful
<1>6. LiveBacked'
  <2> SUFFICES ASSUME NEW i \in SessionIds, Live(i)'
               PROVE  /\ sessionsFile' # NoSession /\ Backed(i, sessionsFile)'
                      /\ \A m \in Managers : LiveIn(m, i)'
    BY DEF LiveBacked
  <2>1. lease'[i] = lease[i] /\ Live(i)
    BY <1>2 DEF Live
  <2>2. sessionsFile' # NoSession /\ Backed(i, sessionsFile)'
    BY <1>1, <2>1 DEF SessionInv, LiveBacked, Backed
  <2>3. ASSUME NEW m \in Managers PROVE LiveIn(m, i)'
    BY <1>1, <2>1 DEF SessionInv, LiveBacked, Backed, LiveIn
  <2> QED
    BY <2>2, <2>3
<1> QED
  BY <1>3, <1>4, <1>5, <1>6 DEF SessionInv

-----------------------------------------------------------------------------
(* The inductive invariant.                                                *)
THEOREM SessionInvAlways == ASSUME OneManager PROVE SessionsSpec => []SessionInv
<1>1. SessionsInit => SessionInv
  BY SessionsInitially
<1>2. SessionInv /\ [SessionsNext]_sessionsVars => SessionInv'
  <2> SUFFICES ASSUME SessionInv, [SessionsNext]_sessionsVars PROVE SessionInv'
    OBVIOUS
  <2>1. CASE Hour
    BY <2>1, HourKeeps
  <2>2. CASE UNCHANGED sessionsVars
    BY <2>2 DEF sessionsVars, SessionInv, SessionsTypeOK, LeasesRun, FileSound, Sound,
       LiveBacked, Live, LiveIn, Backed, ManagerSound, Truthful, Granting, Updating
  <2>3. ASSUME NEW m \in Managers,
               \/ OpenManager(m) \/ ManagerDies(m) \/ Persist(m) \/ PersistFails(m)
               \/ ClearSessions(m)
               \/ \E p \in Projects : \/ RefuseSession(m, p) \/ ReleaseProjectLease(m, p)
                                      \/ \E replace \in BOOLEAN : CreateSession(m, p, replace)
               \/ \E i \in SessionIds : \/ ExtendTtl(m, i) \/ ClearSession(m, i)
                                        \/ \E d \in Dimensions : MarkComplete(m, i, d)
        PROVE SessionInv'
    BY <2>3, OpenKeeps, RefuseKeeps, CreateKeeps, MarkCompleteKeeps, ExtendKeeps,
       ClearKeeps, PersistKeeps, PersistFailsKeeps, DiesKeeps
  <2> QED
    BY <2>1, <2>2, <2>3 DEF SessionsNext
<1> QED
  BY <1>1, <1>2, PTL DEF SessionsSpec

(* A project has one running session at a time: the file has the session   *)
(* of each under its project, and a map has one for a project.             *)
THEOREM OneSession == ASSUME OneManager PROVE SessionsSpec => []OneSessionPerProject
<1>1. SessionInv => OneSessionPerProject
  BY DEF SessionInv, LiveBacked, Backed, OneSessionPerProject
<1> QED
  BY <1>1, SessionInvAlways, PTL

(* Whatever dies or fails, the file has every running session, and the     *)
(* completions its host was told of.                                       *)
THEOREM Progress == ASSUME OneManager PROVE SessionsSpec => []ProgressIsKept
<1>1. SessionInv => ProgressIsKept
  BY DEF SessionInv, LiveBacked, Backed, ProgressIsKept
<1> QED
  BY <1>1, SessionInvAlways, PTL

(* The file, the managers' maps and the leases hold what they are declared *)
(* to hold, through restarts, failed writes and expiry.                    *)
THEOREM SessionsTyped == ASSUME OneManager PROVE SessionsSpec => []SessionsTypeOK
<1>1. SessionInv => SessionsTypeOK
  BY DEF SessionInv
<1> QED
  BY <1>1, SessionInvAlways, PTL
=============================================================================
