---------------------------- MODULE IndexChanges ----------------------------
(***************************************************************************)
(* What a recipe may be to the vector index, and the changes that are      *)
(* queued for it, one per recipe.                                          *)
(***************************************************************************)
CONSTANTS Entries,    \* the recipes
          Versions,   \* the contents a recipe may have
          Gone,       \* no such recipe, or a deprecated one
          Same        \* no change queued

ASSUME ChangesAssumption == Gone \notin Versions /\ Same \notin Versions /\ Gone # Same

States == Versions \cup {Gone}
NoChanges == [e \in Entries |-> Same]
Changed(p) == {e \in Entries : p[e] # Same}
=============================================================================
