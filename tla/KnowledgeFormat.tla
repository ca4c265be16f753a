-------------------------- MODULE KnowledgeFormat --------------------------
(***************************************************************************)
(* The files of the recipes and their rows: candidates/ holds the pending  *)
(* and the staged ones ("candidate" here), recipes/ all others.            *)
(***************************************************************************)
EXTENDS Naturals

CONSTANTS Recipes,
          Slugs,       \* file names, which two recipes may share
          NoFile       \* no such file, or row

Areas == {"candidates", "recipes"}
Paths == Areas \X Slugs
Lives == {"candidate", "active", "deprecated"}
Revs == Nat \ {0}

(* _resolveFilePath. *)
PathOf(life, slug) == <<IF life = "candidate" THEN "candidates" ELSE "recipes", slug>>

Files == [id : Recipes, rev : Revs, life : Lives]
Rows == [rev : Revs, life : Lives, at : Paths]

ASSUME NoFileAssumption == NoFile \notin Files /\ NoFile \notin Rows /\ NoFile \notin Paths
=============================================================================
