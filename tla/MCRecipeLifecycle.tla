------------------------- MODULE MCRecipeLifecycle -------------------------
(***************************************************************************)
(* Instances of RecipeLifecycle for TLC.  One recipe: no operation reads   *)
(* or writes another one.                                                  *)
(***************************************************************************)
EXTENDS RecipeLifecycle

AllUserOps == DOMAIN UserTarget
=============================================================================
