------------------------------ MODULE MCRecipes ------------------------------
(***************************************************************************)
(* One recipe: requests on different recipes share no row.                 *)
(***************************************************************************)
EXTENDS Recipes

CONSTANTS pasta

MCRecipe == {pasta}
=============================================================================
