---------------------------- MODULE MCRecipeParts ----------------------------
(***************************************************************************)
(* Two texts, one food and one number of servings besides the default 1:   *)
(* enough for two columns of one row to come from two requests.            *)
(***************************************************************************)
EXTENDS RecipeParts, TLC

CONSTANTS draft_text, final_text, bean

MCText == {draft_text, final_text}
MCFood == {bean}
MCServings == {2}
Symmetry == Permutations(MCText)
=============================================================================
