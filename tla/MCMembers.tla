------------------------------ MODULE MCMembers ------------------------------
(***************************************************************************)
(* Two reasons, so that two writes of a rule can be told apart, and a page *)
(* of one notification, so that two are too many.                          *)
(***************************************************************************)
EXTENDS Members, TLC

CONSTANTS spam, trust

MCReason == {spam, trust}
Symmetry == Permutations(MCReason)
=============================================================================
