------------------------------ MODULE MCAccounts -----------------------------
(***************************************************************************)
(* Two names: a registration of the name that is taken, and one of another.*)
(***************************************************************************)
EXTENDS Accounts, TLC

CONSTANTS ann, bob

MCName == {ann, bob}
Symmetry == Permutations(MCName)
=============================================================================
