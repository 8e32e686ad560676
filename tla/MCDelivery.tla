------------------------------ MODULE MCDelivery ------------------------------
(***************************************************************************)
(* One recipe; two followers of the same instance share an inbox, a third  *)
(* is elsewhere.                                                           *)
(***************************************************************************)
EXTENDS Delivery

CONSTANTS pasta, fay, gus, hal, shared, own

MCRecipe == {pasta}
MCFollower == {fay, gus, hal}
MCInboxOf == [f \in MCFollower |-> IF f = hal THEN own ELSE shared]
=============================================================================
