------------------------------ MODULE MCLimits -------------------------------
(***************************************************************************)
(* The second request of a user is one too many; so is the second activity *)
(* of the shared inbox for its domain, and its second check for its        *)
(* address.                                                                *)
(***************************************************************************)
EXTENDS Limits

MCMax == [k \in Key |-> CASE k = "user" -> 1 [] k = "ip" -> 3 [] OTHER -> 2]
=============================================================================
