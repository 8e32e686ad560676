-------------------------- MODULE MCFollowRequests ---------------------------
(***************************************************************************)
(* One requester and two followees: enough for requests of the same        *)
(* requester to different followees to be confused, and for every handler  *)
(* to race every other on one pair.                                        *)
(***************************************************************************)
EXTENDS FollowRequests

CONSTANTS ann, bob, cat

MCRequester == {ann}
MCFollowee == {bob, cat}
=============================================================================
