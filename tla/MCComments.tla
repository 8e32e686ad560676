----------------------------- MODULE MCComments ------------------------------
(* Two servers with a note each, and moderation on. *)
EXTENDS Comments
=============================================================================
