------------------------------ MODULE MCInbox --------------------------------
(* One other server, the local user's inbox and two recipes.  Domains share  *)
(* no row of known_instances, followers or reactions, so one is enough.      *)
EXTENDS Inbox
=============================================================================
