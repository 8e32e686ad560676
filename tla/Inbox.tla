------------------------------- MODULE Inbox ---------------------------------
(***************************************************************************)
(* The inbox of app/routers/activitypub.py for the activities that add or  *)
(* remove one row: Follow, Like, Announce, and the Undo of each.  Other    *)
(* servers send them in any order and more than once; each delivery is a   *)
(* request of its own, served in one transaction, statement by statement.  *)
(***************************************************************************)
EXTENDS KnownInstances

CONSTANTS Followee,  \* the local user of this inbox
          Recipe,    \* recipes of this instance (a reaction to no recipe does nothing)
          Reaction   \* "Like", "Announce": two branches that differ in nothing else

ASSUME ReactionAssumption == Reaction \subseteq {"Like", "Announce"}

\* A row of followers or reactions: who sent it, what it is, to whom or what.
\* The primary key of followers is the pair, and reactions are unique per recipe,
\* actor and type.
Key == (Domain \X {"Follow"} \X {Followee}) \cup (Domain \X Reaction \X Recipe)

\* Identities of rows: the activity that made the row, one of those served before
\* this behaviour begins, or none.
Earlier == MaxActivities + 1
Identity == Activity \cup {Earlier}
Absent == 0

\* What an activity says.  An Undo names the activity it takes back and what that
\* was about; it may arrive before that activity, or that activity never.
Message == [verb : {"Do"}, key : Key] \cup [verb : {"Undo"}, key : Key, of : Identity]

VARIABLES row,       \* followers and reactions: the identity of the row, or Absent
          message,   \* what each activity says
          found,     \* the row an Undo has read, as <<key, identity>>
          due,       \* history: the identity of each row by the documented rule, or Absent
          crossed    \* history: reactions due while an Undo of another was served

inboxVars == <<row, message, found, due, crossed>>
vars == <<knownVars, inboxVars>>

Running == RecordPC \cup {"accept", "undo", "commit"}
Ended == {"done", "failed"}
Nothing == << >>

InboxTypeOK ==
    /\ KnownTypeOK
    /\ pc \in [Activity -> {"idle"} \cup Running \cup Ended]
    /\ row \in [Key -> Versions(Identity \cup {Absent}, Activity)]
    /\ message \in [Activity -> Message \cup {Nothing}]
    /\ found \in [Activity -> (Key \X Identity) \cup {Nothing}]
    /\ due \in [Key -> Identity \cup {Absent}]
    /\ crossed \subseteq Key

\* Some activities have been served before, each with its domain recorded.
Init ==
    /\ KnownInit
    /\ \E there \in SUBSET Key :
          /\ \A k \in there : known[k[1]].old # "absent"
          /\ row = [k \in Key |-> Committed(IF k \in there THEN Earlier ELSE Absent)]
          /\ due = [k \in Key |-> IF k \in there THEN Earlier ELSE Absent]
    /\ crossed = {}
    /\ message = [n \in Activity |-> Nothing]
    /\ found = [n \in Activity |-> Nothing]

(***************************************************************************)
(* Steps every branch ends with                                            *)
(***************************************************************************)
\* The request is over and what its handler held in variables is gone.
End(n, there) ==
    /\ Goto(n, there)
    /\ message' = [message EXCEPT ![n] = Nothing]
    /\ found' = [found EXCEPT ![n] = Nothing]
    /\ UNCHANGED <<checkVars, arrived>>

Rollback(n, there) ==
    /\ known' = RollbackRows(known, n)
    /\ row' = RollbackRows(row, n)
    /\ End(n, there)

\* The rows the handler looks up for an Undo: the follower by its key, a reaction
\* by its actor and type, whatever the recipe and whatever activity it names.
LookedUp(k) == IF k[2] = "Follow" THEN {k} ELSE {j \in Key : j[1] = k[1] /\ j[2] = k[2]}

\* The row an Undo is meant for by the rule app/models/reaction.py states: the one
\* made by the activity it names.  (Those made earlier need the recipe to be told
\* apart.)  A follower has no activity and is the pair.
Names(m, k) ==
    /\ k \in LookedUp(m.key)
    /\ k[2] # "Follow" => m.of = due[k] /\ (m.of = Earlier => k = m.key)

\* What an activity makes of the rows by that rule: of equal ones the first counts.
DueAfter(n) ==
    LET m == message[n] IN
    [k \in Key |-> IF m.verb = "Do" THEN IF k = m.key /\ due[k] = Absent THEN n ELSE due[k]
                   ELSE IF Names(m, k) THEN Absent ELSE due[k]]

Serve(n) ==
    LET m == message[n] IN
    /\ due' = DueAfter(n)
    /\ crossed' = IF m.verb = "Do" THEN crossed \ {m.key}
                  ELSE crossed \cup {k \in LookedUp(m.key) : ~Names(m, k)}

\* The federation policy, the fetch of the actor or the signature check turns
\* the activity away, and what was recorded of the domain is rolled back.
Refuse(n) ==
    /\ pc[n] = "admitted"
    /\ Rollback(n, "failed")
    /\ UNCHANGED <<faults, due, crossed>>

\* After a swallowed error the next statement raises.
Poisoned(n) ==
    /\ pc[n] = "poisoned"
    /\ Rollback(n, "failed")
    /\ UNCHANGED <<faults, due, crossed>>

\* An activity speaks for its sender only: that is what the signature shows.
Deliver(n, m) ==
    /\ Receive(n, m.key[1])
    /\ m.verb = "Undo" => m.of # n
    /\ message' = [message EXCEPT ![n] = m]
    /\ UNCHANGED <<row, found, due, crossed>>

(***************************************************************************)
(* Follow, Like, Announce                                                  *)
(***************************************************************************)
\* A duplicate is rolled back, the domain's row with it.  A reaction is then
\* acknowledged; a Follow fails on the local user the rollback has expired, so
\* its Accept is not sent again.
Insert(n) ==
    LET k == message[n].key IN
    /\ pc[n] = "admitted" /\ message[n].verb = "Do"
    /\ MayWrite(row, k, n)
    /\ IF row[k].new = Absent
       THEN /\ row' = Write(row, k, n, n)
            /\ Goto(n, IF k[2] = "Follow" THEN "accept" ELSE "commit")
            /\ UNCHANGED <<known, checkVars, arrived, faults, message, found, due, crossed>>
       ELSE /\ Rollback(n, IF k[2] = "Follow" THEN "failed" ELSE "done")
            /\ IF k[2] = "Follow" THEN UNCHANGED <<due, crossed>> ELSE Serve(n)
            /\ UNCHANGED faults

\* The Accept is POSTed before the commit, with the rows locked.
AcceptAnswered(n) ==
    /\ pc[n] = "accept"
    /\ Goto(n, "commit")
    /\ UNCHANGED <<known, checkVars, arrived, faults, inboxVars>>

\* Mutant: the Accept is posted again until it is answered.
AcceptAgain(n) == pc[n] = "accept" /\ UNCHANGED vars

\* httpx gives up after 10 seconds.
AcceptTimeout(n) ==
    /\ pc[n] = "accept"
    /\ Goto(n, "commit")
    /\ UNCHANGED <<known, checkVars, arrived, faults, inboxVars>>

(***************************************************************************)
(* Undo                                                                    *)
(***************************************************************************)
\* Mutant: the row read is deleted without asking whether there was one.
UndoReadUnguarded(n) ==
    /\ pc[n] = "admitted" /\ message[n].verb = "Undo"
    /\ \E k \in LookedUp(message[n].key) :
          /\ Goto(n, "undo")
          /\ found' = [found EXCEPT ![n] = <<k, row[k].old>>]
    /\ UNCHANGED <<known, checkVars, arrived, faults, row, message, due, crossed>>

\* Mutant: of several rows the first is taken.
UndoReadFirst(n) ==
    LET there == {k \in LookedUp(message[n].key) : row[k].old # Absent} IN
    /\ pc[n] = "admitted" /\ message[n].verb = "Undo"
    /\ \E k \in there :
          /\ Goto(n, "undo")
          /\ found' = [found EXCEPT ![n] = <<k, row[k].old>>]
    /\ UNCHANGED <<known, checkVars, arrived, faults, row, message, due, crossed>>

\* Two rows are MultipleResultsFound.
UndoRead(n) ==
    LET there == {k \in LookedUp(message[n].key) : row[k].old # Absent} IN
    /\ pc[n] = "admitted" /\ message[n].verb = "Undo"
    /\ \/ /\ there = {}
          /\ Goto(n, "commit")
          /\ UNCHANGED <<known, checkVars, arrived, row, message, found>>
       \/ \E k \in there :
          /\ there = {k}
          /\ Goto(n, "undo")
          /\ found' = [found EXCEPT ![n] = <<k, row[k].old>>]
          /\ UNCHANGED <<known, checkVars, arrived, row, message>>
       \/ /\ \E j, k \in there : j # k
          /\ Rollback(n, "failed")
    /\ UNCHANGED <<faults, due, crossed>>

\* A followers row is deleted by the pair, a reaction by its identity.
UndoDelete(n) ==
    LET k == found[n][1] IN
    /\ pc[n] = "undo"
    /\ MayWrite(row, k, n)
    /\ row' = IF row[k].new = found[n][2] \/ k[2] = "Follow" THEN Write(row, k, Absent, n) ELSE row
    /\ Goto(n, "commit")
    /\ UNCHANGED <<known, checkVars, arrived, faults, message, found, due, crossed>>

(***************************************************************************)
(* get_db commits when the handler has returned.                           *)
(***************************************************************************)
Commit(n) ==
    /\ pc[n] = "commit"
    /\ known' = CommitRows(known, n)
    /\ row' = CommitRows(row, n)
    /\ End(n, "done")
    /\ Serve(n)
    /\ UNCHANGED faults

Die(n) ==
    /\ pc[n] \in Running
    /\ faults < MaxFaults
    /\ faults' = faults + 1
    /\ Rollback(n, "failed")
    /\ UNCHANGED <<due, crossed>>

\* Everything that will arrive has been served, and no task is left.
Quiescent ==
    /\ arrived = MaxActivities
    /\ \A n \in Activity : pc[n] \in Ended /\ check[n] \notin CheckPC
    /\ UNCHANGED vars

InboxStep(n) ==
    \/ RecordStep(n) /\ UNCHANGED inboxVars
    \/ Poisoned(n)
    \/ Insert(n) \/ AcceptTimeout(n)
    \/ UndoRead(n) \/ UndoDelete(n)
    \/ Commit(n)

TaskStep(n) == CheckStep(n) /\ UNCHANGED inboxVars

Next ==
    \/ \E n \in Activity :
        \/ \E m \in Message : Deliver(n, m)
        \/ CheckDie(n) /\ UNCHANGED inboxVars
        \/ InboxStep(n) \/ AcceptAnswered(n) \/ Refuse(n) \/ Die(n)
        \/ TaskStep(n)
    \/ Quiescent

Safety == Init /\ [][Next]_vars

\* The event loop resumes what can run, PostgreSQL hands on released locks,
\* httpx's timer fires, and a worker takes each queued task.
Fairness == \A n \in Activity : WF_vars(InboxStep(n)) /\ WF_vars(TaskStep(n))

Spec == Safety /\ Fairness

(***************************************************************************)
(* Properties                                                              *)
(***************************************************************************)
\* Past record_instance an activity has its domain to itself: no other activity
\* of the domain is being served, so what a handler has read of the domain's rows
\* is still there when it writes them, although nothing else locks them.
ServedAlone ==
    \A m, n \in Activity :
        /\ sender[m] = sender[n]
        /\ pc[m] \in {"admitted", "accept", "undo", "commit"}
        /\ pc[n] \in {"admitted", "accept", "undo", "commit"}
        => m = n

\* Duplicates, refusals, deaths and overlaps notwithstanding, the rows are those of
\* the activities served one after another by the documented rule, in the order of
\* their commits.  A reaction or follower that is not due is not there, and one that
\* is due is missing only where an Undo that names another has crossed it.
ServedInOrder ==
    \A k \in Key :
        /\ due[k] = Absent => row[k].old = Absent
        /\ row[k].old = Absent => due[k] = Absent \/ k \in crossed

\* app/models/reaction.py: "used to handle Undo correctly. When we receive
\* Undo{Like}, the object.id matches this field."
UndoMatchesItsActivity == \A k \in Key : k[2] # "Follow" => row[k].old = due[k]

\* Every activity is answered and every task ends, although an activity waits
\* for all its domain has sent before, and these for the other server.
ActivitiesEnd == []<>(\A n \in Activity : pc[n] \notin Running /\ check[n] \notin CheckPC)
=============================================================================
