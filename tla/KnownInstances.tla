--------------------------- MODULE KnownInstances ----------------------------
(***************************************************************************)
(* How an activity gets into the inbox: app/ap/instances.py               *)
(* (record_instance), the checks at the top of the inbox handler in        *)
(* app/routers/activitypub.py, and the NodeInfo task a new domain starts   *)
(* (app/tasks/instances.py).                                               *)
(*                                                                         *)
(* record_instance writes the row of the sender's domain in the            *)
(* transaction of the activity, so the row stays locked until the          *)
(* activity is served: meant as a timestamp, it makes the activities of a  *)
(* domain wait for one another.  Activities are numbered in the order they *)
(* arrive; the checking task of activity n is the transaction Checker(n).  *)
(* This module has no Next: Inbox serves what is let in.                   *)
(***************************************************************************)
EXTENDS Integers, RowVersions

CONSTANTS Domain,         \* other servers; each is one actor here
          MaxActivities,  \* bound: deliveries to the inbox
          MaxFaults       \* bound: transactions and tasks that die half way

ASSUME ActivitiesAssumption == MaxActivities \in Nat \ {0}
ASSUME FaultsAssumption == MaxFaults \in Nat

Activity == 1..MaxActivities
Checker(n) == MaxActivities + n
Txn == Activity \cup {Checker(n) : n \in Activity}

VARIABLES known,    \* known_instances: "checked" once the software is known
          pc,       \* where each activity is
          sender,   \* the domain it comes from
          check,    \* where its NodeInfo task is
          arrived,  \* activities received so far
          faults    \* transactions and tasks that have died

checkVars == <<sender, check>>
knownVars == <<known, pc, sender, check, arrived, faults>>

Instance == {"absent", "seen", "checked"}
RecordPC == {"record_insert", "record_update", "poisoned", "admitted"}
CheckPC == {"queued", "insert_seen", "insert_checked", "update", "commit"}

KnownTypeOK ==
    /\ known \in [Domain -> Versions(Instance, Txn)]
    /\ sender \in [Activity -> Domain \cup {Nobody}]
    /\ check \in [Activity -> {"none", "done"} \cup CheckPC]
    /\ arrived \in 0..MaxActivities
    /\ faults \in 0..MaxFaults

KnownInit ==
    /\ \E was \in [Domain -> Instance] : known = [d \in Domain |-> Committed(was[d])]
    /\ pc = [n \in Activity |-> "idle"]
    /\ sender = [n \in Activity |-> Nobody]
    /\ check = [n \in Activity |-> "none"]
    /\ arrived = 0
    /\ faults = 0

Goto(n, there) == pc' = [pc EXCEPT ![n] = there]

(***************************************************************************)
(* record_instance                                                         *)
(***************************************************************************)
\* The SELECT finds the domain, or a task is enqueued to look it up, at once.
\* (If the broker cannot be reached there is none; one that never runs is as good.)
Receive(n, d) ==
    /\ n = arrived + 1
    /\ arrived' = n
    /\ sender' = [sender EXCEPT ![n] = d]
    /\ IF known[d].old = "absent"
       THEN Goto(n, "record_insert") /\ check' = [check EXCEPT ![n] = "queued"]
       ELSE Goto(n, "record_update") /\ UNCHANGED check
    /\ UNCHANGED <<known, faults>>

\* The primary key is the domain.  The error of a second INSERT is swallowed,
\* but the session is left without a transaction to go on with.
RecordInsert(n) ==
    LET d == sender[n] IN
    /\ pc[n] = "record_insert"
    /\ MayWrite(known, d, n)
    /\ IF known[d].new = "absent"
       THEN known' = Write(known, d, "seen", n) /\ Goto(n, "admitted")
       ELSE Goto(n, "poisoned") /\ UNCHANGED known
    /\ UNCHANGED <<checkVars, arrived, faults>>

\* Mutant: last_seen is left alone for a domain already known.
RecordOnlyNew(n) ==
    /\ pc[n] = "record_update"
    /\ Goto(n, "admitted")
    /\ UNCHANGED <<known, checkVars, arrived, faults>>

\* Mutant: the whole row is written, as it was when the domain was first seen.
RecordWholeRow(n) ==
    /\ pc[n] = "record_update"
    /\ MayWrite(known, sender[n], n)
    /\ known' = Write(known, sender[n], "seen", n)
    /\ Goto(n, "admitted")
    /\ UNCHANGED <<checkVars, arrived, faults>>

\* Only last_seen is in the UPDATE: the software stays what it is.
RecordUpdate(n) ==
    LET d == sender[n] IN
    /\ pc[n] = "record_update"
    /\ MayWrite(known, d, n)
    /\ known' = Write(known, d, known[d].new, n)
    /\ Goto(n, "admitted")
    /\ UNCHANGED <<checkVars, arrived, faults>>

RecordStep(n) == RecordInsert(n) \/ RecordUpdate(n)

(***************************************************************************)
(* check_nodeinfo                                                          *)
(***************************************************************************)
\* fetch_nodeinfo answers or not, then the row is looked for.
CheckRead(n) ==
    /\ check[n] = "queued"
    /\ \E got \in BOOLEAN :
          check' = [check EXCEPT ![n] =
                      IF known[sender[n]].old = "absent"
                      THEN IF got THEN "insert_checked" ELSE "insert_seen"
                      ELSE IF got THEN "update" ELSE "done"]
    /\ UNCHANGED <<known, pc, sender, arrived, faults>>

\* A row committed since it was looked for makes the task log an error and give
\* up, and what NodeInfo said is lost.
CheckInsert(n) ==
    LET d == sender[n] IN
    /\ check[n] \in {"insert_seen", "insert_checked"}
    /\ MayWrite(known, d, Checker(n))
    /\ IF known[d].new = "absent"
       THEN /\ known' = Write(known, d, IF check[n] = "insert_seen" THEN "seen" ELSE "checked",
                              Checker(n))
            /\ check' = [check EXCEPT ![n] = "commit"]
       ELSE /\ check' = [check EXCEPT ![n] = "done"]
            /\ UNCHANGED known
    /\ UNCHANGED <<pc, sender, arrived, faults>>

CheckUpdate(n) ==
    /\ check[n] = "update"
    /\ MayWrite(known, sender[n], Checker(n))
    /\ known' = Write(known, sender[n], "checked", Checker(n))
    /\ check' = [check EXCEPT ![n] = "commit"]
    /\ UNCHANGED <<pc, sender, arrived, faults>>

CheckCommit(n) ==
    /\ check[n] = "commit"
    /\ known' = CommitRows(known, Checker(n))
    /\ check' = [check EXCEPT ![n] = "done"]
    /\ UNCHANGED <<pc, sender, arrived, faults>>

\* The worker is lost: PostgreSQL rolls back, the message is queued again.
CheckDie(n) ==
    /\ check[n] \in CheckPC \ {"queued"}
    /\ faults < MaxFaults
    /\ faults' = faults + 1
    /\ known' = RollbackRows(known, Checker(n))
    /\ check' = [check EXCEPT ![n] = "queued"]
    /\ UNCHANGED <<pc, sender, arrived>>

CheckStep(n) == CheckRead(n) \/ CheckInsert(n) \/ CheckUpdate(n) \/ CheckCommit(n)

(***************************************************************************)
(* Properties                                                              *)
(***************************************************************************)
\* What NodeInfo has told of a domain is not lost again to the activities that
\* were recorded meanwhile from an older reading of the row.
InfoIsKept ==
    [][\A d \in Domain : known[d].old = "checked" => known'[d].old = "checked"]_knownVars

\* record_instance: "Silently ignores errors to avoid blocking inbox processing".
RecordNeverBlocks == \A n \in Activity : pc[n] # "poisoned"
=============================================================================
