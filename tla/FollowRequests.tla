--------------------------- MODULE FollowRequests ----------------------------
(***************************************************************************)
(* Following a user of the same instance: the handlers of                  *)
(* app/routers/follow.py and the Accept branch of the inbox in             *)
(* app/routers/activitypub.py, over the tables follow_requests, followers  *)
(* and notifications.                                                      *)
(*                                                                         *)
(* An HTTP request is served in one database transaction, committed by     *)
(* get_db after the handler returns.  Handlers interleave at every await,  *)
(* so each statement is a step of its own.  The requests are numbered in   *)
(* the order they arrive.  Accepting a local request POSTs an Accept       *)
(* activity to the requester's inbox on this same instance before the      *)
(* commit: request n starts the inbox transaction Inbox(n).                *)
(*                                                                         *)
(* A request the first SELECT already answers (nothing pending, already    *)
(* following, not the followee's) changes nothing and is a stuttering step.*)
(***************************************************************************)
EXTENDS Integers, RowVersions

CONSTANTS Requester, Followee,  \* local users, by what they do here
          MaxRequests,          \* bound: HTTP requests from browsers
          MaxFaults             \* bound: transactions that die half way

ASSUME RequestsAssumption == MaxRequests \in Nat \ {0}
ASSUME FaultsAssumption == MaxFaults \in Nat

\* follow_user: target.id == current_user.id is answered before any write.
Pair == {p \in Requester \X Followee : p[1] # p[2]}
User == Requester \cup Followee
NoPair == << >>

Request == 1..MaxRequests
Inbox(n) == MaxRequests + n
InboxTxn == {Inbox(n) : n \in Request}
Txn == Request \cup InboxTxn

VARIABLES request,   \* follow_requests, one row per pair (uq_follow_request_pending)
          follower,  \* followers: whether the pair has a row (its primary key)
          notified,  \* the follow requests whose notification is committed
          pc,        \* where each transaction is
          pair,      \* the pair it works on
          seen,      \* the identity of the request row it read, 0 if none
          user,      \* current_user of each HTTP request
          arrived,   \* HTTP requests received so far
          faults     \* transactions that have died

tables == <<request, follower, notified>>
locals == <<pc, pair, seen, user>>
vars == <<request, follower, notified, pc, pair, seen, user, arrived, faults>>

Status == {"pending", "accepted", "rejected"}
NoRow == [id |-> 0, status |-> "absent"]
Row == [id : Request, status : Status]

FollowPC == {"follow_check", "follow_insert", "follow_commit"}
UnfollowPC == {"unfollow_delete", "unfollow_read", "unfollow_delete_request"}
AcceptPC == {"accept_insert", "accept_update", "accept_update_expired",
             "accept_deliver", "accept_deliver_expired", "accept_await"}
InboxPC == {"inbox_lookup", "inbox_fallback", "inbox_update"}
Running == FollowPC \cup UnfollowPC \cup AcceptPC \cup InboxPC \cup {"reject_update", "commit"}
Ended == {"done", "failed"}
PC == {"idle"} \cup Running \cup Ended

TypeOK ==
    /\ request \in [Pair -> Versions(Row \cup {NoRow}, Txn)]
    /\ follower \in [Pair -> Versions(BOOLEAN, Txn)]
    /\ notified \subseteq Request
    /\ pc \in [Txn -> PC]
    /\ pair \in [Txn -> Pair \cup {NoPair}]
    /\ seen \in [Txn -> {0} \cup Request]
    /\ user \in [Request -> User \cup {Nobody}]
    /\ arrived \in 0..MaxRequests
    /\ faults \in 0..MaxFaults

Init ==
    /\ request = [p \in Pair |-> Committed(NoRow)]
    /\ follower = [p \in Pair |-> Committed(FALSE)]
    /\ notified = {}
    /\ pc = [t \in Txn |-> "idle"]
    /\ pair = [t \in Txn |-> NoPair]
    /\ seen = [t \in Txn |-> 0]
    /\ user = [n \in Request |-> Nobody]
    /\ arrived = 0
    /\ faults = 0

(***************************************************************************)
(* Steps every handler is made of.                                         *)
(***************************************************************************)
Goto(t, there) == pc' = [pc EXCEPT ![t] = there]

\* The next request arrives: u acts on p, row i was read, there is its next step.
Arrive(p, u, i, there) ==
    /\ arrived < MaxRequests
    /\ arrived' = arrived + 1
    /\ Goto(arrived + 1, there)
    /\ pair' = [pair EXCEPT ![arrived + 1] = p]
    /\ seen' = [seen EXCEPT ![arrived + 1] = i]
    /\ user' = [user EXCEPT ![arrived + 1] = u]
    /\ UNCHANGED <<tables, faults>>

Rollback(t) ==
    /\ request' = RollbackRows(request, t)
    /\ follower' = RollbackRows(follower, t)
    /\ Goto(t, "failed")
    /\ UNCHANGED <<notified, pair, seen, user, arrived>>

Commit(t) ==
    /\ request' = CommitRows(request, t)
    /\ follower' = CommitRows(follower, t)
    /\ Goto(t, "done")
    /\ UNCHANGED <<pair, seen, user, arrived, faults>>

\* UPDATE follow_requests SET status = s WHERE id = seen[t].  The row may have
\* any status by now; if it is gone SQLAlchemy raises StaleDataError.
SetStatus(t, s, there) ==
    LET p == pair[t] IN
    /\ MayWrite(request, p, t)
    /\ IF request[p].new.id = seen[t]
       THEN /\ request' = Write(request, p, [id |-> seen[t], status |-> s], t)
            /\ Goto(t, there)
            /\ UNCHANGED <<follower, notified, pair, seen, user, arrived, faults>>
       ELSE Rollback(t) /\ UNCHANGED faults

(***************************************************************************)
(* POST /users/{username}/follow                                           *)
(***************************************************************************)
FollowBegin(p) ==
    /\ ~follower[p].old
    /\ Arrive(p, p[1], 0, "follow_check")

FollowCheck(t) ==
    /\ pc[t] = "follow_check"
    /\ Goto(t, IF request[pair[t]].old.status = "pending" THEN "done" ELSE "follow_insert")
    /\ UNCHANGED <<tables, pair, seen, user, arrived, faults>>

\* The unique constraint is on the pair, whatever the status of the row there:
\* the IntegrityError is caught, and the notification is made all the same.
FollowInsert(t) ==
    LET p == pair[t] IN
    /\ pc[t] = "follow_insert"
    /\ MayWrite(request, p, t)
    /\ request' = IF request[p].new = NoRow
                  THEN Write(request, p, [id |-> t, status |-> "pending"], t)
                  ELSE request
    /\ Goto(t, "follow_commit")
    /\ UNCHANGED <<follower, notified, pair, seen, user, arrived, faults>>

FollowCommit(t) ==
    /\ pc[t] = "follow_commit"
    /\ Commit(t)
    /\ notified' = notified \cup {t}

(***************************************************************************)
(* POST /users/{username}/unfollow                                         *)
(***************************************************************************)
UnfollowBegin(p) ==
    Arrive(p, p[1], 0, IF follower[p].old THEN "unfollow_delete" ELSE "unfollow_read")

\* Autoflush sends the DELETE before the next SELECT.  A row already gone only
\* makes SQLAlchemy warn.
UnfollowDelete(t) ==
    /\ pc[t] = "unfollow_delete"
    /\ MayWrite(follower, pair[t], t)
    /\ follower' = IF follower[pair[t]].new THEN Write(follower, pair[t], FALSE, t)
                                            ELSE follower
    /\ Goto(t, "unfollow_read")
    /\ UNCHANGED <<request, notified, pair, seen, user, arrived, faults>>

UnfollowRead(t) ==
    LET row == request[pair[t]].old IN
    /\ pc[t] = "unfollow_read"
    /\ seen' = [seen EXCEPT ![t] = row.id]
    /\ Goto(t, IF row = NoRow THEN "commit" ELSE "unfollow_delete_request")
    /\ UNCHANGED <<tables, pair, user, arrived, faults>>

\* Mutant: DELETE by followee and requester instead of by the identity read.
UnfollowDeletesAnyRow(t) ==
    /\ pc[t] = "unfollow_delete_request"
    /\ MayWrite(request, pair[t], t)
    /\ request' = Write(request, pair[t], NoRow, t)
    /\ Goto(t, "commit")
    /\ UNCHANGED <<follower, notified, pair, seen, user, arrived, faults>>

\* Mutant: the request is marked withdrawn, without its identity, not deleted.
UnfollowBlanksRow(t) ==
    /\ pc[t] = "unfollow_delete_request"
    /\ MayWrite(request, pair[t], t)
    /\ request' = Write(request, pair[t], [NoRow EXCEPT !.status = "rejected"], t)
    /\ Goto(t, "commit")
    /\ UNCHANGED <<follower, notified, pair, seen, user, arrived, faults>>

UnfollowDeleteRequest(t) ==
    LET p == pair[t] IN
    /\ pc[t] = "unfollow_delete_request"
    /\ MayWrite(request, p, t)
    /\ request' = IF request[p].new.id = seen[t] THEN Write(request, p, NoRow, t)
                                                 ELSE request
    /\ Goto(t, "commit")
    /\ UNCHANGED <<follower, notified, pair, seen, user, arrived, faults>>

(***************************************************************************)
(* POST /follow-requests/{id}/accept                                       *)
(***************************************************************************)
\* Mutant: the query does not ask whose request it is.
AcceptBeginAnyone(p, u) ==
    /\ request[p].old.status = "pending"
    /\ Arrive(p, u, request[p].old.id, "accept_insert")

AcceptBegin(p, u) ==
    /\ p[2] = u
    /\ request[p].old.status = "pending"
    /\ Arrive(p, u, request[p].old.id, "accept_insert")

\* Mutant: the follower row is committed on its own.
AcceptInsertCommits(t) ==
    /\ pc[t] = "accept_insert"
    /\ MayWrite(follower, pair[t], t)
    /\ follower' = [follower EXCEPT ![pair[t]] = Committed(TRUE)]
    /\ Goto(t, "accept_update")
    /\ UNCHANGED <<request, notified, pair, seen, user, arrived, faults>>

\* After an IntegrityError the rollback expires current_user and the request.
AcceptInsert(t) ==
    LET p == pair[t] IN
    /\ pc[t] = "accept_insert"
    /\ MayWrite(follower, p, t)
    /\ IF follower[p].new
       THEN UNCHANGED follower /\ Goto(t, "accept_update_expired")
       ELSE follower' = Write(follower, p, TRUE, t) /\ Goto(t, "accept_update")
    /\ UNCHANGED <<request, notified, pair, seen, user, arrived, faults>>

AcceptUpdate(t) ==
    \/ pc[t] = "accept_update" /\ SetStatus(t, "accepted", "accept_deliver")
    \/ pc[t] = "accept_update_expired" /\ SetStatus(t, "accepted", "accept_deliver_expired")

\* The Accept reaches the inbox of the requester, a request to this instance.
AcceptDeliver(t) ==
    /\ pc[t] = "accept_deliver"
    /\ pc' = [pc EXCEPT ![t] = "accept_await", ![Inbox(t)] = "inbox_lookup"]
    /\ pair' = [pair EXCEPT ![Inbox(t)] = pair[t]]
    /\ seen' = [seen EXCEPT ![Inbox(t)] = seen[t]]
    /\ UNCHANGED <<tables, user, arrived, faults>>

\* The connection fails: _deliver_ap logs it and returns.
AcceptUndelivered(t) ==
    /\ pc[t] = "accept_deliver"
    /\ Goto(t, "commit")
    /\ UNCHANGED <<tables, pair, seen, user, arrived, faults>>

\* _deliver_ap reads sender.ap_id of an expired object outside the greenlet:
\* MissingGreenlet, so get_db rolls everything back.
AcceptExpired(t) ==
    /\ pc[t] = "accept_deliver_expired"
    /\ Rollback(t)
    /\ UNCHANGED faults

AcceptAnswered(t) ==
    /\ pc[t] = "accept_await"
    /\ pc[Inbox(t)] \in Ended
    /\ Goto(t, "commit")
    /\ UNCHANGED <<tables, pair, seen, user, arrived, faults>>

\* Mutant: httpx.AsyncClient(timeout=None).
AcceptWaitsForever(t) == AcceptAnswered(t)

\* httpx gives up after 10 seconds; the inbox transaction goes on.
AcceptTimeout(t) ==
    /\ pc[t] = "accept_await"
    /\ Goto(t, "commit")
    /\ UNCHANGED <<tables, pair, seen, user, arrived, faults>>

(***************************************************************************)
(* POST /follow-requests/{id}/reject; nothing is delivered to a local user.*)
(***************************************************************************)
RejectBegin(p, u) ==
    /\ p[2] = u
    /\ request[p].old.status = "pending"
    /\ Arrive(p, u, request[p].old.id, "reject_update")

\* Mutant: the reject goes on to delete a followers row.
RejectRemovesFollower(t) ==
    pc[t] = "reject_update" /\ SetStatus(t, "rejected", "unfollow_delete")

RejectUpdate(t) == pc[t] = "reject_update" /\ SetStatus(t, "rejected", "commit")

(***************************************************************************)
(* POST /users/{username}/inbox with the Accept just delivered.            *)
(***************************************************************************)
\* The rate limit, the federation policy, the actor fetch or the signature
\* check turns the activity away.
InboxRefuse(t) ==
    /\ pc[t] = "inbox_lookup"
    /\ Goto(t, "failed")
    /\ UNCHANGED <<tables, pair, seen, user, arrived, faults>>

\* Mutant: only the requester named in the Follow activity is looked at.
InboxLooksByRequester(t) ==
    /\ pc[t] = "inbox_lookup"
    /\ Goto(t, "inbox_fallback")
    /\ UNCHANGED <<tables, pair, seen, user, arrived, faults>>

\* By the identity of the Follow activity, one per request row.
InboxLookup(t) ==
    /\ pc[t] = "inbox_lookup"
    /\ Goto(t, IF request[pair[t]].old = [id |-> seen[t], status |-> "pending"]
               THEN "inbox_update" ELSE "inbox_fallback")
    /\ UNCHANGED <<tables, pair, seen, user, arrived, faults>>

\* Otherwise by the requester alone, whoever the followee: two rows are
\* MultipleResultsFound.
OpenRequests(r) == {p \in Pair : p[1] = r /\ request[p].old.status = "pending"}

InboxFallback(t) ==
    LET open == OpenRequests(pair[t][1]) IN
    /\ pc[t] = "inbox_fallback"
    /\ \/ /\ open = {}
          /\ Goto(t, "done")
          /\ UNCHANGED <<pair, seen>>
       \/ \E p \in open :
            /\ open = {p}
            /\ Goto(t, "inbox_update")
            /\ pair' = [pair EXCEPT ![t] = p]
            /\ seen' = [seen EXCEPT ![t] = request[p].old.id]
       \/ /\ \E p, q \in open : p # q
          /\ Goto(t, "failed")
          /\ UNCHANGED <<pair, seen>>
    /\ UNCHANGED <<tables, user, arrived, faults>>

InboxUpdate(t) == pc[t] = "inbox_update" /\ SetStatus(t, "accepted", "commit")

(***************************************************************************)
(* get_db commits when the handler has returned.                           *)
(***************************************************************************)
CommitStep(t) == pc[t] = "commit" /\ Commit(t) /\ UNCHANGED notified

\* The connection drops or the process stops: PostgreSQL rolls back.
Die(t) ==
    /\ pc[t] \in Running
    /\ faults < MaxFaults
    /\ faults' = faults + 1
    /\ Rollback(t)

\* Nothing is left to do: every request was answered and no more will come.
Quiescent ==
    /\ arrived = MaxRequests
    /\ \A t \in Txn : pc[t] \notin Running
    /\ UNCHANGED vars

Begin == \E p \in Pair :
    \/ FollowBegin(p)
    \/ UnfollowBegin(p)
    \/ \E u \in User : AcceptBegin(p, u) \/ RejectBegin(p, u)

\* The steps the event loop and the timers carry out on their own.
HandlerStep(n) ==
    \/ FollowCheck(n) \/ FollowInsert(n) \/ FollowCommit(n)
    \/ UnfollowDelete(n) \/ UnfollowRead(n) \/ UnfollowDeleteRequest(n)
    \/ AcceptInsert(n) \/ AcceptUpdate(n) \/ AcceptDeliver(n) \/ AcceptExpired(n)
    \/ AcceptAnswered(n) \/ AcceptTimeout(n)
    \/ RejectUpdate(n)
    \/ CommitStep(n)

InboxStep(t) == InboxLookup(t) \/ InboxFallback(t) \/ InboxUpdate(t) \/ CommitStep(t)

Next ==
    \/ Begin
    \/ \E n \in Request : HandlerStep(n) \/ AcceptUndelivered(n)
    \/ \E t \in InboxTxn : InboxStep(t) \/ InboxRefuse(t)
    \/ \E t \in Txn : Die(t)
    \/ Quiescent

Safety == Init /\ [][Next]_vars

\* uvicorn's event loop resumes every coroutine that can run, PostgreSQL hands
\* a released row lock to a waiter, and httpx's timer fires.
Fairness == /\ \A n \in Request : WF_vars(HandlerStep(n))
            /\ \A t \in InboxTxn : WF_vars(InboxStep(t))

Spec == Safety /\ Fairness

(***************************************************************************)
(* Properties                                                              *)
(***************************************************************************)
\* Users of the same instance become followers only by the followee's word:
\* a followers row appears only in the commit of an accept of the followee's
\* own, and the same commit leaves the request it read accepted, however the
\* accept, a reject, an unfollow and an inbox delivery overlapped.
FollowerOnlyByConsent ==
    [][\A p \in Pair : ~follower[p].old /\ follower'[p].old =>
         \E n \in Request : /\ pc[n] = "commit" /\ pc'[n] = "done"
                            /\ user[n] = p[2] /\ pair[n] = p
                            /\ request'[p].old = [id |-> seen[n], status |-> "accepted"]
      ]_vars

\* What a transaction still has to lock.
WaitsForFollower(t) == pc[t] \in {"unfollow_delete", "accept_insert"}
WaitsForRequest(t) == pc[t] \in {"follow_insert", "unfollow_delete_request", "accept_update",
                                 "accept_update_expired", "reject_update", "inbox_update"}

\* No two handlers can deadlock in the database: every handler locks followers
\* before follow_requests and asks for nothing more once it holds a request row.
LockOrder ==
    /\ \A t \in Holders(request) : ~WaitsForFollower(t) /\ ~WaitsForRequest(t)
    /\ \A t \in Holders(follower) : ~WaitsForFollower(t)

\* The Accept a handler sends to its own instance is not answered with 202 while
\* the handler waits for it: the inbox transaction finds the request still
\* pending, then waits for the row the handler has updated and not committed.
\* Only a refusal, a failure or the 10 second timer ends the wait, unless a
\* reject was committed first, which the accept then overwrites.
OwnAcceptNotServed ==
    \A n \in Request :
        pc[n] = "accept_await" /\ request[pair[n]].old = [id |-> seen[n], status |-> "pending"]
        => pc[Inbox(n)] \in {"inbox_lookup", "inbox_update", "failed"}

\* A request row leaves the table only by its own requester's unfollow, and a
\* decision is never taken back to pending: an unfollow that read an earlier
\* row does not remove a later one.
RowsOnlyWithdrawn ==
    [][\A p \in Pair : request[p].old # NoRow =>
         \/ request'[p].old.id = request[p].old.id
            /\ (request[p].old.status # "pending" => request'[p].old.status # "pending")
         \/ /\ request'[p].old = NoRow
            /\ \E n \in Request : /\ pc[n] = "commit" /\ user[n] = p[1]
                               /\ seen[n] = request[p].old.id
      ]_vars

\* Every request is answered and every transaction ends, so no lock outlives
\* its request, although an accept waits for a request that waits for it.
RequestsEnd == []<>(\A t \in Txn : pc[t] \notin Running)

\* What is committed goes through the lifecycle of FollowLifecycle, one pair and
\* one of its five steps at a time.
Lifecycle == INSTANCE FollowLifecycle WITH
    Id <- Request,
    row <- [p \in Pair |-> request[p].old],
    following <- {p \in Pair : follower[p].old}

FollowsLifecycle == Lifecycle!Spec

\* follow_request.py, "accepted -> followee accepted; a Follower row has been
\* created".
AcceptedHasFollower ==
    \A p \in Pair : request[p].old.status = "accepted" => follower[p].old
=============================================================================
