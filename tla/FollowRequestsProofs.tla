------------------------ MODULE FollowRequestsProofs -------------------------
(***************************************************************************)
(* Proofs about FollowRequests for every set of users and every bound: its *)
(* inductive invariant, and what that says of the commits, of the          *)
(* refinement of FollowLifecycle, and of what an accept waits for.         *)
(***************************************************************************)
EXTENDS FollowRequests, TLAPS

HandlerPC == FollowPC \cup UnfollowPC \cup AcceptPC \cup {"reject_update"}

\* Where a transaction has read a request row and goes by its identity.
SeenPC == AcceptPC \cup {"reject_update", "inbox_lookup", "inbox_update",
                         "unfollow_delete_request"}

\* What each transaction carries, whatever the tables say: the pair it works on,
\* who it acts for, the row it read; only inbox transactions look up Accepts.
Local ==
    \A t \in Txn :
        /\ pc[t] # "idle" => pair[t] \in Pair
        /\ pc[t] \in HandlerPC => t \in Request
        /\ pc[t] \in InboxPC => t \in InboxTxn
        /\ pc[t] \in UnfollowPC => user[t] = pair[t][1]
        /\ pc[t] \in AcceptPC => user[t] = pair[t][2]
        /\ pc[t] \in SeenPC => seen[t] \in Request
        /\ t \in Request /\ t > arrived => pc[t] = "idle"

(***************************************************************************)
(* Type correctness                                                        *)
(***************************************************************************)
LEMMA TxnFacts ==
    /\ Request \subseteq Txn /\ InboxTxn \subseteq Txn
    /\ Nobody \notin Txn /\ Nobody = 0
    /\ Request \cap InboxTxn = {}
    /\ \A t \in Txn : t \in Nat
    /\ \A n \in Request : Inbox(n) \in InboxTxn
    /\ \A m, n \in Request : Inbox(m) = Inbox(n) => m = n
  BY RequestsAssumption DEF Request, InboxTxn, Inbox, Txn, Nobody

\* A row version written, committed or rolled back is still a row version.
LEMMA WriteTyped ==
    ASSUME NEW V, NEW T, NEW K, NEW tbl \in [K -> Versions(V, T)],
           NEW k \in K, NEW v \in V, NEW t \in T
    PROVE  Write(tbl, k, v, t) \in [K -> Versions(V, T)]
  BY DEF Versions, Write

LEMMA SettledTyped ==
    ASSUME NEW V, NEW T, NEW K, NEW tbl \in [K -> Versions(V, T)], NEW t
    PROVE  /\ CommitRows(tbl, t) \in [K -> Versions(V, T)]
           /\ RollbackRows(tbl, t) \in [K -> Versions(V, T)]
  BY DEF Versions, CommitRows, RollbackRows, Committed

Typed == TypeOK /\ Local

\* One request's Arrive, with the row it read or none.
LEMMA ArriveTyped ==
    ASSUME Typed, NEW p \in Pair, NEW u \in User, NEW i \in {0} \cup Request, NEW there \in PC,
           Arrive(p, u, i, there),
           there \in HandlerPC,
           there \in UnfollowPC => u = p[1],
           there \in AcceptPC => u = p[2],
           there \in SeenPC => i \in Request
    PROVE  Typed'
<1>1. arrived + 1 \in Request /\ arrived' = arrived + 1 /\ arrived \in Nat /\ arrived' \in 0..MaxRequests
  BY RequestsAssumption DEF Arrive, Request, Typed, TypeOK
<1>2. TypeOK'
  BY <1>1, TxnFacts DEF Arrive, Goto, tables, Typed, TypeOK
<1>3. Local'
  BY <1>1, TxnFacts DEF Arrive, Goto, tables, Typed, TypeOK, Local, HandlerPC, InboxPC, FollowPC, UnfollowPC, AcceptPC
<1>4. QED  BY <1>2, <1>3 DEF Typed

LEMMA RollbackTyped ==
    ASSUME Typed, NEW t \in Txn, pc[t] # "idle", Rollback(t), faults' \in 0..MaxFaults
    PROVE  Typed'
<1>1. request' \in [Pair -> Versions(Row \cup {NoRow}, Txn)]
  BY SettledTyped DEF Rollback, Typed, TypeOK
<1>2. follower' \in [Pair -> Versions(BOOLEAN, Txn)]
  BY SettledTyped DEF Rollback, Typed, TypeOK
<1>3. TypeOK'
  BY <1>1, <1>2 DEF Rollback, Goto, PC, Ended, Typed, TypeOK
<1>4. Local'
  BY DEF Rollback, Goto, Typed, TypeOK, Local, HandlerPC, SeenPC, InboxPC, FollowPC, UnfollowPC, AcceptPC
<1>5. QED  BY <1>3, <1>4 DEF Typed

LEMMA CommitTyped ==
    ASSUME Typed, NEW t \in Txn, pc[t] # "idle", Commit(t), notified' \subseteq Request
    PROVE  Typed'
<1>1. request' \in [Pair -> Versions(Row \cup {NoRow}, Txn)]
  BY SettledTyped DEF Commit, Typed, TypeOK
<1>2. follower' \in [Pair -> Versions(BOOLEAN, Txn)]
  BY SettledTyped DEF Commit, Typed, TypeOK
<1>3. TypeOK'
  BY <1>1, <1>2 DEF Commit, Goto, PC, Ended, Typed, TypeOK
<1>4. Local'
  BY DEF Commit, Goto, Typed, TypeOK, Local, HandlerPC, SeenPC, InboxPC, FollowPC, UnfollowPC, AcceptPC
<1>5. QED  BY <1>3, <1>4 DEF Typed

LEMMA SetStatusTyped ==
    ASSUME Typed, NEW t \in Txn, pc[t] \in SeenPC, NEW s \in Status,
           NEW there \in {"commit", "accept_deliver", "accept_deliver_expired"},
           there # "commit" => pc[t] \in AcceptPC,
           SetStatus(t, s, there)
    PROVE  Typed'
<1>1. seen[t] \in Request /\ pair[t] \in Pair /\ pc[t] # "idle"
  BY DEF Typed, Local, SeenPC, AcceptPC
<1>2. CASE request[pair[t]].new.id = seen[t]
  <2>1. [id |-> seen[t], status |-> s] \in Row \cup {NoRow}
    BY <1>1 DEF Row
  <2>2. request' = Write(request, pair[t], [id |-> seen[t], status |-> s], t)
    BY <1>2 DEF SetStatus
  <2>3. request' \in [Pair -> Versions(Row \cup {NoRow}, Txn)]
    <3>1. request \in [Pair -> Versions(Row \cup {NoRow}, Txn)]
      BY DEF Typed, TypeOK
    <3>2. \A v \in Row \cup {NoRow} :
            Write(request, pair[t], v, t) \in [Pair -> Versions(Row \cup {NoRow}, Txn)]
      BY <1>1, <3>1, WriteTyped
    <3>3. QED  BY <2>1, <2>2, <3>2
  <2>4. TypeOK'
    BY <1>2, <2>3 DEF SetStatus, Goto, PC, Running, AcceptPC, Typed, TypeOK
  <2>5. Local'
    BY <1>1, <1>2 DEF SetStatus, Goto, Typed, TypeOK, Local, HandlerPC, SeenPC, InboxPC, FollowPC, UnfollowPC, AcceptPC
  <2>6. QED  BY <2>4, <2>5 DEF Typed
<1>3. CASE request[pair[t]].new.id # seen[t]
  BY <1>1, <1>3, RollbackTyped DEF SetStatus, Typed, TypeOK
<1>4. QED  BY <1>2, <1>3

\* A step that touches no table and moves the transactions of one request.
LEMMA LocalStepTyped ==
    ASSUME Typed, NEW t \in Txn, NEW there \in PC, pc[t] # "idle",
           Goto(t, there), UNCHANGED <<tables, pair, seen, user, arrived, faults>>,
           there \in HandlerPC => t \in Request,
           there \in InboxPC => t \in InboxTxn,
           there \in UnfollowPC => pc[t] \in UnfollowPC,
           there \in AcceptPC => pc[t] \in AcceptPC,
           there \in SeenPC => pc[t] \in SeenPC
    PROVE  Typed'
  BY DEF Typed, TypeOK, Local, Goto, tables, HandlerPC, InboxPC, FollowPC, UnfollowPC, AcceptPC, SeenPC

\* A step of a handler that may write the row of its pair.
LEMMA RequestStepTyped ==
    ASSUME Typed, NEW t \in Request, NEW v \in Row \cup {NoRow}, NEW there \in {"commit", "follow_commit"},
           pc[t] \in HandlerPC, Goto(t, there),
           request' \in {request, Write(request, pair[t], v, t)},
           UNCHANGED <<follower, notified, pair, seen, user, arrived, faults>>
    PROVE  Typed'
<1>1. t \in Txn /\ pc[t] # "idle" /\ pair[t] \in Pair
  BY TxnFacts DEF Typed, Local, HandlerPC, FollowPC, UnfollowPC, AcceptPC
<1>2. request' \in [Pair -> Versions(Row \cup {NoRow}, Txn)]
  <2>1. request \in [Pair -> Versions(Row \cup {NoRow}, Txn)]
    BY DEF Typed, TypeOK
  <2>2. \A w \in Row \cup {NoRow} :
          Write(request, pair[t], w, t) \in [Pair -> Versions(Row \cup {NoRow}, Txn)]
    BY <1>1, <2>1, WriteTyped
  <2>3. QED  BY <2>1, <2>2
<1>3. TypeOK'
  BY <1>1, <1>2 DEF Goto, Typed, TypeOK, PC, Running, FollowPC
<1>4. Local'
  BY <1>1 DEF Goto, Typed, TypeOK, Local, HandlerPC, SeenPC, InboxPC, FollowPC, UnfollowPC, AcceptPC
<1>5. QED  BY <1>3, <1>4 DEF Typed

\* A step of a handler that may write the follower row of its pair.
LEMMA FollowerStepTyped ==
    ASSUME Typed, NEW t \in Request, NEW v \in BOOLEAN,
           NEW there \in {"unfollow_read", "accept_update", "accept_update_expired"},
           pc[t] \in HandlerPC, Goto(t, there),
           there = "unfollow_read" => pc[t] \in UnfollowPC,
           there # "unfollow_read" => pc[t] \in AcceptPC,
           follower' \in {follower, Write(follower, pair[t], v, t)},
           UNCHANGED <<request, notified, pair, seen, user, arrived, faults>>
    PROVE  Typed'
<1>1. t \in Txn /\ pc[t] # "idle" /\ pair[t] \in Pair
  BY TxnFacts DEF Typed, Local, HandlerPC, FollowPC, UnfollowPC, AcceptPC
<1>2. follower' \in [Pair -> Versions(BOOLEAN, Txn)]
  BY <1>1, WriteTyped DEF Typed, TypeOK
<1>3. TypeOK'
  BY <1>1, <1>2 DEF Goto, Typed, TypeOK, PC, Running, UnfollowPC, AcceptPC
<1>4. Local'
  BY <1>1 DEF Goto, Typed, TypeOK, Local, HandlerPC, SeenPC, InboxPC, FollowPC, UnfollowPC, AcceptPC
<1>5. QED  BY <1>3, <1>4 DEF Typed

LEMMA BeginTyped ==
    ASSUME Typed, Begin
    PROVE  Typed'
<1>1. PICK p \in Pair : \/ FollowBegin(p) \/ UnfollowBegin(p)
                        \/ \E u \in User : AcceptBegin(p, u) \/ RejectBegin(p, u)
  BY DEF Begin
<1>2. p[1] \in User /\ request[p].old \in Row \cup {NoRow}
  BY DEF Pair, User, Typed, TypeOK, Versions
<1>3. CASE FollowBegin(p)
  BY <1>2, <1>3, ArriveTyped
  DEF FollowBegin, HandlerPC, SeenPC, FollowPC, UnfollowPC, AcceptPC, PC, Running
<1>4. CASE UnfollowBegin(p)
  BY <1>2, <1>4, ArriveTyped
  DEF UnfollowBegin, HandlerPC, SeenPC, FollowPC, UnfollowPC, AcceptPC, PC, Running
<1>5. ASSUME NEW u \in User, AcceptBegin(p, u) \/ RejectBegin(p, u)
      PROVE  Typed'
  <2>1. request[p].old.id \in Request
    BY <1>2, <1>5 DEF AcceptBegin, RejectBegin, NoRow, Row
  <2>2. CASE AcceptBegin(p, u)
    BY <2>1, <2>2, ArriveTyped
    DEF AcceptBegin, HandlerPC, SeenPC, FollowPC, UnfollowPC, AcceptPC, PC, Running
  <2>3. CASE RejectBegin(p, u)
    BY <2>1, <2>3, ArriveTyped
    DEF RejectBegin, HandlerPC, SeenPC, FollowPC, UnfollowPC, AcceptPC, PC, Running
  <2>4. QED  BY <1>5, <2>2, <2>3
<1>6. QED  BY <1>1, <1>3, <1>4, <1>5

LEMMA HandlerTyped ==
    ASSUME Typed, NEW n \in Request, HandlerStep(n) \/ AcceptUndelivered(n)
    PROVE  Typed'
<1> n \in Txn
  BY TxnFacts
<1> USE DEF PC, Running, Ended, HandlerPC, SeenPC, FollowPC, UnfollowPC, AcceptPC, InboxPC
<1>1. CASE FollowCheck(n)
  BY <1>1, LocalStepTyped DEF FollowCheck
<1>2. CASE FollowInsert(n)
  <2>1. [id |-> n, status |-> "pending"] \in Row \cup {NoRow}
    BY DEF Row, Status
  <2>2. request' \in {request, Write(request, pair[n], [id |-> n, status |-> "pending"], n)}
    BY <1>2 DEF FollowInsert
  <2>3. QED  BY <1>2, <2>1, <2>2, RequestStepTyped DEF FollowInsert
<1>3. CASE FollowCommit(n)
  BY <1>3, CommitTyped DEF FollowCommit, Typed, TypeOK
<1>4. CASE UnfollowDelete(n)
  BY <1>4, FollowerStepTyped DEF UnfollowDelete
<1>5. CASE UnfollowRead(n)
  <2>1. pair[n] \in Pair
    BY <1>5 DEF UnfollowRead, Typed, Local
  <2>2. request[pair[n]].old \in Row \cup {NoRow}
    BY <2>1 DEF Typed, TypeOK, Versions
  <2>3. /\ request[pair[n]].old.id \in {0} \cup Request
        /\ request[pair[n]].old # NoRow => request[pair[n]].old.id \in Request
    BY <2>2 DEF Row, NoRow
  <2>4. TypeOK'
    BY <1>5, <2>3 DEF UnfollowRead, Goto, tables, Typed, TypeOK
  <2>5. Local'
    BY <1>5, <2>3 DEF UnfollowRead, Goto, tables, Typed, TypeOK, Local
  <2>6. QED  BY <2>4, <2>5 DEF Typed
<1>6. CASE UnfollowDeleteRequest(n)
  BY <1>6, RequestStepTyped DEF UnfollowDeleteRequest
<1>7. CASE AcceptInsert(n)
  BY <1>7, FollowerStepTyped DEF AcceptInsert
<1>8. CASE AcceptUpdate(n)
  BY <1>8, SetStatusTyped DEF AcceptUpdate, Status
<1>9. CASE AcceptDeliver(n)
  <2>1. Inbox(n) \in InboxTxn /\ Inbox(n) \in Txn /\ Inbox(n) # n /\ Inbox(n) \notin Request
    BY TxnFacts
  <2>2. pair[n] \in Pair /\ seen[n] \in Request
    BY <1>9 DEF AcceptDeliver, Typed, Local
  <2>3. TypeOK'
    BY <1>9, <2>1, <2>2 DEF AcceptDeliver, tables, Typed, TypeOK
  <2>4. Local'
    BY <1>9, <2>1, <2>2 DEF AcceptDeliver, tables, Typed, TypeOK, Local
  <2>5. QED  BY <2>3, <2>4 DEF Typed
<1>10. CASE AcceptExpired(n)
  BY <1>10, RollbackTyped DEF AcceptExpired, Typed, TypeOK
<1>11. CASE AcceptAnswered(n) \/ AcceptTimeout(n) \/ AcceptUndelivered(n)
  BY <1>11, LocalStepTyped DEF AcceptAnswered, AcceptTimeout, AcceptUndelivered
<1>12. CASE RejectUpdate(n)
  BY <1>12, SetStatusTyped DEF RejectUpdate, Status
<1>13. CASE CommitStep(n)
  BY <1>13, CommitTyped DEF CommitStep, Typed, TypeOK
<1>14. QED
  BY <1>1, <1>2, <1>3, <1>4, <1>5, <1>6, <1>7, <1>8, <1>9, <1>10, <1>11, <1>12, <1>13 DEF HandlerStep

LEMMA InboxTyped ==
    ASSUME Typed, NEW t \in InboxTxn, InboxStep(t) \/ InboxRefuse(t)
    PROVE  Typed'
<1> t \in Txn
  BY TxnFacts
<1> USE DEF PC, Running, Ended, HandlerPC, SeenPC, FollowPC, UnfollowPC, AcceptPC, InboxPC
<1>1. CASE InboxLookup(t) \/ InboxRefuse(t)
  BY <1>1, LocalStepTyped DEF InboxLookup, InboxRefuse
<1>2. CASE InboxFallback(t)
  <2>1. CASE UNCHANGED <<pair, seen>> /\ (Goto(t, "done") \/ Goto(t, "failed"))
    BY <1>2, <2>1, LocalStepTyped DEF InboxFallback
  <2>2. ASSUME NEW p \in OpenRequests(pair[t][1]), Goto(t, "inbox_update"),
               pair' = [pair EXCEPT ![t] = p], seen' = [seen EXCEPT ![t] = request[p].old.id]
        PROVE  Typed'
    <3>1. p \in Pair /\ request[p].old \in Row \cup {NoRow} /\ request[p].old.status = "pending"
      BY <2>2 DEF OpenRequests, Typed, TypeOK, Versions
    <3>2. request[p].old.id \in Request
      BY <3>1 DEF Row, NoRow
    <3>3. TypeOK'
      BY <1>2, <2>2, <3>1, <3>2 DEF InboxFallback, Goto, tables, Typed, TypeOK
    <3>4. Local'
      BY <1>2, <2>2, <3>1, <3>2, TxnFacts DEF InboxFallback, Goto, tables, Typed, TypeOK, Local
    <3>5. QED  BY <3>3, <3>4 DEF Typed
  <2>3. QED  BY <1>2, <2>1, <2>2 DEF InboxFallback
<1>3. CASE InboxUpdate(t)
  BY <1>3, SetStatusTyped DEF InboxUpdate, Status
<1>4. CASE CommitStep(t)
  BY <1>4, CommitTyped DEF CommitStep, Typed, TypeOK
<1>5. QED  BY <1>1, <1>2, <1>3, <1>4 DEF InboxStep

LEMMA TypedInvariant == Safety => []Typed
<1>1. Init => Typed
  BY TxnFacts, RequestsAssumption, FaultsAssumption
  DEF Init, Typed, TypeOK, Local, Committed, Versions, NoRow, PC, Running, Ended, Pair,
      HandlerPC, SeenPC, FollowPC, UnfollowPC, AcceptPC, InboxPC
<1>2. ASSUME Typed, [Next]_vars
      PROVE  Typed'
  <2>1. CASE Begin
    BY <1>2, <2>1, BeginTyped
  <2>2. ASSUME NEW n \in Request, HandlerStep(n) \/ AcceptUndelivered(n)
        PROVE  Typed'
    BY <1>2, <2>2, HandlerTyped
  <2>3. ASSUME NEW t \in InboxTxn, InboxStep(t) \/ InboxRefuse(t)
        PROVE  Typed'
    BY <1>2, <2>3, InboxTyped
  <2>4. ASSUME NEW t \in Txn, Die(t)
        PROVE  Typed'
    <3>1. pc[t] # "idle" /\ faults' \in 0..MaxFaults
      BY <1>2, <2>4, FaultsAssumption
      DEF Die, Typed, TypeOK, Running, FollowPC, UnfollowPC, AcceptPC, InboxPC
    <3>2. QED  BY <1>2, <2>4, <3>1, RollbackTyped DEF Die
  <2>5. CASE UNCHANGED vars
    BY <1>2, <2>5 DEF vars, Typed, TypeOK, Local
  <2>6. QED  BY <1>2, <2>1, <2>2, <2>3, <2>4, <2>5 DEF Next, Quiescent
<1>3. QED  BY <1>1, <1>2, PTL DEF Safety

\* Every variable keeps its type: no handler, race or failure leaves a request
\* row without an identity or a status the code does not know.
THEOREM TypeCorrect == Spec => []TypeOK
  BY TypedInvariant, PTL DEF Spec, Typed

(***************************************************************************)
(* Locks and uncommitted rows                                              *)
(***************************************************************************)
\* Where a transaction that holds a follow_requests row can be.
HoldsRequestPC == {"follow_commit", "commit", "accept_deliver", "accept_deliver_expired",
                   "accept_await"}

\* Where a transaction that holds a followers row can be.
HoldsFollowerPC == {"unfollow_read", "unfollow_delete_request", "accept_update",
                    "accept_deliver", "accept_await", "commit"}

\* A row nobody holds has one version; a held row is the pair its holder works
\* on, and its holder is past the statement that wrote it.
RequestLock(p) ==
    LET t == request[p].by IN
    IF t = Nobody THEN request[p].new = request[p].old
    ELSE pair[t] = p /\ pc[t] \in HoldsRequestPC

FollowerLock(p) ==
    LET t == follower[p].by IN
    IF t = Nobody THEN follower[p].new = follower[p].old
    ELSE pair[t] = p /\ pc[t] \in HoldsFollowerPC

\* The new version of a held request row: a row where there was none, made by a
\* follow, or the same row decided or deleted by the transaction that read it.
RequestWrite(p) ==
    LET t == request[p].by IN t # Nobody =>
    \/ /\ pc[t] = "follow_commit"
       /\ request[p].old = NoRow
       /\ request[p].new = [id |-> t, status |-> "pending"]
    \/ /\ pc[t] # "follow_commit"
       /\ request[p].old # NoRow
       /\ request[p].old.id = seen[t]
       /\ \/ request[p].new \in [id : {seen[t]}, status : {"accepted", "rejected"}]
          \/ request[p].new = NoRow /\ pc[t] = "commit" /\ t \in Request /\ user[t] = p[1]

\* A held followers row that is to exist is an accept's, run by the followee;
\* once past its UPDATE it also holds the request row, accepted.  One that is to
\* go is an unfollow's, which does nothing to the request row but delete it.
FollowerWrite(p) ==
    LET t == follower[p].by IN t # Nobody =>
    \/ /\ follower[p].new /\ ~follower[p].old
       /\ t \in Request /\ user[t] = p[2]
       /\ \/ pc[t] = "accept_update"
          \/ /\ pc[t] \in {"accept_deliver", "accept_await", "commit"}
             /\ request[p].by = t
             /\ request[p].new = [id |-> seen[t], status |-> "accepted"]
    \/ /\ ~follower[p].new
       /\ \/ pc[t] \in {"unfollow_read", "unfollow_delete_request"}
          \/ pc[t] = "commit" /\ (request[p].by = t => request[p].new = NoRow)

\* An accept past its INSERT holds the followers row, past its UPDATE the request row.
AcceptHolds(t) ==
    /\ pc[t] \in {"accept_update", "accept_deliver", "accept_await"} =>
         follower[pair[t]].by = t /\ follower[pair[t]].new
    /\ pc[t] \in {"accept_deliver", "accept_deliver_expired", "accept_await"} =>
         request[pair[t]].by = t

RowInv(p) == RequestLock(p) /\ FollowerLock(p) /\ RequestWrite(p) /\ FollowerWrite(p)

Locks == (\A p \in Pair : RowInv(p)) /\ (\A t \in Txn : AcceptHolds(t))

\* The holders of a pair's rows.
HolderOf(p) == {request[p].by, follower[p].by} \ {Nobody}

SameLocals(t) == pc'[t] = pc[t] /\ pair'[t] = pair[t] /\ seen'[t] = seen[t]
                 /\ (t \in Request => user'[t] = user[t])

LEMMA HolderFacts ==
    ASSUME Typed, Locks, NEW p \in Pair
    PROVE  \A t \in HolderOf(p) : t \in Txn /\ pair[t] = p /\ pc[t] \in HoldsRequestPC \cup HoldsFollowerPC
  BY DEF Typed, TypeOK, Versions, Locks, RowInv, RequestLock, FollowerLock, HolderOf

\* A pair whose rows and holders a step leaves alone keeps the invariant.
LEMMA RowFrame ==
    ASSUME Typed, Locks, NEW p \in Pair,
           request'[p] = request[p], follower'[p] = follower[p],
           \A t \in HolderOf(p) : SameLocals(t)
    PROVE  RowInv(p)'
<1>1. RowInv(p)
  BY DEF Locks
<1>2. RequestLock(p)' /\ RequestWrite(p)'
  <2>1. CASE request[p].by = Nobody
    BY <1>1, <2>1 DEF RowInv, RequestLock, RequestWrite
  <2>2. CASE request[p].by # Nobody
    BY <1>1, <2>2 DEF RowInv, RequestLock, RequestWrite, HolderOf, SameLocals
  <2>3. QED  BY <2>1, <2>2
<1>3. FollowerLock(p)' /\ FollowerWrite(p)'
  <2>1. CASE follower[p].by = Nobody
    BY <1>1, <2>1 DEF RowInv, FollowerLock, FollowerWrite
  <2>2. CASE follower[p].by # Nobody
    BY <1>1, <2>2 DEF RowInv, FollowerLock, FollowerWrite, HolderOf, SameLocals
  <2>3. QED  BY <2>1, <2>2
<1>4. QED  BY <1>2, <1>3 DEF RowInv

\* So does a transaction a step leaves alone, when its rows stay as they are.
LEMMA AcceptFrame ==
    ASSUME Typed, Locks, NEW t \in Txn, SameLocals(t),
           pc[t] \in AcceptPC => request'[pair[t]] = request[pair[t]] \/ request[pair[t]].by # t,
           pc[t] \in AcceptPC => follower'[pair[t]] = follower[pair[t]] \/ follower[pair[t]].by # t
    PROVE  AcceptHolds(t)'
  BY DEF Locks, AcceptHolds, SameLocals, AcceptPC

LEMMA ArriveLocks ==
    ASSUME Typed, Locks, NEW p, NEW u, NEW i,
           NEW there \in {"follow_check", "unfollow_delete", "unfollow_read", "accept_insert",
                          "reject_update"},
           Arrive(p, u, i, there)
    PROVE  Locks'
<1> DEFINE n == arrived + 1
<1>1. n \in Request /\ n \in Txn /\ pc[n] = "idle"
  <2>1. n \in Request /\ n > arrived
    BY RequestsAssumption DEF Arrive, Request, Typed, TypeOK
  <2>2. QED  BY <2>1, TxnFacts DEF Typed, Local
<1>2. \A t \in Txn \ {n} : SameLocals(t)
  BY <1>1, TxnFacts DEF Arrive, Goto, SameLocals, Typed, TypeOK
<1>3. UNCHANGED <<request, follower>> /\ pc'[n] = there
  BY <1>1 DEF Arrive, Goto, tables, Typed, TypeOK
<1> HIDE DEF n
<1>4. ASSUME NEW q \in Pair
      PROVE  RowInv(q)'
  <2>1. n \notin HolderOf(q)
    BY <1>1, HolderFacts DEF HoldsRequestPC, HoldsFollowerPC
  <2>2. QED  BY <1>2, <1>3, <2>1, HolderFacts, RowFrame
<1>5. ASSUME NEW t \in Txn
      PROVE  AcceptHolds(t)'
  <2>1. CASE t = n
    BY <1>3, <2>1 DEF AcceptHolds
  <2>2. CASE t # n
    BY <1>2, <1>3, <2>2, AcceptFrame
  <2>3. QED  BY <2>1, <2>2
<1>6. QED  BY <1>4, <1>5 DEF Locks

LEMMA BeginLocks ==
    ASSUME Typed, Locks, Begin
    PROVE  Locks'
<1>1. PICK p \in Pair : \/ FollowBegin(p) \/ UnfollowBegin(p)
                        \/ \E u \in User : AcceptBegin(p, u) \/ RejectBegin(p, u)
  BY DEF Begin
<1>2. CASE FollowBegin(p)
  BY <1>2, ArriveLocks DEF FollowBegin
<1>3. CASE UnfollowBegin(p)
  BY <1>3, ArriveLocks DEF UnfollowBegin
<1>4. CASE \E u \in User : AcceptBegin(p, u) \/ RejectBegin(p, u)
  BY <1>4, ArriveLocks DEF AcceptBegin, RejectBegin
<1>5. QED  BY <1>1, <1>2, <1>3, <1>4

\* A step of t that writes no row: t holds nothing, or holds on to what it holds
\* in a place where it may.
LEMMA QuietStepLocks ==
    ASSUME Typed, Locks, NEW t \in Txn, NEW there, Goto(t, there),
           UNCHANGED <<request, follower, user>>,
           \A r \in Txn \ {t} : SameLocals(r),
           there \notin {"accept_update", "accept_deliver", "accept_deliver_expired", "accept_await"},
           \/ pc[t] \notin HoldsRequestPC \cup HoldsFollowerPC
           \/ pair' = pair /\ seen' = seen /\ pc[t] \in {"accept_deliver", "accept_await"} /\ there = "commit"
    PROVE  Locks'
<1>1. pc'[t] = there
  BY DEF Goto, Typed, TypeOK
<1>2. ASSUME NEW q \in Pair
      PROVE  RowInv(q)'
  <2>1. CASE t \notin HolderOf(q)
    BY <2>1, HolderFacts, RowFrame
  <2>2. CASE t \in HolderOf(q)
    <3>1. pair' = pair /\ seen' = seen /\ pc[t] \in {"accept_deliver", "accept_await"} /\ there = "commit" /\ pair[t] = q
      BY <2>2, HolderFacts
    <3>2. request[q].by = t /\ follower[q].by = t /\ t # Nobody
      BY <3>1, TxnFacts DEF Locks, AcceptHolds
    <3>3. RowInv(q)
      BY DEF Locks
    <3>4. QED
      BY <1>1, <3>1, <3>2, <3>3
      DEF RowInv, RequestLock, FollowerLock, RequestWrite, FollowerWrite, HoldsRequestPC, HoldsFollowerPC
  <2>3. QED  BY <2>1, <2>2
<1>3. ASSUME NEW r \in Txn
      PROVE  AcceptHolds(r)'
  <2>1. CASE r = t
    BY <1>1, <2>1 DEF AcceptHolds
  <2>2. CASE r # t
    BY <2>2, AcceptFrame
  <2>3. QED  BY <2>1, <2>2
<1>4. QED  BY <1>2, <1>3 DEF Locks

\* The end of a transaction settles the rows it held and leaves the others.
LEMMA SettledRow ==
    ASSUME NEW V, NEW T, NEW K, NEW tbl \in [K -> Versions(V, T)], NEW t, NEW q \in K,
           NEW after \in {CommitRows(tbl, t), RollbackRows(tbl, t)}
    PROVE  /\ tbl[q].by # t => after[q] = tbl[q]
           /\ tbl[q].by = t => after[q].by = Nobody /\ after[q].new = after[q].old
<1>1. CASE after = CommitRows(tbl, t)
  BY <1>1 DEF CommitRows, Committed, Versions
<1>2. CASE after = RollbackRows(tbl, t)
  BY <1>2 DEF RollbackRows, Committed, Versions
<1>3. QED  BY <1>1, <1>2

\* A transaction ends: whatever it held is settled and held by nobody.
LEMMA SettleLocks ==
    ASSUME Typed, Locks, NEW t \in Txn, Commit(t) \/ Rollback(t)
    PROVE  Locks'
<1>1. pc'[t] \in Ended /\ \A r \in Txn \ {t} : SameLocals(r)
  BY DEF Commit, Rollback, Goto, SameLocals, Ended, Typed, TypeOK
<1>2. \A q \in Pair : /\ request[q].by # t => request'[q] = request[q]
                      /\ follower[q].by # t => follower'[q] = follower[q]
                      /\ request[q].by = t => request'[q].by = Nobody /\ request'[q].new = request'[q].old
                      /\ follower[q].by = t => follower'[q].by = Nobody /\ follower'[q].new = follower'[q].old
  <2>1. request' \in {CommitRows(request, t), RollbackRows(request, t)}
        /\ follower' \in {CommitRows(follower, t), RollbackRows(follower, t)}
    BY DEF Commit, Rollback
  <2>2. PICK V, W : request \in [Pair -> Versions(V, Txn)] /\ follower \in [Pair -> Versions(W, Txn)]
    BY DEF Typed, TypeOK
  <2>3. QED
    <3>1. TAKE q \in Pair
    <3>2. /\ request[q].by # t => request'[q] = request[q]
          /\ request[q].by = t => request'[q].by = Nobody /\ request'[q].new = request'[q].old
      BY <2>1, <2>2, SettledRow
    <3>3. /\ follower[q].by # t => follower'[q] = follower[q]
          /\ follower[q].by = t => follower'[q].by = Nobody /\ follower'[q].new = follower'[q].old
      BY <2>1, <2>2, SettledRow
    <3>4. QED  BY <3>2, <3>3
<1>3. ASSUME NEW q \in Pair
      PROVE  RowInv(q)'
  <2>1. CASE t \notin HolderOf(q)
    <3>1. request'[q] = request[q] /\ follower'[q] = follower[q]
      BY <1>2, <2>1, TxnFacts DEF HolderOf
    <3>2. QED  BY <1>1, <2>1, <3>1, HolderFacts, RowFrame
  <2>2. CASE t \in HolderOf(q)
    <3>1. RowInv(q)
      BY DEF Locks
    <3>2. RequestLock(q)' /\ RequestWrite(q)'
      <4>1. CASE request[q].by = t
        BY <1>2, <4>1 DEF RequestLock, RequestWrite
      <4>2. CASE request[q].by # t
        BY <1>1, <1>2, <3>1, <4>2, HolderFacts
        DEF RowInv, RequestLock, RequestWrite, HolderOf, SameLocals
      <4>3. QED  BY <4>1, <4>2
    <3>3. FollowerLock(q)' /\ FollowerWrite(q)'
      <4>1. CASE follower[q].by = t
        BY <1>2, <4>1 DEF FollowerLock, FollowerWrite
      <4>2. CASE follower[q].by # t
        BY <1>1, <1>2, <3>1, <4>2, HolderFacts
        DEF RowInv, FollowerLock, FollowerWrite, HolderOf, SameLocals
      <4>3. QED  BY <4>1, <4>2
    <3>4. QED  BY <3>2, <3>3 DEF RowInv
  <2>3. QED  BY <2>1, <2>2
<1>4. ASSUME NEW r \in Txn
      PROVE  AcceptHolds(r)'
  <2>1. CASE r = t
    BY <1>1, <2>1 DEF AcceptHolds, Ended
  <2>2. CASE r # t
    <3>1. pc[r] \in AcceptPC => pair[r] \in Pair
      BY DEF Typed, Local, AcceptPC
    <3>2. QED  BY <1>1, <1>2, <2>2, <3>1, AcceptFrame
  <2>3. QED  BY <2>1, <2>2
<1>5. QED  BY <1>3, <1>4 DEF Locks

\* t writes the request row of its pair, which it may, and goes on.
LEMMA RequestWriteLocks ==
    ASSUME Typed, Locks, NEW t \in Txn, NEW v, NEW there \in HoldsRequestPC,
           pair[t] \in Pair, MayWrite(request, pair[t], t),
           request' = Write(request, pair[t], v, t),
           Goto(t, there), UNCHANGED <<follower, pair, seen, user>>,
           pc[t] \notin HoldsRequestPC,
           \/ there = "follow_commit" /\ request[pair[t]].old = NoRow
              /\ v = [id |-> t, status |-> "pending"]
           \/ /\ there # "follow_commit"
              /\ request[pair[t]].old # NoRow /\ request[pair[t]].old.id = seen[t]
              /\ \/ v = [id |-> seen[t], status |-> "accepted"]
                 \/ v = [id |-> seen[t], status |-> "rejected"] /\ there = "commit"
                 \/ v = NoRow /\ there = "commit" /\ t \in Request /\ user[t] = pair[t][1],
           \/ pc[t] = "accept_update" /\ there = "accept_deliver"
              /\ v = [id |-> seen[t], status |-> "accepted"]
           \/ pc[t] = "accept_update_expired" /\ there = "accept_deliver_expired"
           \/ pc[t] = "unfollow_delete_request" /\ there = "commit" /\ v = NoRow
           \/ pc[t] \in {"follow_insert", "reject_update", "inbox_update"}
              /\ there \in {"follow_commit", "commit"}
    PROVE  Locks'
<1> DEFINE p == pair[t]
<1>1. /\ request'[p] = [old |-> request[p].old, new |-> v, by |-> t]
      /\ \A q \in Pair \ {p} : request'[q] = request[q]
      /\ pc'[t] = there /\ t # Nobody
      /\ \A r \in Txn \ {t} : SameLocals(r)
  BY TxnFacts DEF Write, Goto, SameLocals, Typed, TypeOK
<1>2. request[p].by = Nobody
  BY HolderFacts DEF MayWrite, Locks, RowInv, RequestLock
<1>3. RowInv(p)'
  <2>1. RequestLock(p)'
    BY <1>1 DEF RequestLock
  <2>2. RequestWrite(p)'
    BY <1>1 DEF RequestWrite
  <2>3. RowInv(p)
    BY DEF Locks
  <2>4. CASE follower[p].by = t
    <3>1. pc[t] \in HoldsFollowerPC
      BY <1>1, <2>3, <2>4 DEF RowInv, FollowerLock
    <3>2. FollowerLock(p)'
      BY <1>1, <2>4, <3>1 DEF FollowerLock, HoldsFollowerPC
    <3>3. FollowerWrite(p)'
      BY <1>1, <2>3, <2>4, <3>1 DEF RowInv, FollowerWrite, HoldsFollowerPC
    <3>4. QED  BY <2>1, <2>2, <3>2, <3>3 DEF RowInv
  <2>5. CASE follower[p].by # t
    <3>1. FollowerLock(p)'
      BY <1>1, <2>3, <2>5, HolderFacts DEF RowInv, FollowerLock, HolderOf, SameLocals
    <3>2. FollowerWrite(p)'
      BY <1>1, <1>2, <2>3, <2>5, HolderFacts DEF RowInv, FollowerWrite, HolderOf, SameLocals
    <3>3. QED  BY <2>1, <2>2, <3>1, <3>2 DEF RowInv
  <2>6. QED  BY <2>4, <2>5
<1>4. ASSUME NEW q \in Pair, q # p
      PROVE  RowInv(q)'
  <2>1. t \notin HolderOf(q)
    BY <1>4, HolderFacts
  <2>2. QED  BY <1>1, <1>4, <2>1, HolderFacts, RowFrame
<1>5. ASSUME NEW r \in Txn
      PROVE  AcceptHolds(r)'
  <2>1. CASE r = t
    BY <1>1, <2>1 DEF Locks, AcceptHolds
  <2>2. CASE r # t
    <3>1. pc[r] \in AcceptPC => pair[r] \in Pair
      BY DEF Typed, Local, AcceptPC
    <3>2. request[pair[r]].by = r => pair[r] # p \/ pc[r] \notin AcceptPC
      BY <1>2, <3>1, TxnFacts
    <3>3. QED  BY <1>1, <2>2, <3>1, <3>2, AcceptFrame
  <2>3. QED  BY <2>1, <2>2
<1>6. QED  BY <1>3, <1>4, <1>5 DEF Locks

\* t writes the followers row of its pair, which it may, and goes on.
LEMMA FollowerWriteLocks ==
    ASSUME Typed, Locks, NEW t \in Request, NEW v \in BOOLEAN, NEW there,
           pair[t] \in Pair, MayWrite(follower, pair[t], t),
           follower' = Write(follower, pair[t], v, t),
           Goto(t, there), UNCHANGED <<request, pair, seen, user>>,
           pc[t] \in {"unfollow_delete", "accept_insert"},
           \/ v = FALSE /\ there = "unfollow_read"
           \/ v = TRUE /\ there = "accept_update" /\ ~follower[pair[t]].new /\ user[t] = pair[t][2]
    PROVE  Locks'
<1> DEFINE p == pair[t]
<1> t \in Txn
  BY TxnFacts
<1>1. /\ follower'[p] = [old |-> follower[p].old, new |-> v, by |-> t]
      /\ \A q \in Pair \ {p} : follower'[q] = follower[q]
      /\ pc'[t] = there /\ t # Nobody
      /\ \A r \in Txn \ {t} : SameLocals(r)
  BY TxnFacts DEF Write, Goto, SameLocals, Typed, TypeOK
<1>2. follower[p].by = Nobody /\ follower[p].old = follower[p].new /\ request[p].by # t
  BY <1>1 DEF MayWrite, Locks, RowInv, RequestLock, FollowerLock, HoldsRequestPC, HoldsFollowerPC
<1>3. RowInv(p)'
  <2>1. FollowerLock(p)'
    BY <1>1 DEF FollowerLock, HoldsFollowerPC
  <2>2. FollowerWrite(p)'
    BY <1>1, <1>2 DEF FollowerWrite
  <2>3. RequestLock(p)' /\ RequestWrite(p)'
    BY <1>1, <1>2, HolderFacts DEF Locks, RowInv, RequestLock, RequestWrite, HolderOf, SameLocals
  <2>4. QED  BY <2>1, <2>2, <2>3 DEF RowInv
<1>4. ASSUME NEW q \in Pair, q # p
      PROVE  RowInv(q)'
  <2>1. t \notin HolderOf(q)
    BY <1>4, HolderFacts
  <2>2. QED  BY <1>1, <1>4, <2>1, HolderFacts, RowFrame
<1>5. ASSUME NEW r \in Txn
      PROVE  AcceptHolds(r)'
  <2>1. CASE r = t
    BY <1>1, <2>1 DEF AcceptHolds
  <2>2. CASE r # t
    <3>1. pc[r] \in AcceptPC => pair[r] \in Pair
      BY DEF Typed, Local, AcceptPC
    <3>2. follower[pair[r]].by = r => pair[r] # p \/ pc[r] \notin AcceptPC
      BY <1>2, <3>1, TxnFacts
    <3>3. QED  BY <1>1, <2>2, <3>1, <3>2, AcceptFrame
  <2>3. QED  BY <2>1, <2>2
<1>6. QED  BY <1>3, <1>4, <1>5 DEF Locks

LEMMA SetStatusLocks ==
    ASSUME Typed, Locks, NEW t \in Txn, NEW s \in {"accepted", "rejected"},
           NEW there \in {"commit", "accept_deliver", "accept_deliver_expired"},
           SetStatus(t, s, there),
           \/ pc[t] = "accept_update" /\ there = "accept_deliver" /\ s = "accepted"
           \/ pc[t] = "accept_update_expired" /\ there = "accept_deliver_expired" /\ s = "accepted"
           \/ pc[t] \in {"reject_update", "inbox_update"} /\ there = "commit"
    PROVE  Locks'
<1>1. pair[t] \in Pair /\ seen[t] \in Request /\ pc[t] \notin HoldsRequestPC
  BY DEF Typed, Local, SeenPC, AcceptPC, HoldsRequestPC
<1>2. CASE request[pair[t]].new.id # seen[t]
  BY <1>2, SettleLocks DEF SetStatus
<1>3. CASE request[pair[t]].new.id = seen[t]
  <2>1. request[pair[t]].by = Nobody /\ request[pair[t]].old = request[pair[t]].new
    BY <1>1, <1>3 DEF SetStatus, MayWrite, Locks, RowInv, RequestLock
  <2>2. request[pair[t]].old # NoRow
    BY <1>1, <1>3, <2>1, TxnFacts DEF NoRow, Nobody
  <2>3. QED
    BY <1>1, <1>3, <2>1, <2>2, RequestWriteLocks DEF SetStatus, HoldsRequestPC
<1>4. QED  BY <1>2, <1>3

\* An unfollow step that writes no row; the followers row it may hold is going.
LEMMA UnfollowStepLocks ==
    ASSUME Typed, Locks, NEW t \in Txn, NEW there \in {"commit", "unfollow_delete_request"},
           pc[t] \in {"unfollow_read", "unfollow_delete_request"},
           Goto(t, there), UNCHANGED <<request, follower, pair, user>>,
           \A r \in Txn \ {t} : seen'[r] = seen[r]
    PROVE  Locks'
<1>1. pc'[t] = there /\ \A r \in Txn \ {t} : SameLocals(r)
  BY DEF Goto, SameLocals, Typed, TypeOK
<1>2. ASSUME NEW q \in Pair
      PROVE  RowInv(q)'
  <2>1. CASE t \notin HolderOf(q)
    BY <1>1, <2>1, HolderFacts, RowFrame
  <2>2. CASE t \in HolderOf(q)
    <3>1. RowInv(q) /\ t # Nobody
      BY <2>2 DEF Locks, HolderOf
    <3>2. request[q].by # t /\ follower[q].by = t /\ ~follower[q].new
      BY <2>2, <3>1 DEF RowInv, RequestLock, FollowerWrite, HolderOf, HoldsRequestPC
    <3>3. FollowerLock(q)' /\ FollowerWrite(q)'
      BY <1>1, <3>1, <3>2 DEF RowInv, FollowerLock, FollowerWrite, HoldsFollowerPC
    <3>4. RequestLock(q)' /\ RequestWrite(q)'
      BY <1>1, <3>1, <3>2, HolderFacts DEF RowInv, RequestLock, RequestWrite, HolderOf, SameLocals
    <3>5. QED  BY <3>3, <3>4 DEF RowInv
  <2>3. QED  BY <2>1, <2>2
<1>3. ASSUME NEW r \in Txn
      PROVE  AcceptHolds(r)'
  <2>1. CASE r = t
    BY <1>1, <2>1 DEF AcceptHolds
  <2>2. CASE r # t
    BY <1>1, <2>2, AcceptFrame
  <2>3. QED  BY <2>1, <2>2
<1>4. QED  BY <1>2, <1>3 DEF Locks

\* The inbox transaction of a request starts after the request delivered, so it
\* is idle, and holds nothing, until then.
LatePC == {"accept_await", "commit", "done", "failed"}
InboxAfter == \A n \in Request : pc[Inbox(n)] # "idle" => pc[n] \in LatePC

LEMMA DeliverLocks ==
    ASSUME Typed, Locks, InboxAfter, NEW n \in Request, AcceptDeliver(n)
    PROVE  Locks'
<1> DEFINE i == Inbox(n)
<1>1. i \in Txn /\ n \in Txn /\ i # n /\ pc[i] = "idle" /\ n # Nobody
  BY TxnFacts DEF AcceptDeliver, InboxAfter, LatePC
<1>2. /\ pc'[n] = "accept_await" /\ pc'[i] = "inbox_lookup"
      /\ pair'[n] = pair[n] /\ seen'[n] = seen[n] /\ user' = user
      /\ UNCHANGED <<request, follower>>
      /\ \A r \in Txn \ {n, i} : SameLocals(r)
  BY <1>1 DEF AcceptDeliver, tables, SameLocals, Typed, TypeOK
<1> HIDE DEF i
<1>3. ASSUME NEW q \in Pair
      PROVE  RowInv(q)'
  <2>1. i \notin HolderOf(q)
    BY <1>1, HolderFacts DEF HoldsRequestPC, HoldsFollowerPC
  <2>2. CASE n \notin HolderOf(q)
    BY <1>2, <2>1, <2>2, HolderFacts, RowFrame
  <2>3. CASE n \in HolderOf(q)
    <3>1. pair[n] = q /\ RowInv(q) /\ pc[n] = "accept_deliver"
      BY <2>3, HolderFacts DEF Locks, AcceptDeliver
    <3>2. request[q].by = n /\ follower[q].by = n
      BY <1>1, <3>1 DEF Locks, AcceptHolds
    <3>3. QED
      BY <1>1, <1>2, <3>1, <3>2
      DEF RowInv, RequestLock, FollowerLock, RequestWrite, FollowerWrite, HoldsRequestPC, HoldsFollowerPC
  <2>4. QED  BY <2>2, <2>3
<1>4. ASSUME NEW r \in Txn
      PROVE  AcceptHolds(r)'
  <2>1. CASE r = n
    BY <1>1, <1>2, <2>1 DEF Locks, AcceptHolds, AcceptDeliver
  <2>2. CASE r = i
    BY <1>2, <2>2 DEF AcceptHolds
  <2>3. CASE r \notin {n, i}
    BY <1>2, <2>3, AcceptFrame
  <2>4. QED  BY <2>1, <2>2, <2>3
<1>5. QED  BY <1>3, <1>4 DEF Locks

LEMMA HandlerLocks ==
    ASSUME Typed, Locks, InboxAfter, NEW n \in Request, HandlerStep(n) \/ AcceptUndelivered(n)
    PROVE  Locks'
<1>1. n \in Txn /\ (pc[n] # "idle" => pair[n] \in Pair)
  BY TxnFacts DEF Typed, Local
<1>2. \A there \in PC : Goto(n, there) /\ UNCHANGED <<pair, seen, user>> =>
        \A r \in Txn \ {n} : SameLocals(r)
  BY DEF Goto, SameLocals, Typed, TypeOK
<1> USE DEF HoldsRequestPC, HoldsFollowerPC
<1>3. CASE FollowCheck(n)
  BY <1>1, <1>2, <1>3, QuietStepLocks DEF FollowCheck, tables, PC, Running, Ended, FollowPC
<1>4. CASE FollowInsert(n)
  <2>1. CASE request[pair[n]].new = NoRow
    <3>1. request[pair[n]].old = NoRow
      BY <1>1, <1>4, <2>1 DEF FollowInsert, MayWrite, Locks, RowInv, RequestLock
    <3>2. QED  BY <1>1, <1>4, <2>1, <3>1, RequestWriteLocks DEF FollowInsert
  <2>2. CASE request[pair[n]].new # NoRow
    BY <1>1, <1>2, <1>4, <2>2, QuietStepLocks DEF FollowInsert, PC, Running, FollowPC
  <2>3. QED  BY <2>1, <2>2
<1>5. CASE FollowCommit(n) \/ AcceptExpired(n) \/ CommitStep(n)
  BY <1>1, <1>5, SettleLocks DEF FollowCommit, AcceptExpired, CommitStep
<1>6. CASE UnfollowDelete(n)
  <2>1. CASE follower[pair[n]].new
    BY <1>1, <1>6, <2>1, FollowerWriteLocks DEF UnfollowDelete
  <2>2. CASE ~follower[pair[n]].new
    BY <1>1, <1>2, <1>6, <2>2, QuietStepLocks DEF UnfollowDelete, PC, Running, UnfollowPC
  <2>3. QED  BY <2>1, <2>2
<1>7. CASE UnfollowRead(n)
  BY <1>1, <1>7, UnfollowStepLocks DEF UnfollowRead, tables, Typed, TypeOK
<1>8. CASE UnfollowDeleteRequest(n)
  <2>1. seen[n] \in Request /\ user[n] = pair[n][1] /\ pair[n] \in Pair
    BY <1>1, <1>8 DEF UnfollowDeleteRequest, Typed, Local, SeenPC, UnfollowPC
  <2>2. CASE request[pair[n]].new.id = seen[n]
    <3>1. request[pair[n]].by = Nobody /\ request[pair[n]].old = request[pair[n]].new
      BY <1>8, <2>1 DEF UnfollowDeleteRequest, MayWrite, Locks, RowInv, RequestLock
    <3>2. request[pair[n]].old # NoRow /\ request[pair[n]].old.id = seen[n]
      BY <2>1, <2>2, <3>1, TxnFacts DEF NoRow, Nobody
    <3>3. QED  BY <1>1, <1>8, <2>1, <2>2, <3>2, RequestWriteLocks DEF UnfollowDeleteRequest
  <2>3. CASE request[pair[n]].new.id # seen[n]
    BY <1>1, <1>8, <2>3, UnfollowStepLocks DEF UnfollowDeleteRequest
  <2>4. QED  BY <2>2, <2>3
<1>9. CASE AcceptInsert(n)
  <2>1. user[n] = pair[n][2] /\ pair[n] \in Pair
    BY <1>1, <1>9 DEF AcceptInsert, Typed, Local, AcceptPC
  <2>2. CASE follower[pair[n]].new
    BY <1>1, <1>2, <1>9, <2>2, QuietStepLocks DEF AcceptInsert, PC, Running, AcceptPC
  <2>3. CASE ~follower[pair[n]].new
    BY <1>1, <1>9, <2>1, <2>3, FollowerWriteLocks DEF AcceptInsert
  <2>4. QED  BY <2>2, <2>3
<1>10. CASE AcceptUpdate(n)
  BY <1>1, <1>10, SetStatusLocks DEF AcceptUpdate
<1>11. CASE AcceptDeliver(n)
  BY <1>11, DeliverLocks
<1>12. CASE AcceptAnswered(n) \/ AcceptTimeout(n) \/ AcceptUndelivered(n)
  BY <1>1, <1>2, <1>12, QuietStepLocks
  DEF AcceptAnswered, AcceptTimeout, AcceptUndelivered, tables, PC, Running
<1>13. CASE RejectUpdate(n)
  BY <1>1, <1>13, SetStatusLocks DEF RejectUpdate
<1>14. QED
  BY <1>3, <1>4, <1>5, <1>6, <1>7, <1>8, <1>9, <1>10, <1>11, <1>12, <1>13 DEF HandlerStep

LEMMA InboxLocks ==
    ASSUME Typed, Locks, NEW t \in InboxTxn, InboxStep(t) \/ InboxRefuse(t)
    PROVE  Locks'
<1>1. t \in Txn
  BY TxnFacts
<1> USE DEF HoldsRequestPC, HoldsFollowerPC
<1>2. CASE InboxLookup(t) \/ InboxRefuse(t) \/ InboxFallback(t)
  <2>1. \A r \in Txn \ {t} : SameLocals(r)
    BY <1>2 DEF InboxLookup, InboxRefuse, InboxFallback, Goto, tables, SameLocals, Typed, TypeOK
  <2>2. PICK there \in {"failed", "inbox_update", "inbox_fallback", "done"} : Goto(t, there)
    BY <1>2 DEF InboxLookup, InboxRefuse, InboxFallback
  <2>3. UNCHANGED <<request, follower, user>> /\ pc[t] \in {"inbox_lookup", "inbox_fallback"}
    BY <1>2 DEF InboxLookup, InboxRefuse, InboxFallback, tables
  <2>4. QED  BY <1>1, <2>1, <2>2, <2>3, QuietStepLocks
<1>3. CASE InboxUpdate(t)
  BY <1>1, <1>3, SetStatusLocks DEF InboxUpdate
<1>4. CASE CommitStep(t)
  BY <1>1, <1>4, SettleLocks DEF CommitStep
<1>5. QED  BY <1>2, <1>3, <1>4 DEF InboxStep

(***************************************************************************)
(* What a step may do to the rows and transactions of others               *)
(***************************************************************************)
OldsKept == \A q \in Pair : request'[q].old = request[q].old /\ follower'[q].old = follower[q].old

\* A step of t alone: it touches no other transaction and no row held by another,
\* and changes what others read only by committing.
StepOf(t) ==
    /\ \A r \in Txn \ {t} : SameLocals(r)
    /\ pc[t] # "idle" /\ pc'[t] # "idle"
    /\ pc[t] \in LatePC => pc'[t] \in LatePC
    /\ pc'[t] # "accept_await"
    /\ \A q \in Pair : request[q].by \notin {t, Nobody} => request'[q] = request[q]
    /\ OldsKept \/ (Commit(t) /\ pc[t] \in {"commit", "follow_commit"})

LEMMA WriteEffect ==
    ASSUME NEW V, NEW T, NEW K, NEW tbl \in [K -> Versions(V, T)], NEW t, NEW k, NEW v,
           MayWrite(tbl, k, t), NEW q \in K
    PROVE  /\ Write(tbl, k, v, t)[q].old = tbl[q].old
           /\ tbl[q].by \notin {t, Nobody} => Write(tbl, k, v, t)[q] = tbl[q]
  BY DEF Write, MayWrite, Versions

LEMMA RollbackEffect ==
    ASSUME NEW V, NEW T, NEW K, NEW tbl \in [K -> Versions(V, T)], NEW t, NEW q \in K
    PROVE  /\ RollbackRows(tbl, t)[q].old = tbl[q].old
           /\ tbl[q].by # t => RollbackRows(tbl, t)[q] = tbl[q]
           /\ tbl[q].by # t => CommitRows(tbl, t)[q] = tbl[q]
  BY DEF RollbackRows, CommitRows, Committed, Versions

LEMMA RollbackStep ==
    ASSUME Typed, NEW t \in Txn, pc[t] # "idle", Rollback(t)
    PROVE  StepOf(t)
  BY RollbackEffect DEF StepOf, OldsKept, Rollback, Goto, SameLocals, LatePC, Typed, TypeOK

LEMMA CommitIsStep ==
    ASSUME Typed, NEW t \in Txn, pc[t] \in {"commit", "follow_commit"}, Commit(t)
    PROVE  StepOf(t)
  BY RollbackEffect DEF StepOf, Commit, Goto, SameLocals, LatePC, Typed, TypeOK

LEMMA WriteStep ==
    ASSUME Typed, NEW t \in Txn, pc[t] \notin {"idle", "done", "failed", "commit"},
           NEW there \in PC, there \notin {"idle", "accept_await"}, pc[t] = "accept_await" => there = "commit",
           Goto(t, there), NEW k, NEW v, NEW w,
           \/ request' = request
           \/ MayWrite(request, k, t) /\ request' = Write(request, k, v, t),
           \/ follower' = follower
           \/ MayWrite(follower, k, t) /\ follower' = Write(follower, k, w, t),
           \A r \in Txn \ {t} : pair'[r] = pair[r] /\ seen'[r] = seen[r],
           user' = user
    PROVE  StepOf(t)
<1>1. \A r \in Txn \ {t} : SameLocals(r)
  BY DEF SameLocals, Goto, Typed, TypeOK
<1>2. /\ pc[t] # "idle" /\ pc'[t] \notin {"idle", "accept_await"}
      /\ pc[t] \in LatePC => pc'[t] \in LatePC
  BY DEF Goto, LatePC, Typed, TypeOK
<1>3. \A q \in Pair : /\ request'[q].old = request[q].old
                      /\ request[q].by \notin {t, Nobody} => request'[q] = request[q]
  BY WriteEffect DEF Typed, TypeOK
<1>4. \A q \in Pair : follower'[q].old = follower[q].old
  BY WriteEffect DEF Typed, TypeOK
<1>5. QED  BY <1>1, <1>2, <1>3, <1>4 DEF StepOf, OldsKept

LEMMA SetStatusStep ==
    ASSUME Typed, NEW t \in Txn, NEW s, NEW there \in PC, there \notin {"idle", "accept_await"},
           pc[t] \in {"accept_update", "accept_update_expired", "reject_update", "inbox_update"},
           SetStatus(t, s, there)
    PROVE  StepOf(t)
<1>1. CASE request[pair[t]].new.id # seen[t]
  BY <1>1, RollbackStep DEF SetStatus
<1>2. CASE request[pair[t]].new.id = seen[t]
  BY <1>2, WriteStep DEF SetStatus
<1>3. QED  BY <1>1, <1>2

LEMMA HandlerEffect ==
    ASSUME Typed, NEW n \in Request, HandlerStep(n) \/ AcceptUndelivered(n), ~AcceptDeliver(n)
    PROVE  StepOf(n)
<1> n \in Txn
  BY TxnFacts
<1> USE DEF PC, Running, Ended, FollowPC, UnfollowPC, AcceptPC
<1>1. CASE FollowCheck(n)
  BY <1>1, WriteStep DEF FollowCheck, tables
<1>2. CASE FollowInsert(n)
  BY <1>2, WriteStep DEF FollowInsert
<1>3. CASE FollowCommit(n) \/ CommitStep(n)
  BY <1>3, CommitIsStep DEF FollowCommit, CommitStep
<1>4. CASE UnfollowDelete(n)
  BY <1>4, WriteStep DEF UnfollowDelete
<1>5. CASE UnfollowRead(n)
  <2>1. \A r \in Txn \ {n} : pair'[r] = pair[r] /\ seen'[r] = seen[r]
    BY <1>5 DEF UnfollowRead, Typed, TypeOK
  <2>2. QED  BY <1>5, <2>1, WriteStep DEF UnfollowRead, tables
<1>6. CASE UnfollowDeleteRequest(n)
  BY <1>6, WriteStep DEF UnfollowDeleteRequest
<1>7. CASE AcceptInsert(n)
  BY <1>7, WriteStep DEF AcceptInsert
<1>8. CASE AcceptUpdate(n)
  BY <1>8, SetStatusStep DEF AcceptUpdate
<1>9. CASE AcceptExpired(n)
  BY <1>9, RollbackStep DEF AcceptExpired
<1>10. CASE AcceptAnswered(n) \/ AcceptTimeout(n) \/ AcceptUndelivered(n)
  BY <1>10, WriteStep DEF AcceptAnswered, AcceptTimeout, AcceptUndelivered, tables
<1>11. CASE RejectUpdate(n)
  BY <1>11, SetStatusStep DEF RejectUpdate
<1>12. QED
  BY <1>1, <1>2, <1>3, <1>4, <1>5, <1>6, <1>7, <1>8, <1>9, <1>10, <1>11 DEF HandlerStep

LEMMA InboxEffect ==
    ASSUME Typed, NEW t \in InboxTxn, InboxStep(t) \/ InboxRefuse(t)
    PROVE  StepOf(t)
<1> t \in Txn
  BY TxnFacts
<1> USE DEF PC, Running, Ended, InboxPC
<1>1. CASE InboxLookup(t) \/ InboxRefuse(t)
  BY <1>1, WriteStep DEF InboxLookup, InboxRefuse, tables
<1>2. CASE InboxFallback(t)
  <2>1. \A r \in Txn \ {t} : pair'[r] = pair[r] /\ seen'[r] = seen[r]
    BY <1>2 DEF InboxFallback, Typed, TypeOK
  <2>2. PICK there \in {"done", "failed", "inbox_update"} : Goto(t, there)
    BY <1>2 DEF InboxFallback
  <2>3. QED  BY <1>2, <2>1, <2>2, WriteStep DEF InboxFallback, tables
<1>3. CASE InboxUpdate(t)
  BY <1>3, SetStatusStep DEF InboxUpdate
<1>4. CASE CommitStep(t)
  BY <1>4, CommitIsStep DEF CommitStep
<1>5. QED  BY <1>1, <1>2, <1>3, <1>4 DEF InboxStep

\* A new request touches no table and no transaction but its own.
BeginStep(n, there) ==
    /\ pc[n] = "idle" /\ pc'[n] = there
    /\ there \notin {"idle", "accept_await"}
    /\ UNCHANGED <<request, follower>>
    /\ \A r \in Txn \ {n} : SameLocals(r)

LEMMA BeginEffect ==
    ASSUME Typed, Begin
    PROVE  \E n \in Request : BeginStep(n, pc'[n])
<1>1. ASSUME NEW p, NEW u, NEW i, NEW there, there \notin {"idle", "accept_await"}, Arrive(p, u, i, there)
      PROVE  \E n \in Request : BeginStep(n, pc'[n])
  <2>1. arrived + 1 \in Request /\ arrived + 1 > arrived
    BY <1>1, RequestsAssumption DEF Arrive, Request, Typed, TypeOK
  <2>2. arrived + 1 \in Txn /\ pc[arrived + 1] = "idle"
    BY <2>1, TxnFacts DEF Typed, Local
  <2>3. BeginStep(arrived + 1, pc'[arrived + 1])
    BY <1>1, <2>1, <2>2, TxnFacts DEF BeginStep, Arrive, Goto, SameLocals, tables, Typed, TypeOK
  <2>4. QED  BY <2>1, <2>3
<1>2. PICK p \in Pair : \/ FollowBegin(p) \/ UnfollowBegin(p)
                        \/ \E u \in User : AcceptBegin(p, u) \/ RejectBegin(p, u)
  BY DEF Begin
<1>3. CASE FollowBegin(p)
  BY <1>1, <1>3 DEF FollowBegin
<1>4. CASE UnfollowBegin(p)
  BY <1>1, <1>4 DEF UnfollowBegin
<1>5. CASE \E u \in User : AcceptBegin(p, u) \/ RejectBegin(p, u)
  BY <1>1, <1>5 DEF AcceptBegin, RejectBegin
<1>6. QED  BY <1>2, <1>3, <1>4, <1>5

\* Every step, by what it touches.
LEMMA StepCases ==
    ASSUME Typed, Next
    PROVE  \/ \E n \in Request : BeginStep(n, pc'[n])
           \/ \E n \in Request : AcceptDeliver(n)
           \/ \E t \in Txn : StepOf(t)
           \/ UNCHANGED vars
<1>1. CASE Begin
  BY <1>1, BeginEffect
<1>2. ASSUME NEW n \in Request, HandlerStep(n) \/ AcceptUndelivered(n)
      PROVE  AcceptDeliver(n) \/ (n \in Txn /\ StepOf(n))
  BY <1>2, HandlerEffect, TxnFacts
<1>3. ASSUME NEW t \in InboxTxn, InboxStep(t) \/ InboxRefuse(t)
      PROVE  t \in Txn /\ StepOf(t)
  BY <1>3, InboxEffect, TxnFacts
<1>4. ASSUME NEW t \in Txn, Die(t)
      PROVE  StepOf(t)
  BY <1>4, RollbackStep DEF Die, Running, FollowPC, UnfollowPC, AcceptPC, InboxPC
<1>5. QED  BY <1>1, <1>2, <1>3, <1>4 DEF Next, Quiescent

(***************************************************************************)
(* The inductive invariant                                                 *)
(***************************************************************************)
LEMMA InboxAfterStep ==
    ASSUME Typed, InboxAfter, [Next]_vars
    PROVE  InboxAfter'
<1>1. SUFFICES ASSUME NEW n \in Request, pc'[Inbox(n)] # "idle"
               PROVE  pc'[n] \in LatePC
  BY DEF InboxAfter
<1>2. n \in Txn /\ Inbox(n) \in Txn /\ Inbox(n) \notin Request /\ Inbox(n) # n
  BY TxnFacts
<1>3. pc[Inbox(n)] # "idle" => pc[n] \in LatePC
  BY DEF InboxAfter
<1>4. ASSUME NEW m \in Request, BeginStep(m, pc'[m])
      PROVE  pc'[n] \in LatePC
  BY <1>1, <1>2, <1>3, <1>4 DEF BeginStep, SameLocals, LatePC
<1>5. ASSUME NEW m \in Request, AcceptDeliver(m)
      PROVE  pc'[n] \in LatePC
  BY <1>1, <1>2, <1>3, <1>5, TxnFacts DEF AcceptDeliver, LatePC, Typed, TypeOK
<1>6. ASSUME NEW t \in Txn, StepOf(t)
      PROVE  pc'[n] \in LatePC
  BY <1>1, <1>2, <1>3, <1>6 DEF StepOf, SameLocals
<1>7. CASE UNCHANGED vars
  BY <1>1, <1>3, <1>7 DEF vars
<1>8. QED  BY <1>4, <1>5, <1>6, <1>7, StepCases

IInv == Typed /\ Locks /\ InboxAfter

LEMMA Invariance == Safety => []IInv
<1>1. Init => Locks /\ InboxAfter
  <2>1. SUFFICES ASSUME Init
                 PROVE  Locks /\ InboxAfter
    OBVIOUS
  <2>2. ASSUME NEW p \in Pair
        PROVE  RowInv(p)
    BY <2>1 DEF Init, Committed, RowInv, RequestLock, FollowerLock, RequestWrite, FollowerWrite
  <2>3. (\A t \in Txn : AcceptHolds(t)) /\ InboxAfter
    BY <2>1, TxnFacts DEF Init, AcceptHolds, InboxAfter
  <2>4. QED  BY <2>2, <2>3 DEF Locks
<1>2. ASSUME Typed, Locks, InboxAfter, [Next]_vars
      PROVE  Locks' /\ InboxAfter'
  <2>1. InboxAfter'
    BY <1>2, InboxAfterStep
  <2>2. CASE Begin
    BY <1>2, <2>1, <2>2, BeginLocks
  <2>3. ASSUME NEW n \in Request, HandlerStep(n) \/ AcceptUndelivered(n)
        PROVE  Locks'
    BY <1>2, <2>3, HandlerLocks
  <2>4. ASSUME NEW t \in InboxTxn, InboxStep(t) \/ InboxRefuse(t)
        PROVE  Locks'
    BY <1>2, <2>4, InboxLocks
  <2>5. ASSUME NEW t \in Txn, Die(t)
        PROVE  Locks'
    BY <1>2, <2>5, SettleLocks DEF Die
  <2>6. CASE UNCHANGED vars
    <3>1. ASSUME NEW p \in Pair
          PROVE  RowInv(p)'
      BY <1>2, <2>6, HolderFacts, RowFrame DEF vars, SameLocals
    <3>2. ASSUME NEW t \in Txn
          PROVE  AcceptHolds(t)'
      BY <1>2, <2>6, AcceptFrame DEF vars, SameLocals
    <3>3. QED  BY <2>1, <3>1, <3>2 DEF Locks
  <2>7. QED
    BY <1>2, <2>1, <2>2, <2>3, <2>4, <2>5, <2>6 DEF Next, Quiescent
<1>3. QED  BY <1>1, <1>2, TypedInvariant, PTL DEF Safety, IInv

\* No handler waits for a row lock while holding one that another handler would
\* take first, for every number of users and requests.
THEOREM LocksAreOrdered == Spec => []LockOrder
<1>1. IInv => LockOrder
  <2>1. SUFFICES ASSUME Typed, Locks
                 PROVE  LockOrder
    BY DEF IInv
  <2>2. ASSUME NEW p \in Pair, request[p].by # Nobody
        PROVE  ~WaitsForFollower(request[p].by) /\ ~WaitsForRequest(request[p].by)
    BY <2>1, <2>2
    DEF Locks, RowInv, RequestLock, HoldsRequestPC, WaitsForFollower, WaitsForRequest
  <2>3. ASSUME NEW p \in Pair, follower[p].by # Nobody
        PROVE  ~WaitsForFollower(follower[p].by)
    BY <2>1, <2>3 DEF Locks, RowInv, FollowerLock, HoldsFollowerPC, WaitsForFollower
  <2>4. QED  BY <2>1, <2>2, <2>3 DEF LockOrder, Holders, Typed, TypeOK
<1>2. QED  BY <1>1, Invariance, PTL DEF Spec

(***************************************************************************)
(* What a commit publishes                                                 *)
(***************************************************************************)
\* What others read changes only when a transaction commits.
LEMMA OnlyCommitsShow ==
    ASSUME Typed, [Next]_vars
    PROVE  OldsKept \/ \E t \in Txn : Commit(t) /\ pc[t] \in {"commit", "follow_commit"}
<1>1. CASE UNCHANGED vars
  BY <1>1 DEF vars, OldsKept
<1>2. ASSUME NEW n \in Request, BeginStep(n, pc'[n])
      PROVE  OldsKept
  BY <1>2 DEF BeginStep, OldsKept
<1>3. ASSUME NEW n \in Request, AcceptDeliver(n)
      PROVE  OldsKept
  BY <1>3 DEF AcceptDeliver, tables, OldsKept
<1>4. QED  BY <1>1, <1>2, <1>3, StepCases DEF StepOf

\* A commit publishes what its transaction wrote and leaves every other row.
LEMMA CommitEffect ==
    ASSUME Typed, NEW t \in Txn, Commit(t), NEW q \in Pair
    PROVE  /\ request'[q].old = IF request[q].by = t THEN request[q].new ELSE request[q].old
           /\ follower'[q].old = IF follower[q].by = t THEN follower[q].new ELSE follower[q].old
           /\ pc'[t] = "done"
  BY DEF Commit, CommitRows, Committed, Goto, Typed, TypeOK, Versions

\* A transaction that commits holds rows of one pair only, its own.
LEMMA CommitsOwnPair ==
    ASSUME Typed, Locks, NEW t \in Txn, NEW q \in Pair,
           request[q].by = t \/ follower[q].by = t
    PROVE  q = pair[t] /\ RowInv(q)
  BY TxnFacts DEF Locks, RowInv, RequestLock, FollowerLock

(***************************************************************************)
(* Consent                                                                 *)
(***************************************************************************)
Consent ==
    \A p \in Pair : ~follower[p].old /\ follower'[p].old =>
         \E n \in Request : /\ pc[n] = "commit" /\ pc'[n] = "done"
                            /\ user[n] = p[2] /\ pair[n] = p
                            /\ request'[p].old = [id |-> seen[n], status |-> "accepted"]

\* A user of the instance gets a follower only in the commit of an accept of
\* their own, which leaves the request it read accepted.
THEOREM FollowersNeedConsent == Safety => FollowerOnlyByConsent
<1>1. ASSUME IInv, [Next]_vars
      PROVE  Consent
  <2>1. SUFFICES ASSUME NEW p \in Pair, ~follower[p].old, follower'[p].old
                 PROVE  \E n \in Request :
                            /\ pc[n] = "commit" /\ pc'[n] = "done"
                            /\ user[n] = p[2] /\ pair[n] = p
                            /\ request'[p].old = [id |-> seen[n], status |-> "accepted"]
    BY DEF Consent
  <2>2. PICK t \in Txn : Commit(t) /\ pc[t] \in {"commit", "follow_commit"}
    BY <1>1, <2>1, OnlyCommitsShow DEF IInv, OldsKept
  <2>3. follower[p].by = t /\ follower[p].new
    BY <1>1, <2>1, <2>2, CommitEffect DEF IInv
  <2>4. RowInv(p) /\ pair[t] = p /\ t # Nobody
    BY <1>1, <2>3, CommitsOwnPair, TxnFacts DEF IInv
  <2>5. /\ t \in Request /\ user[t] = p[2] /\ pc[t] = "commit"
        /\ request[p].by = t /\ request[p].new = [id |-> seen[t], status |-> "accepted"]
    BY <2>2, <2>3, <2>4 DEF RowInv, FollowerWrite
  <2>6. QED  BY <1>1, <2>2, <2>4, <2>5, CommitEffect DEF IInv
<1>2. QED  BY <1>1, Invariance, PTL DEF Safety, FollowerOnlyByConsent, Consent

(***************************************************************************)
(* Withdrawal                                                              *)
(***************************************************************************)
Withdrawn ==
    \A p \in Pair : request[p].old # NoRow =>
         \/ request'[p].old.id = request[p].old.id
            /\ (request[p].old.status # "pending" => request'[p].old.status # "pending")
         \/ /\ request'[p].old = NoRow
            /\ \E n \in Request : /\ pc[n] = "commit" /\ user[n] = p[1]
                               /\ seen[n] = request[p].old.id

\* A follow request leaves the table only by its requester's unfollow, the one
\* that read this very row, and a decided request is never pending again.
THEOREM RowsLeaveWhenWithdrawn == Safety => RowsOnlyWithdrawn
<1>1. ASSUME IInv, [Next]_vars
      PROVE  Withdrawn
  <2>1. ASSUME OldsKept
        PROVE  Withdrawn
    BY <2>1 DEF OldsKept, Withdrawn
  <2>2. ASSUME NEW t \in Txn, Commit(t), pc[t] \in {"commit", "follow_commit"},
               NEW p \in Pair, request[p].old # NoRow
        PROVE  \/ request'[p].old.id = request[p].old.id
                  /\ (request[p].old.status # "pending" => request'[p].old.status # "pending")
               \/ /\ request'[p].old = NoRow
                  /\ \E n \in Request : /\ pc[n] = "commit" /\ user[n] = p[1]
                                     /\ seen[n] = request[p].old.id
    <3>1. CASE request[p].by # t
      BY <1>1, <2>2, <3>1, CommitEffect DEF IInv
    <3>2. CASE request[p].by = t
      <4>1. RowInv(p) /\ t # Nobody /\ request'[p].old = request[p].new
        BY <1>1, <2>2, <3>2, CommitsOwnPair, CommitEffect, TxnFacts DEF IInv
      <4>2. /\ pc[t] = "commit" /\ request[p].old.id = seen[t]
            /\ \/ request[p].new \in [id : {seen[t]}, status : {"accepted", "rejected"}]
               \/ request[p].new = NoRow /\ t \in Request /\ user[t] = p[1]
        BY <2>2, <3>2, <4>1 DEF RowInv, RequestWrite
      <4>3. QED  BY <4>1, <4>2
    <3>3. QED  BY <3>1, <3>2
  <2>3. QED  BY <1>1, <2>1, <2>2, OnlyCommitsShow DEF IInv, Withdrawn
<1>2. QED  BY <1>1, Invariance, PTL DEF Safety, RowsOnlyWithdrawn, Withdrawn

(***************************************************************************)
(* The lifecycle                                                           *)
(***************************************************************************)
LEMMA LifecycleStep ==
    ASSUME NEW p \in Pair,
           \/ Lifecycle!Ask(p) \/ Lifecycle!Grant(p) \/ Lifecycle!Confirm(p)
           \/ Lifecycle!Refuse(p) \/ Lifecycle!Withdraw(p)
    PROVE  Lifecycle!Next
  BY DEF Lifecycle!Next

\* A commit changes one pair, its transaction's, by one step of the lifecycle.
LEMMA CommitIsLifecycleStep ==
    ASSUME Typed, Locks, NEW t \in Txn, Commit(t), pc[t] \in {"commit", "follow_commit"}
    PROVE  [Lifecycle!Next]_(Lifecycle!vars)
<1>0. PICK p \in Pair : p = pair[t]
  BY DEF Typed, Local
<1> DEFINE row == [q \in Pair |-> request[q].old]
           following == {q \in Pair : follower[q].old}
<1>1. t # Nobody /\ RowInv(p)
  BY TxnFacts DEF Locks
<1>2. \A q \in Pair \ {p} : request'[q].old = request[q].old /\ follower'[q].old = follower[q].old
  BY <1>0, CommitsOwnPair, CommitEffect
<1>3. \A s : request'[p].old = s => row' = [row EXCEPT ![p] = s]
  BY <1>1, <1>2 DEF Typed, TypeOK
<1>4. follower'[p].old = follower[p].old => following' = following
  BY <1>1, <1>2
<1>5. ~follower'[p].old => following' \in {following, following \ {p}}
  BY <1>1, <1>2
<1>6. ~follower[p].old /\ follower'[p].old => following' = following \cup {p} /\ p \notin following
  BY <1>1, <1>2
<1>7. row[p] = request[p].old /\ Lifecycle!Absent = NoRow
  BY <1>1 DEF Lifecycle!Absent, NoRow
<1>8. /\ request'[p].old = IF request[p].by = t THEN request[p].new ELSE request[p].old
      /\ follower'[p].old = IF follower[p].by = t THEN follower[p].new ELSE follower[p].old
  BY <1>1, CommitEffect
<1> HIDE DEF row, following
<1>9. /\ Lifecycle!Ask(p) => Lifecycle!Next
      /\ Lifecycle!Grant(p) => Lifecycle!Next
      /\ Lifecycle!Confirm(p) => Lifecycle!Next
      /\ Lifecycle!Refuse(p) => Lifecycle!Next
      /\ Lifecycle!Withdraw(p) => Lifecycle!Next
  BY LifecycleStep
<1>10. CASE pc[t] = "follow_commit"
  <2>1. follower[p].by # t /\ t \in Request
    BY <1>1, <1>10 DEF RowInv, FollowerLock, HoldsFollowerPC, Typed, Local, HandlerPC, FollowPC
  <2>2. CASE request[p].by # t
    BY <1>2, <1>4, <1>8, <2>1, <2>2 DEF Lifecycle!vars, row, following
  <2>3. CASE request[p].by = t
    <3>1. request[p].old = NoRow /\ request[p].new = [id |-> t, status |-> "pending"]
      BY <1>1, <1>10, <2>3 DEF RowInv, RequestWrite
    <3>2. Lifecycle!Ask(p)
      BY <1>3, <1>4, <1>7, <1>8, <2>1, <2>3, <3>1 DEF Lifecycle!Ask, row, following
    <3>3. QED  BY <1>9, <3>2
  <2>4. QED  BY <2>2, <2>3
<1>11. CASE pc[t] = "commit"
  <2>1. request[p].by = t =>
            /\ request[p].old # NoRow /\ request[p].old.id = seen[t]
            /\ \/ request[p].new \in [id : {seen[t]}, status : {"accepted", "rejected"}]
               \/ request[p].new = NoRow
    BY <1>1, <1>11 DEF RowInv, RequestWrite
  <2>2. CASE follower[p].by = t /\ follower[p].new
    <3>1. /\ ~follower[p].old /\ request[p].by = t
          /\ request[p].new = [id |-> seen[t], status |-> "accepted"]
      BY <1>1, <1>11, <2>2 DEF RowInv, FollowerWrite
    <3>2. Lifecycle!Grant(p)
      BY <1>3, <1>6, <1>7, <1>8, <2>1, <2>2, <3>1 DEF Lifecycle!Grant, Lifecycle!Decided, row, following
    <3>3. QED  BY <1>9, <3>2
  <2>3. CASE follower[p].by = t /\ ~follower[p].new
    <3>1. request[p].by = t => request[p].new = NoRow
      BY <1>1, <1>11, <2>3 DEF RowInv, FollowerWrite
    <3>2. row' \in {row, [row EXCEPT ![p] = NoRow]}
      BY <1>2, <1>3, <1>8, <3>1 DEF row
    <3>3. Lifecycle!Withdraw(p)
      BY <1>5, <1>7, <1>8, <2>3, <3>2 DEF Lifecycle!Withdraw, row, following
    <3>4. QED  BY <1>9, <3>3
  <2>4. CASE follower[p].by # t /\ request[p].by = t
    <3>1. CASE request[p].new = NoRow
      <4>1. Lifecycle!Withdraw(p)
        BY <1>3, <1>4, <1>7, <1>8, <2>4, <3>1 DEF Lifecycle!Withdraw, row, following
      <4>2. QED  BY <1>9, <4>1
    <3>2. CASE request[p].new = [id |-> seen[t], status |-> "accepted"]
      <4>1. following' = following
        BY <1>4, <1>8, <2>4
      <4>2. row' = [row EXCEPT ![p] = [id |-> row[p].id, status |-> "accepted"]]
        BY <1>3, <1>7, <1>8, <2>1, <2>4, <3>2
      <4>3. Lifecycle!Confirm(p)
        BY <1>7, <2>1, <2>4, <4>1, <4>2 DEF Lifecycle!Confirm, Lifecycle!Decided, row, following
      <4>4. QED  BY <1>9, <4>3
    <3>3. CASE request[p].new = [id |-> seen[t], status |-> "rejected"]
      <4>1. following' = following
        BY <1>4, <1>8, <2>4
      <4>2. row' = [row EXCEPT ![p] = [id |-> row[p].id, status |-> "rejected"]]
        BY <1>3, <1>7, <1>8, <2>1, <2>4, <3>3
      <4>3. Lifecycle!Refuse(p)
        BY <1>7, <2>1, <2>4, <4>1, <4>2 DEF Lifecycle!Refuse, Lifecycle!Decided, row, following
      <4>4. QED  BY <1>9, <4>3
    <3>4. QED  BY <2>1, <2>4, <3>1, <3>2, <3>3
  <2>5. CASE follower[p].by # t /\ request[p].by # t
    BY <1>2, <1>4, <1>8, <2>5 DEF Lifecycle!vars, row, following
  <2>6. QED  BY <2>2, <2>3, <2>4, <2>5
<1>12. QED  BY <1>10, <1>11

\* What the handlers commit, in whatever order they overlap, is a behaviour of
\* FollowLifecycle.
THEOREM HandlersFollowLifecycle == Safety => FollowsLifecycle
<1>1. Init => Lifecycle!Init
  BY DEF Init, Lifecycle!Init, Committed, NoRow, Lifecycle!Absent
<1>2. ASSUME IInv, [Next]_vars
      PROVE  [Lifecycle!Next]_(Lifecycle!vars)
  <2>1. CASE OldsKept
    BY <2>1 DEF OldsKept, Lifecycle!vars
  <2>2. QED  BY <1>2, <2>1, OnlyCommitsShow, CommitIsLifecycleStep DEF IInv
<1>3. QED  BY <1>1, <1>2, Invariance, PTL DEF Safety, FollowsLifecycle, Lifecycle!Spec

(***************************************************************************)
(* The Accept an instance sends to itself                                  *)
(***************************************************************************)
\* While a handler waits for its own Accept, the inbox has not got past the row
\* it looks for, or has given up on it.
OwnAccept(n) ==
    LET i == Inbox(n) IN
    pc[n] = "accept_await" /\ request[pair[n]].old = [id |-> seen[n], status |-> "pending"] =>
       \/ pc[i] = "failed"
       \/ pc[i] \in {"inbox_lookup", "inbox_update"} /\ pair[i] = pair[n] /\ seen[i] = seen[n]

LEMMA OwnAcceptStep ==
    ASSUME IInv, [Next]_vars, NEW n \in Request, OwnAccept(n)
    PROVE  OwnAccept(n)'
<1> DEFINE i == Inbox(n)
<1>1. i \in InboxTxn /\ i \in Txn /\ n \in Txn /\ i \notin Request /\ n # Nobody
  BY TxnFacts
<1>2. pc[n] = "accept_await" => pair[n] \in Pair /\ request[pair[n]].by = n
  BY <1>1 DEF IInv, Typed, Local, Locks, AcceptHolds
<1> HIDE DEF i
<1>3. ASSUME NEW m \in Request, BeginStep(m, pc'[m])
      PROVE  OwnAccept(n)'
  <2>1. m # i /\ (m = n => pc'[n] # "accept_await")
    BY <1>1, <1>3 DEF BeginStep
  <2>2. QED  BY <1>1, <1>3, <2>1 DEF BeginStep, SameLocals, OwnAccept, i
<1>4. ASSUME NEW m \in Request, AcceptDeliver(m)
      PROVE  OwnAccept(n)'
  <2>1. CASE m = n
    <3>1. pc'[i] = "inbox_lookup" /\ pair'[i] = pair[n] /\ seen'[i] = seen[n]
      BY <1>1, <1>4, <2>1 DEF AcceptDeliver, IInv, Typed, TypeOK, i
    <3>2. pair'[n] = pair[n] /\ seen'[n] = seen[n]
      BY <1>1, <1>4, <2>1 DEF AcceptDeliver, IInv, Typed, TypeOK, i
    <3>3. QED  BY <3>1, <3>2 DEF OwnAccept, i
  <2>2. CASE m # n
    <3>1. Inbox(m) \notin {n, i} /\ m \notin {n, i} /\ UNCHANGED request
      BY <1>1, <1>4, <2>2, TxnFacts DEF AcceptDeliver, tables, i
    <3>2. SameLocals(n) /\ pc'[i] = pc[i] /\ pair'[i] = pair[i] /\ seen'[i] = seen[i]
      BY <1>1, <1>4, <3>1 DEF AcceptDeliver, SameLocals, IInv, Typed, TypeOK
    <3>3. QED  BY <3>1, <3>2 DEF OwnAccept, SameLocals, i
  <2>3. QED  BY <2>1, <2>2
<1>5. ASSUME NEW t \in Txn, t # i, StepOf(t)
      PROVE  OwnAccept(n)'
  <2>1. CASE t = n
    BY <1>5, <2>1 DEF StepOf, OwnAccept
  <2>2. CASE t # n
    <3>1. SameLocals(n) /\ SameLocals(i)
      BY <1>1, <1>5, <2>2 DEF StepOf
    <3>2. pc[n] = "accept_await" => request'[pair[n]] = request[pair[n]]
      BY <1>1, <1>2, <1>5, <2>2 DEF StepOf
    <3>3. QED  BY <3>1, <3>2 DEF OwnAccept, SameLocals, i
  <2>3. QED  BY <2>1, <2>2
<1>6. ASSUME InboxStep(i) \/ InboxRefuse(i) \/ Die(i), pc'[n] = "accept_await"
      PROVE  OwnAccept(n)'
  <2>1. StepOf(i)
    BY <1>1, <1>6, InboxEffect, RollbackStep
    DEF IInv, Die, Running, FollowPC, UnfollowPC, AcceptPC, InboxPC
  <2>2. SameLocals(n) /\ request'[pair[n]] = request[pair[n]]
    BY <1>1, <1>2, <1>6, <2>1 DEF StepOf, SameLocals
  <2>3. CASE InboxRefuse(i) \/ Die(i)
    <3>1. pc'[i] = "failed"
      BY <1>1, <2>3 DEF InboxRefuse, Die, Rollback, Goto, IInv, Typed, TypeOK
    <3>2. QED  BY <3>1 DEF OwnAccept, i
  <2>4. CASE InboxLookup(i)
    <3>1. pair'[i] = pair[i] /\ seen'[i] = seen[i] /\ pc[i] = "inbox_lookup"
      BY <2>4 DEF InboxLookup
    <3>2. request[pair[i]].old = [id |-> seen[i], status |-> "pending"] => pc'[i] = "inbox_update"
      BY <1>1, <2>4 DEF InboxLookup, Goto, IInv, Typed, TypeOK
    <3>3. QED  BY <2>2, <3>1, <3>2 DEF OwnAccept, SameLocals, i
  <2>5. CASE InboxUpdate(i)
    <3>1. pc[i] = "inbox_update" /\ MayWrite(request, pair[i], i)
      BY <2>5 DEF InboxUpdate, SetStatus
    <3>2. pair[i] # pair[n]
      BY <1>1, <1>2, <1>6, <2>2, <3>1 DEF MayWrite, SameLocals
    <3>3. QED  BY <2>2, <3>1, <3>2 DEF OwnAccept, SameLocals, i
  <2>6. CASE InboxFallback(i) \/ CommitStep(i)
    <3>1. pc[i] \notin {"failed", "inbox_lookup", "inbox_update"}
      BY <2>6 DEF InboxFallback, CommitStep
    <3>2. QED  BY <2>2, <3>1 DEF OwnAccept, SameLocals, i
  <2>7. QED  BY <1>6, <2>3, <2>4, <2>5, <2>6 DEF InboxStep
<1>7. CASE UNCHANGED vars
  BY <1>7 DEF vars, OwnAccept
<1>8. CASE Next
  <2>1. ASSUME NEW m \in Request, HandlerStep(m) \/ AcceptUndelivered(m)
        PROVE  OwnAccept(n)'
    BY <1>1, <1>4, <1>5, <2>1, HandlerEffect, TxnFacts DEF IInv
  <2>2. ASSUME NEW t \in InboxTxn, InboxStep(t) \/ InboxRefuse(t)
        PROVE  OwnAccept(n)'
    BY <1>5, <1>6, <2>2, InboxEffect, TxnFacts DEF IInv, OwnAccept
  <2>3. ASSUME NEW t \in Txn, Die(t)
        PROVE  OwnAccept(n)'
    <3>1. StepOf(t)
      BY <2>3, RollbackStep DEF IInv, Die, Running, FollowPC, UnfollowPC, AcceptPC, InboxPC
    <3>2. QED  BY <1>5, <1>6, <2>3, <3>1 DEF OwnAccept
  <2>4. CASE Begin
    BY <1>3, <2>4, BeginEffect DEF IInv
  <2>5. QED  BY <1>7, <1>8, <2>1, <2>2, <2>3, <2>4 DEF Next, Quiescent
<1>9. QED  BY <1>7, <1>8

\* While a handler waits for the Accept it sent to its own instance, and the
\* request is still pending for everybody else, the inbox has not served it.
THEOREM AcceptWaitsForItself == Safety => []OwnAcceptNotServed
<1> DEFINE Own == \A n \in Request : OwnAccept(n)
<1>1. Init => Own
  BY TxnFacts DEF Init, OwnAccept
<1>2. ASSUME IInv, [Next]_vars, Own
      PROVE  Own'
  BY <1>2, OwnAcceptStep
<1>3. Own => OwnAcceptNotServed
  BY DEF OwnAccept, OwnAcceptNotServed
<1> HIDE DEF Own
<1>4. QED  BY <1>1, <1>2, <1>3, Invariance, PTL DEF Safety
=============================================================================
