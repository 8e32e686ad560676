--------------------------- MODULE FollowLifecycle ---------------------------
(***************************************************************************)
(* What the follow tables go through, seen only at commits.  A pair is a   *)
(* requester and a followee; it has at most one row in follow_requests and *)
(* at most one in followers.  Every change is one of five steps, and a     *)
(* step touches one pair.                                                  *)
(***************************************************************************)
CONSTANTS Pair,      \* <<requester, followee>>
          Id         \* identities of follow_requests rows

VARIABLES row,       \* follow_requests: the row of each pair, or Absent
          following  \* followers: the pairs with a row

vars == <<row, following>>

Status == {"pending", "accepted", "rejected"}
Absent == [id |-> 0, status |-> "absent"]
Row == [id : Id, status : Status]

Init == /\ row = [p \in Pair |-> Absent]
        /\ following = {}

\* The requester asks: only a pair without a row gets a new one.
Ask(p) == /\ row[p] = Absent
          /\ \E i \in Id : row' = [row EXCEPT ![p] = [id |-> i, status |-> "pending"]]
          /\ UNCHANGED following

\* The rows after the request of p got status s; its identity stays.
Decided(p, s) == [row EXCEPT ![p] = [id |-> row[p].id, status |-> s]]

\* The followee grants: the request is accepted and the follower row appears,
\* both or neither.
Grant(p) == /\ row[p] # Absent
            /\ p \notin following
            /\ row' = Decided(p, "accepted")
            /\ following' = following \cup {p}

\* An Accept activity marks the request accepted; it makes nobody a follower.
Confirm(p) == /\ row[p] # Absent
              /\ row' = Decided(p, "accepted")
              /\ UNCHANGED following

\* The followee refuses; a follower row that is there stays.
Refuse(p) == /\ row[p] # Absent
             /\ row' = Decided(p, "rejected")
             /\ UNCHANGED following

\* The requester withdraws: what is removed is what the handler saw.
Withdraw(p) == /\ row' \in {row, [row EXCEPT ![p] = Absent]}
               /\ following' \in {following, following \ {p}}

Next == \E p \in Pair : Ask(p) \/ Grant(p) \/ Confirm(p) \/ Refuse(p) \/ Withdraw(p)

Spec == Init /\ [][Next]_vars
=============================================================================
