--------------------------- MODULE RecipeRequests ----------------------------
(***************************************************************************)
(* What the requests about the parts of a recipe have in common: they come,*)
(* run as a transaction each, and end (get_db in database.py).             *)
(***************************************************************************)
EXTENDS Integers, RowVersions

CONSTANTS MaxRequests,  \* bound: HTTP requests
          MaxFaults     \* bound: transactions that die

ASSUME RequestsAssumption == MaxRequests \in Nat \ {0}
ASSUME FaultsAssumption == MaxFaults \in Nat

Request == 1..MaxRequests
Earlier == 0  \* what is there before all requests

VARIABLES pc,       \* where each request is
          ask,      \* what it asks for
          old,      \* what it has read
          arrived, faults,
          before    \* history: what was over when each request came

bounds == <<arrived, faults>>
requests == <<pc, ask, old, bounds, before>>

Nothing == << >>
Ended == {"done", "failed"}
Running(n) == pc[n] \notin {"idle"} \cup Ended

\* Neither was over when the other came.
Overlap(m, n) == m # n /\ {m, n} \subseteq Request /\ m \notin before[n] /\ n \notin before[m]

RequestsTypeOK(asks, places, readings) ==
    /\ pc \in [Request -> {"idle"} \cup places \cup Ended]
    /\ ask \in [Request -> asks \cup {Nothing}]
    /\ old \in [Request -> readings]
    /\ arrived \in 0..MaxRequests
    /\ faults \in 0..MaxFaults
    /\ before \in [Request -> SUBSET (Request \cup {Earlier})]

InitRequests(unread) ==
    /\ pc = [n \in Request |-> "idle"]
    /\ ask = [n \in Request |-> Nothing]
    /\ old = [n \in Request |-> unread]
    /\ arrived = 0
    /\ faults = 0
    /\ before = [n \in Request |-> {}]

Goto(n, there) == pc' = [pc EXCEPT ![n] = there]

\* The request goes on; it has read what it knows.
Step(n, there) == Goto(n, there) /\ UNCHANGED <<ask, old, bounds, before>>

Read(n, reading, there) ==
    /\ old' = [old EXCEPT ![n] = reading]
    /\ Goto(n, there)
    /\ UNCHANGED <<ask, bounds, before>>

ArriveAt(n, a, there) ==
    /\ n = arrived + 1
    /\ arrived' = n
    /\ ask' = [ask EXCEPT ![n] = a]
    /\ Goto(n, there)
    /\ before' = [before EXCEPT ![n] = {Earlier} \cup {m \in Request : pc[m] \in Ended}]
    /\ UNCHANGED <<old, faults>>

\* The transaction is over, and the session with what it has read.
Leave(n, there, unread) ==
    /\ Goto(n, there)
    /\ ask' = [ask EXCEPT ![n] = Nothing]
    /\ old' = [old EXCEPT ![n] = unread]
    /\ UNCHANGED <<arrived, before>>

\* A transaction dies of anything: the client, the database, a crash.  One that has
\* nothing to undo ends like a request that is refused.
Dies(n) ==
    /\ Running(n)
    /\ faults < MaxFaults
    /\ faults' = faults + 1

AllEnded ==
    /\ arrived = MaxRequests
    /\ \A n \in Request : pc[n] \in Ended
=============================================================================
