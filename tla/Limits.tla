------------------------------- MODULE Limits --------------------------------
(***************************************************************************)
(* The rate limits: the middleware in front of every request               *)
(* (middleware.py) and the checks of the two inboxes (ap/ratelimit.py),    *)
(* which are counters in Redis.  INCR and EXPIRE are two calls, and Redis  *)
(* or the process may fail at each.  All requests here come from one       *)
(* address, one domain and one user: other counters have other keys.       *)
(***************************************************************************)
EXTENDS Integers, Sequences, FiniteSets

CONSTANTS Max,          \* what each counter allows in a window
          MaxRequests,  \* bound: HTTP requests
          MaxFaults     \* bound: calls of Redis that fail, processes that die

Inboxes == {"ip", "domain"}
Key == {"user", "address"} \cup Inboxes

ASSUME MaxAssumption == Max \in [Key -> Nat]
ASSUME RequestsAssumption == MaxRequests \in Nat
ASSUME FaultsAssumption == MaxFaults \in Nat

Request == 1..MaxRequests

\* A call by a signed-in user, a personal inbox, the shared inbox.  (Any other
\* request without a user is to the counters an inbox request that is turned away.)
Kind == {"api", "inbox", "shared"}

\* Mutant: the personal inbox is called through the middleware.
ChecksAll(what) ==
    CASE what = "api"    -> <<"user">>
      [] what = "inbox"  -> <<"address", "ip", "domain">>
      [] what = "shared" -> <<"address", "ip", "domain", "address", "ip", "domain">>

\* The counters a request passes, in order.  The shared inbox checks, looks for the
\* recipient and calls the personal inbox, which checks again.
Checks(what) ==
    CASE what = "api"    -> <<"user">>
      [] what = "inbox"  -> <<"address", "ip", "domain">>
      [] what = "shared" -> <<"address", "ip", "domain", "ip", "domain">>

VARIABLES count,  \* the value of each counter, 0 when there is no key
          ttl,    \* whether the key will expire
          pc,     \* where each request is
          kind,   \* what it is
          check,  \* which of its checks it is at
          arrived, faults,
          let,    \* history: requests each counter has let pass in the present window
          lapsed, \* history: counters of the inboxes that have run out
          stuck,  \* history: counters that a failure has left without an expiry
          spared  \* history: checks that were passed because Redis had failed

redis == <<count, ttl>>
bounds == <<arrived, faults>>
history == <<let, lapsed, stuck, spared>>
vars == <<redis, pc, kind, check, bounds, history>>

Ended == {"served", "refused", "away", "dead"}

LimitsTypeOK ==
    /\ count \in [Key -> Nat]
    /\ count["user"] + count["address"] <= arrived
    /\ count["ip"] <= 2 * arrived /\ count["domain"] <= 2 * arrived
    /\ ttl \in [Key -> BOOLEAN]
    /\ pc \in [Request -> {"idle", "incr", "expire"} \cup Ended]
    /\ kind \in [Request -> Kind]
    /\ check \in [Request -> 1..5]
    /\ arrived \in 0..MaxRequests
    /\ faults \in 0..MaxFaults
    /\ let \in [Key -> Nat]
    /\ lapsed \subseteq Inboxes
    /\ stuck \subseteq Key
    /\ spared \in Nat

Init ==
    /\ count = [k \in Key |-> 0]
    /\ ttl = [k \in Key |-> FALSE]
    /\ pc = [n \in Request |-> "idle"]
    /\ kind = [n \in Request |-> "api"]
    /\ check = [n \in Request |-> 1]
    /\ arrived = 0
    /\ faults = 0
    /\ let = [k \in Key |-> 0]
    /\ lapsed = {}
    /\ stuck = {}
    /\ spared = 0

At(n) == Checks(kind[n])[check[n]]

Arrive(n, what) ==
    /\ n = arrived + 1
    /\ arrived' = n
    /\ kind' = [kind EXCEPT ![n] = what]
    /\ pc' = [pc EXCEPT ![n] = "incr"]
    /\ UNCHANGED <<redis, check, faults, history>>

End(n, how) ==
    /\ pc' = [pc EXCEPT ![n] = how]
    /\ check' = [check EXCEPT ![n] = 1]

\* On to the next check, or to the handler.
Onward(n) ==
    IF check[n] = Len(Checks(kind[n]))
    THEN End(n, "served")
    ELSE pc' = [pc EXCEPT ![n] = "incr"] /\ check' = [check EXCEPT ![n] = @ + 1]

\* Mutant: what the counter was is compared, not what it is.
DecideBefore(n, answer) ==
    IF answer - 1 <= Max[At(n)]
    THEN Onward(n) /\ let' = [let EXCEPT ![At(n)] = @ + 1]
    ELSE End(n, "refused") /\ UNCHANGED let

\* answer is what INCR has answered.
Decide(n, answer) ==
    IF answer <= Max[At(n)]
    THEN Onward(n) /\ let' = [let EXCEPT ![At(n)] = @ + 1]
    ELSE End(n, "refused") /\ UNCHANGED let

Incr(n) ==
    LET k == At(n) IN
    /\ pc[n] = "incr"
    /\ count' = [count EXCEPT ![k] = @ + 1]
    /\ IF count[k] = 0
       THEN pc' = [pc EXCEPT ![n] = "expire"] /\ UNCHANGED <<check, let>>
       ELSE Decide(n, count[k] + 1)
    /\ UNCHANGED <<ttl, kind, bounds, lapsed, stuck, spared>>

\* Mutant: the EXPIRE is left out.
ExpireNothing(n) ==
    /\ pc[n] = "expire"
    /\ Decide(n, 1)
    /\ UNCHANGED <<redis, kind, bounds, lapsed, stuck, spared>>

Expire(n) ==
    /\ pc[n] = "expire"
    /\ ttl' = [ttl EXCEPT ![At(n)] = TRUE]
    /\ Decide(n, 1)
    /\ UNCHANGED <<count, kind, bounds, lapsed, stuck, spared>>

\* Before the checks of the inboxes: no such user, no JSON.  Between those of the
\* shared inbox: no local recipient, which is acknowledged.
TurnAway(n) ==
    /\ pc[n] = "incr"
    /\ <<kind[n], check[n]>> \in {<<"inbox", 2>>, <<"shared", 2>>, <<"shared", 4>>}
    /\ End(n, "away")
    /\ UNCHANGED <<redis, kind, bounds, history>>

\* The window of a counter is over.
Lapse(k) ==
    /\ ttl[k]
    /\ count' = [count EXCEPT ![k] = 0]
    /\ ttl' = [ttl EXCEPT ![k] = FALSE]
    /\ let' = [let EXCEPT ![k] = 0]
    /\ lapsed' = lapsed \cup ({k} \cap Inboxes)
    /\ UNCHANGED <<pc, kind, check, bounds, stuck, spared>>

\* What Redis has done of a call that is not answered: all of it or nothing.
HalfDone(n) ==
    LET k == At(n) IN
    \/ /\ UNCHANGED redis
       /\ stuck' = IF pc[n] = "expire" THEN stuck \cup {k} ELSE stuck
    \/ /\ pc[n] = "incr"
       /\ count' = [count EXCEPT ![k] = @ + 1]
       /\ stuck' = IF count[k] = 0 THEN stuck \cup {k} ELSE stuck
       /\ UNCHANGED ttl
    \/ /\ pc[n] = "expire"
       /\ ttl' = [ttl EXCEPT ![k] = TRUE]
       /\ UNCHANGED <<count, stuck>>

\* An exception is logged, and the check passed.
RedisFails(n) ==
    /\ pc[n] \in {"incr", "expire"}
    /\ faults < MaxFaults
    /\ faults' = faults + 1
    /\ HalfDone(n)
    /\ Onward(n)
    /\ spared' = spared + 1
    /\ UNCHANGED <<kind, arrived, let, lapsed>>

Die(n) ==
    /\ pc[n] \in {"incr", "expire"}
    /\ faults < MaxFaults
    /\ faults' = faults + 1
    /\ HalfDone(n)
    /\ End(n, "dead")
    /\ UNCHANGED <<kind, arrived, let, lapsed, spared>>

Quiescent ==
    /\ arrived = MaxRequests
    /\ \A n \in Request : pc[n] \in Ended
    /\ \A k \in Key : ~ttl[k]
    /\ UNCHANGED vars

Next ==
    \/ \E n \in Request :
        \/ \E what \in Kind : Arrive(n, what)
        \/ Incr(n) \/ Expire(n) \/ TurnAway(n) \/ RedisFails(n) \/ Die(n)
    \/ \E k \in Key : Lapse(k)
    \/ Quiescent

\* Requests that have come are served, and Redis' clock runs.
Fairness ==
    /\ \A n \in Request : WF_vars(Incr(n)) /\ WF_vars(Expire(n))
    /\ \A k \in Key : WF_vars(Lapse(k))

Spec == Init /\ [][Next]_vars /\ Fairness

(***************************************************************************)
(* Properties                                                              *)
(***************************************************************************)
Served(what) == {n \in Request : pc[n] = "served" /\ kind[n] = what}

\* However requests interleave between INCR and EXPIRE, a counter lets no more of them
\* pass in a window than it allows; and of a window whose counters have worked, an
\* activity served by the shared inbox takes two places.
LimitHolds ==
    /\ \A k \in Key : let[k] <= Max[k]
    /\ \A k \in Inboxes :
          k \notin lapsed =>
            Cardinality(Served("inbox")) + 2 * Cardinality(Served("shared")) <= Max[k] + spared

\* A counter that has been raised runs out in the end, unless a failure came between
\* the INCR that made its key and the EXPIRE: then it stays for good.
CountersRunOut == \A k \in Key : count[k] > 0 ~> (count[k] = 0 \/ k \in stuck)
=============================================================================
