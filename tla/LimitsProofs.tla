---------------------------- MODULE LimitsProofs ------------------------------
(***************************************************************************)
(* Proofs about Limits for every limit, any number of requests and any     *)
(* number of failures: what the counters hold, and that however requests   *)
(* come between each other's INCR and EXPIRE no window lets more of them   *)
(* pass than it allows.                                                    *)
(***************************************************************************)
EXTENDS Limits, FiniteSetTheorems, TLAPS

(***************************************************************************)
(* The inductive invariant                                                 *)
(***************************************************************************)
Checking == {"incr", "expire"}

Shape ==
    /\ count \in [Key -> Nat]
    /\ ttl \in [Key -> BOOLEAN]
    /\ pc \in [Request -> {"idle"} \cup Checking \cup Ended]
    /\ kind \in [Request -> Kind]
    /\ check \in [Request -> 1..5]
    /\ arrived \in 0..MaxRequests
    /\ faults \in 0..MaxFaults
    /\ let \in [Key -> Nat]
    /\ lapsed \subseteq Inboxes
    /\ stuck \subseteq Key
    /\ spared \in Nat
    /\ \A n \in Request :
          /\ pc[n] = "idle" <=> n > arrived
          /\ pc[n] = "idle" => check[n] = 1
          /\ pc[n] \in Checking => check[n] <= Len(Checks(kind[n]))

\* The requests that have raised the counter of their check c, or need not any more.
Raised(c) == {n \in Request : \/ pc[n] \in Ended
                              \/ /\ pc[n] \in Checking
                                 /\ check[n] > c \/ (check[n] = c /\ pc[n] = "expire")}

\* A counter has been raised at most once for each request that has come so far.
Counted ==
    /\ count["user"] + count["address"] <= Cardinality(Raised(1))
    /\ count["ip"] <= Cardinality(Raised(2)) + Cardinality(Raised(4))
    /\ count["domain"] <= Cardinality(Raised(3)) + Cardinality(Raised(5))

\* The requests that have passed their check c.
Passed(c) == {n \in Request : \/ pc[n] \in Checking /\ check[n] > c
                              \/ pc[n] = "served" /\ c <= Len(Checks(kind[n]))}

\* Whoever has passed was let pass, or spared, as long as no window is over.
Admitted ==
    /\ "ip" \notin lapsed =>
          Cardinality(Passed(2)) + Cardinality(Passed(4)) <= let["ip"] + spared
    /\ "domain" \notin lapsed =>
          Cardinality(Passed(3)) + Cardinality(Passed(5)) <= let["domain"] + spared

\* A place in the window is kept for the request that is about to set the expiry,
\* and there is one such request at most.
Windows ==
    /\ \A k \in Key : /\ let[k] <= count[k] /\ let[k] <= Max[k]
                      /\ ttl[k] => count[k] > 0
    /\ \A n \in Request : pc[n] = "expire" =>
          /\ ~ttl[At(n)]
          /\ let[At(n)] + 1 <= count[At(n)]
          /\ Max[At(n)] > 0 => let[At(n)] + 1 <= Max[At(n)]
    /\ \A m, n \in Request :
          pc[m] = "expire" /\ pc[n] = "expire" /\ At(m) = At(n) => m = n

LimitsInv == Shape /\ Counted /\ Admitted /\ Windows

(***************************************************************************)
(* What the lists of checks say                                            *)
(***************************************************************************)
LEMMA ChecksFacts ==
    /\ Len(Checks("api")) = 1 /\ Len(Checks("inbox")) = 3 /\ Len(Checks("shared")) = 5
    /\ \A what \in Kind : \A c \in 1..Len(Checks(what)) :
          /\ Checks(what)[c] \in Key
          /\ Checks(what)[c] \in {"user", "address"} <=> c = 1
          /\ Checks(what)[c] = "ip" <=> c \in {2, 4}
          /\ Checks(what)[c] = "domain" <=> c \in {3, 5}
<1>1. Checks("api") = <<"user">>
  BY DEF Checks
<1>2. Checks("inbox") = <<"address", "ip", "domain">>
  BY DEF Checks
<1>3. Checks("shared") = <<"address", "ip", "domain", "ip", "domain">>
  BY DEF Checks
<1>4. QED  BY <1>1, <1>2, <1>3 DEF Kind, Key, Inboxes

LEMMA KindFacts == \A what \in Kind : Len(Checks(what)) \in 1..5
  BY ChecksFacts DEF Kind

\* A request at a check is at one of the counters, named by the position of the check.
LEMMA AtFacts ==
    ASSUME Shape, NEW n \in Request, pc[n] \in Checking
    PROVE  /\ At(n) \in Key /\ check[n] \in 1..5
           /\ check[n] \in 1..Len(Checks(kind[n]))
           /\ At(n) \in {"user", "address"} <=> check[n] = 1
           /\ At(n) = "ip" <=> check[n] \in {2, 4}
           /\ At(n) = "domain" <=> check[n] \in {3, 5}
<1>1. kind[n] \in Kind /\ check[n] \in 1..5 /\ check[n] <= Len(Checks(kind[n]))
  BY DEF Shape
<1>2. check[n] \in 1..Len(Checks(kind[n]))
  BY <1>1, KindFacts
<1>3. QED  BY <1>1, <1>2, ChecksFacts DEF At

(***************************************************************************)
(* Counting                                                                *)
(***************************************************************************)
LEMMA RequestsFinite ==
    /\ IsFiniteSet(Request)
    /\ \A S \in SUBSET Request : IsFiniteSet(S) /\ Cardinality(S) \in Nat
<1>1. IsFiniteSet(Request)
  BY RequestsAssumption, FS_Interval, 1 \in Int, MaxRequests \in Int DEF Request
<1>2. QED  BY <1>1, FS_Subset, FS_CardinalityType

LEMMA Smaller ==
    ASSUME NEW S \in SUBSET Request, NEW T \in SUBSET Request, S \subseteq T
    PROVE  Cardinality(S) <= Cardinality(T)
  BY RequestsFinite, FS_Subset

LEMMA OneMore ==
    ASSUME NEW S \in SUBSET Request, NEW T \in SUBSET Request, NEW n,
           S \subseteq T, n \in T, n \notin S
    PROVE  Cardinality(S) + 1 <= Cardinality(T)
<1>1. Cardinality(S \cup {n}) = Cardinality(S) + 1 /\ S \cup {n} \in SUBSET Request
  BY RequestsFinite, FS_AddElement
<1>2. Cardinality(S \cup {n}) <= Cardinality(T)
  BY <1>1, Smaller
<1>3. QED  BY <1>1, <1>2

LEMMA AtMostOneMore ==
    ASSUME NEW S \in SUBSET Request, NEW T \in SUBSET Request, NEW n \in Request,
           T \subseteq S \cup {n}
    PROVE  Cardinality(T) <= Cardinality(S) + 1
<1>1. Cardinality(S \cup {n}) <= Cardinality(S) + 1 /\ S \cup {n} \in SUBSET Request
  BY RequestsFinite, FS_AddElement
<1>2. Cardinality(T) <= Cardinality(S \cup {n})
  BY <1>1, Smaller
<1>3. QED  BY <1>1, <1>2, RequestsFinite

LEMMA SetsOfRequests ==
    \A c : /\ Raised(c) \in SUBSET Request /\ Raised(c)' \in SUBSET Request
           /\ Passed(c) \in SUBSET Request /\ Passed(c)' \in SUBSET Request
  BY DEF Raised, Passed

LEMMA Numbers ==
    /\ Cardinality(Raised(1)) \in Nat /\ Cardinality(Raised(1)') \in Nat
    /\ Cardinality(Raised(2)) \in Nat /\ Cardinality(Raised(2)') \in Nat
    /\ Cardinality(Raised(3)) \in Nat /\ Cardinality(Raised(3)') \in Nat
    /\ Cardinality(Raised(4)) \in Nat /\ Cardinality(Raised(4)') \in Nat
    /\ Cardinality(Raised(5)) \in Nat /\ Cardinality(Raised(5)') \in Nat
    /\ Cardinality(Passed(1)) \in Nat /\ Cardinality(Passed(1)') \in Nat
    /\ Cardinality(Passed(2)) \in Nat /\ Cardinality(Passed(2)') \in Nat
    /\ Cardinality(Passed(3)) \in Nat /\ Cardinality(Passed(3)') \in Nat
    /\ Cardinality(Passed(4)) \in Nat /\ Cardinality(Passed(4)') \in Nat
    /\ Cardinality(Passed(5)) \in Nat /\ Cardinality(Passed(5)') \in Nat
<1>1. \A c : /\ Cardinality(Raised(c)) \in Nat /\ Cardinality(Raised(c)') \in Nat
             /\ Cardinality(Passed(c)) \in Nat /\ Cardinality(Passed(c)') \in Nat
  BY SetsOfRequests, RequestsFinite
<1>2. QED  BY <1>1

(***************************************************************************)
(* How a request at a check goes on                                        *)
(***************************************************************************)
\* Every step of a request at a check moves it to the end, to its next check, or from
\* the INCR to the EXPIRE.
Moves(n) ==
    /\ \/ pc'[n] \in Ended /\ check'[n] = 1
       \/ pc'[n] = "incr" /\ check'[n] = check[n] + 1 /\ check'[n] <= Len(Checks(kind[n]))
       \/ pc[n] = "incr" /\ pc'[n] = "expire" /\ check'[n] = check[n]
    /\ pc' \in [Request -> {"idle"} \cup Checking \cup Ended]
    /\ check' \in [Request -> 1..5]
    /\ \A m \in Request \ {n} : pc'[m] = pc[m] /\ check'[m] = check[m]
    /\ kind' = kind /\ arrived' = arrived

LEMMA EndMoves ==
    ASSUME Shape, NEW n \in Request, NEW how \in Ended, End(n, how),
           kind' = kind, arrived' = arrived
    PROVE  Moves(n)
  BY DEF Shape, End, Moves

LEMMA OnwardMoves ==
    ASSUME Shape, NEW n \in Request, pc[n] \in Checking, Onward(n),
           kind' = kind, arrived' = arrived
    PROVE  /\ Moves(n)
           /\ pc'[n] # "expire"
           /\ pc'[n] = "served" \/ pc'[n] = "incr"
           /\ pc'[n] = "served" => check[n] = Len(Checks(kind[n]))
<1>1. check[n] \in 1..Len(Checks(kind[n])) /\ Len(Checks(kind[n])) \in 1..5
  BY AtFacts, KindFacts DEF Shape
<1>2. CASE check[n] = Len(Checks(kind[n]))
  BY <1>1, <1>2, EndMoves DEF Onward, End, Ended, Shape
<1>3. CASE check[n] # Len(Checks(kind[n]))
  <2>1. pc' = [pc EXCEPT ![n] = "incr"] /\ check' = [check EXCEPT ![n] = check[n] + 1]
    BY <1>3 DEF Onward
  <2>2. ASSUME NEW last \in 1..5, check[n] \in 1..last, check[n] # last
        PROVE  check[n] + 1 \in 1..5 /\ check[n] + 1 <= last
    BY <2>2
  <2>3. QED  BY <1>1, <1>3, <2>1, <2>2 DEF Shape, Moves, Checking
<1>4. QED  BY <1>1, <1>2, <1>3

LEMMA DecideMoves ==
    ASSUME Shape, NEW n \in Request, pc[n] \in Checking, NEW answer, Decide(n, answer),
           kind' = kind, arrived' = arrived
    PROVE  /\ Moves(n)
           /\ pc'[n] # "expire"
           /\ \/ Onward(n) /\ answer <= Max[At(n)] /\ let' = [let EXCEPT ![At(n)] = @ + 1]
              \/ pc'[n] = "refused" /\ UNCHANGED let
  BY EndMoves, OnwardMoves DEF Decide, End, Ended, Shape

\* What such a step leaves of the shape.
LEMMA MovesShape ==
    ASSUME Shape, NEW n \in Request, pc[n] \in Checking, Moves(n),
           count' \in [Key -> Nat], ttl' \in [Key -> BOOLEAN], faults' \in 0..MaxFaults,
           let' \in [Key -> Nat], lapsed' \subseteq Inboxes, stuck' \subseteq Key, spared' \in Nat
    PROVE  Shape'
<1>1. \A m \in Request :
          /\ pc'[m] = "idle" <=> m > arrived'
          /\ pc'[m] = "idle" => check'[m] = 1
          /\ pc'[m] \in Checking => check'[m] <= Len(Checks(kind'[m]))
  BY DEF Shape, Moves, Checking, Ended
<1>2. QED  BY <1>1 DEF Shape, Moves

\* A counter raised by the step was not raised for that check before.
LEMMA MovesCounted ==
    ASSUME Shape, Counted, NEW n \in Request, pc[n] \in Checking, Moves(n),
           \/ count' = count
           \/ pc[n] = "incr" /\ count' = [count EXCEPT ![At(n)] = @ + 1]
    PROVE  Counted'
<1>1. ASSUME NEW c \in 1..5, NEW m \in Request, m \in Raised(c) PROVE m \in Raised(c)'
  <2>1. CASE m = n
    BY <1>1, <2>1 DEF Shape, Raised, Moves, Checking, Ended
  <2>2. CASE m # n
    BY <1>1, <2>2 DEF Shape, Raised, Moves
  <2>3. QED  BY <2>1, <2>2
<1>2. \A c \in 1..5 : Raised(c) \subseteq Raised(c)'
  BY <1>1, SetsOfRequests
<1>3. \A c \in 1..5 : Cardinality(Raised(c)) <= Cardinality(Raised(c)')
  BY <1>2, SetsOfRequests, Smaller
<1>4. /\ Cardinality(Raised(1)) <= Cardinality(Raised(1)')
      /\ Cardinality(Raised(2)) <= Cardinality(Raised(2)')
      /\ Cardinality(Raised(3)) <= Cardinality(Raised(3)')
      /\ Cardinality(Raised(4)) <= Cardinality(Raised(4)')
      /\ Cardinality(Raised(5)) <= Cardinality(Raised(5)')
  BY <1>3
<1>5. /\ count["user"] \in Nat /\ count["address"] \in Nat
      /\ count["ip"] \in Nat /\ count["domain"] \in Nat
  BY DEF Shape, Key, Inboxes
<1>6. CASE count' = count
  BY <1>4, <1>5, <1>6, Numbers DEF Counted
<1>7. CASE pc[n] = "incr" /\ count' = [count EXCEPT ![At(n)] = @ + 1]
  <2>1. check[n] \in 1..5
    BY DEF Shape
  <2>2. ASSUME NEW c \in 1..5, c = check[n]
        PROVE  Cardinality(Raised(c)) + 1 <= Cardinality(Raised(c)')
    <3>1. n \in Raised(c)' /\ n \notin Raised(c)
      BY <1>7, <2>2 DEF Shape, Raised, Moves, Checking, Ended
    <3>2. QED  BY <1>2, <3>1, SetsOfRequests, OneMore
  <2>3. /\ count'["user"] = IF At(n) = "user" THEN count["user"] + 1 ELSE count["user"]
        /\ count'["address"] = IF At(n) = "address" THEN count["address"] + 1 ELSE count["address"]
        /\ count'["ip"] = IF At(n) = "ip" THEN count["ip"] + 1 ELSE count["ip"]
        /\ count'["domain"] = IF At(n) = "domain" THEN count["domain"] + 1 ELSE count["domain"]
    BY <1>7 DEF Shape, Key, Inboxes
  <2>4. CASE check[n] = 1
    <3>1. Cardinality(Raised(1)) + 1 <= Cardinality(Raised(1)')
      BY <2>2, <2>4
    <3>2. At(n) \in {"user", "address"}
      BY <2>4, AtFacts
    <3>3. QED  BY <1>4, <1>5, <2>3, <3>1, <3>2, Numbers DEF Counted
  <2>5. CASE check[n] = 2
    <3>1. Cardinality(Raised(2)) + 1 <= Cardinality(Raised(2)')
      BY <2>2, <2>5
    <3>2. At(n) = "ip"
      BY <2>5, AtFacts
    <3>3. QED  BY <1>4, <1>5, <2>3, <3>1, <3>2, Numbers DEF Counted
  <2>6. CASE check[n] = 3
    <3>1. Cardinality(Raised(3)) + 1 <= Cardinality(Raised(3)')
      BY <2>2, <2>6
    <3>2. At(n) = "domain"
      BY <2>6, AtFacts
    <3>3. QED  BY <1>4, <1>5, <2>3, <3>1, <3>2, Numbers DEF Counted
  <2>7. CASE check[n] = 4
    <3>1. Cardinality(Raised(4)) + 1 <= Cardinality(Raised(4)')
      BY <2>2, <2>7
    <3>2. At(n) = "ip"
      BY <2>7, AtFacts
    <3>3. QED  BY <1>4, <1>5, <2>3, <3>1, <3>2, Numbers DEF Counted
  <2>8. CASE check[n] = 5
    <3>1. Cardinality(Raised(5)) + 1 <= Cardinality(Raised(5)')
      BY <2>2, <2>8
    <3>2. At(n) = "domain"
      BY <2>8, AtFacts
    <3>3. QED  BY <1>4, <1>5, <2>3, <3>1, <3>2, Numbers DEF Counted
  <2>9. QED  BY <2>1, <2>4, <2>5, <2>6, <2>7, <2>8
<1>8. QED  BY <1>6, <1>7

(***************************************************************************)
(* Who has passed                                                          *)
(***************************************************************************)
\* A request that goes on has passed the check it was at, and no other.
LEMMA OnwardPassed ==
    ASSUME Shape, NEW n \in Request, pc[n] \in Checking, Onward(n),
           kind' = kind, arrived' = arrived
    PROVE  /\ \A c \in 1..5 : c # check[n] => Passed(c)' \subseteq Passed(c)
           /\ \A c \in 1..5 : c = check[n] => Passed(c)' \subseteq Passed(c) \cup {n}
<1>1. /\ Moves(n) /\ pc'[n] \in {"served", "incr"}
      /\ pc'[n] = "served" => check[n] = Len(Checks(kind[n]))
  BY OnwardMoves
<1>2. check[n] \in 1..5
  BY DEF Shape
<1>3. pc'[n] = "incr" => check'[n] = check[n] + 1
  BY <1>1 DEF Moves, Ended
<1>4. ASSUME NEW c \in 1..5, NEW m \in Request, m \in Passed(c)', m \notin Passed(c)
      PROVE  m = n /\ c = check[n]
  <2>1. m = n
    BY <1>1, <1>4 DEF Passed, Moves
  <2>2. c = check[n]
    BY <1>1, <1>2, <1>3, <1>4, <2>1 DEF Passed, Moves, Checking, Ended
  <2>3. QED  BY <2>1, <2>2
<1>5. QED  BY <1>2, <1>4, SetsOfRequests

\* One that ends otherwise, or waits for its EXPIRE, has passed none.
LEMMA OtherPassed ==
    ASSUME Shape, NEW n \in Request, pc[n] \in Checking, Moves(n),
           pc'[n] \in {"refused", "away", "dead", "expire"}
    PROVE  \A c \in 1..5 : Passed(c)' \subseteq Passed(c)
  BY DEF Shape, Passed, Moves, Checking, Ended

LEMMA NobodyAdmitted ==
    ASSUME Shape, Admitted, \A c \in 1..5 : Passed(c)' \subseteq Passed(c),
           let' = let, lapsed' = lapsed, spared' \in {spared, spared + 1}
    PROVE  Admitted'
<1>1. \A c \in 1..5 : Cardinality(Passed(c)') <= Cardinality(Passed(c))
  BY SetsOfRequests, Smaller
<1>2. /\ Cardinality(Passed(1)') <= Cardinality(Passed(1))
      /\ Cardinality(Passed(2)') <= Cardinality(Passed(2))
      /\ Cardinality(Passed(3)') <= Cardinality(Passed(3))
      /\ Cardinality(Passed(4)') <= Cardinality(Passed(4))
      /\ Cardinality(Passed(5)') <= Cardinality(Passed(5))
  BY <1>1
<1>3. let["ip"] \in Nat /\ let["domain"] \in Nat /\ spared \in Nat
  BY DEF Shape, Key, Inboxes
<1>4. QED  BY <1>2, <1>3, Numbers DEF Admitted

LEMMA OneAdmitted ==
    ASSUME Shape, Admitted, NEW n \in Request, pc[n] \in Checking, Onward(n),
           kind' = kind, arrived' = arrived, lapsed' = lapsed,
           \/ let' = [let EXCEPT ![At(n)] = @ + 1] /\ spared' = spared
           \/ let' = let /\ spared' = spared + 1
    PROVE  Admitted'
<1>1. \A c \in 1..5 : c # check[n] => Cardinality(Passed(c)') <= Cardinality(Passed(c))
  BY OnwardPassed, SetsOfRequests, Smaller
<1>2. \A c \in 1..5 : c = check[n] => Cardinality(Passed(c)') <= Cardinality(Passed(c)) + 1
  BY OnwardPassed, SetsOfRequests, AtMostOneMore
<1>3. let["ip"] \in Nat /\ let["domain"] \in Nat /\ spared \in Nat /\ check[n] \in 1..5
  BY DEF Shape, Key, Inboxes
<1>4. /\ let'["ip"] + spared' >= let["ip"] + spared
      /\ let'["domain"] + spared' >= let["domain"] + spared
      /\ At(n) = "ip" => let'["ip"] + spared' = let["ip"] + spared + 1
      /\ At(n) = "domain" => let'["domain"] + spared' = let["domain"] + spared + 1
      /\ let'["ip"] + spared' \in Nat /\ let'["domain"] + spared' \in Nat
  <2>1. CASE let' = [let EXCEPT ![At(n)] = @ + 1] /\ spared' = spared
    <3>1. /\ let'["ip"] = IF At(n) = "ip" THEN let["ip"] + 1 ELSE let["ip"]
          /\ let'["domain"] = IF At(n) = "domain" THEN let["domain"] + 1 ELSE let["domain"]
      BY <2>1 DEF Shape, Key, Inboxes
    <3>2. QED  BY <1>3, <2>1, <3>1
  <2>2. CASE let' = let /\ spared' = spared + 1
    BY <1>3, <2>2
  <2>3. QED  BY <2>1, <2>2
<1>5. CASE check[n] = 1
  <2>1. Cardinality(Passed(1)') <= Cardinality(Passed(1)) + 1
    BY <1>2, <1>5
  <2>2. /\ Cardinality(Passed(2)') <= Cardinality(Passed(2))
        /\ Cardinality(Passed(3)') <= Cardinality(Passed(3))
        /\ Cardinality(Passed(4)') <= Cardinality(Passed(4))
        /\ Cardinality(Passed(5)') <= Cardinality(Passed(5))
    BY <1>1, <1>5
  <2>3. QED  BY <1>3, <1>4, <2>1, <2>2, Numbers DEF Admitted
<1>6. CASE check[n] = 2
  <2>1. Cardinality(Passed(2)') <= Cardinality(Passed(2)) + 1
    BY <1>2, <1>6
  <2>2. /\ Cardinality(Passed(1)') <= Cardinality(Passed(1))
        /\ Cardinality(Passed(3)') <= Cardinality(Passed(3))
        /\ Cardinality(Passed(4)') <= Cardinality(Passed(4))
        /\ Cardinality(Passed(5)') <= Cardinality(Passed(5))
    BY <1>1, <1>6
  <2>3. At(n) = "ip"
    BY <1>6, AtFacts
  <2>4. QED  BY <1>3, <1>4, <2>1, <2>2, <2>3, Numbers DEF Admitted
<1>7. CASE check[n] = 3
  <2>1. Cardinality(Passed(3)') <= Cardinality(Passed(3)) + 1
    BY <1>2, <1>7
  <2>2. /\ Cardinality(Passed(1)') <= Cardinality(Passed(1))
        /\ Cardinality(Passed(2)') <= Cardinality(Passed(2))
        /\ Cardinality(Passed(4)') <= Cardinality(Passed(4))
        /\ Cardinality(Passed(5)') <= Cardinality(Passed(5))
    BY <1>1, <1>7
  <2>3. At(n) = "domain"
    BY <1>7, AtFacts
  <2>4. QED  BY <1>3, <1>4, <2>1, <2>2, <2>3, Numbers DEF Admitted
<1>8. CASE check[n] = 4
  <2>1. Cardinality(Passed(4)') <= Cardinality(Passed(4)) + 1
    BY <1>2, <1>8
  <2>2. /\ Cardinality(Passed(1)') <= Cardinality(Passed(1))
        /\ Cardinality(Passed(2)') <= Cardinality(Passed(2))
        /\ Cardinality(Passed(3)') <= Cardinality(Passed(3))
        /\ Cardinality(Passed(5)') <= Cardinality(Passed(5))
    BY <1>1, <1>8
  <2>3. At(n) = "ip"
    BY <1>8, AtFacts
  <2>4. QED  BY <1>3, <1>4, <2>1, <2>2, <2>3, Numbers DEF Admitted
<1>9. CASE check[n] = 5
  <2>1. Cardinality(Passed(5)') <= Cardinality(Passed(5)) + 1
    BY <1>2, <1>9
  <2>2. /\ Cardinality(Passed(1)') <= Cardinality(Passed(1))
        /\ Cardinality(Passed(2)') <= Cardinality(Passed(2))
        /\ Cardinality(Passed(3)') <= Cardinality(Passed(3))
        /\ Cardinality(Passed(4)') <= Cardinality(Passed(4))
    BY <1>1, <1>9
  <2>3. At(n) = "domain"
    BY <1>9, AtFacts
  <2>4. QED  BY <1>3, <1>4, <2>1, <2>2, <2>3, Numbers DEF Admitted
<1>10. QED  BY <1>3, <1>5, <1>6, <1>7, <1>8, <1>9

(***************************************************************************)
(* The windows                                                             *)
(***************************************************************************)
\* At(m) stays for every request but the one that moves.
LEMMA OthersStay ==
    ASSUME NEW n \in Request, Moves(n), NEW m \in Request \ {n}
    PROVE  At(m)' = At(m) /\ pc'[m] = pc[m]
  BY DEF Moves, At

\* A step after which the request is at no EXPIRE, and that lets none of the others'
\* places in the window go.
LEMMA WindowsKept ==
    ASSUME Shape, Windows, NEW n \in Request, pc[n] \in Checking, Moves(n), pc'[n] # "expire",
           \A k \in Key : /\ let'[k] <= count'[k] /\ let'[k] <= Max[k]
                          /\ ttl'[k] => count'[k] > 0,
           \A m \in Request \ {n} : pc[m] = "expire" =>
              /\ ~ttl'[At(m)]
              /\ let'[At(m)] + 1 <= count'[At(m)]
              /\ Max[At(m)] > 0 => let'[At(m)] + 1 <= Max[At(m)]
    PROVE  Windows'
<1>1. \A m \in Request : pc'[m] = "expire" => m # n /\ pc[m] = "expire" /\ At(m)' = At(m)
  BY OthersStay
<1>2. QED  BY <1>1 DEF Windows

(***************************************************************************)
(* The invariant is kept                                                   *)
(***************************************************************************)
LEMMA InitEstablishes == Init => LimitsInv
<1> SUFFICES ASSUME Init PROVE LimitsInv
  OBVIOUS
<1>1. Shape
  BY RequestsAssumption, FaultsAssumption, KindFacts
     DEF Init, Shape, Key, Inboxes, Request, Kind, Checking, Ended
<1>2. \A c : Raised(c) = {} /\ Passed(c) = {}
  BY DEF Init, Raised, Passed, Checking, Ended
<1>3. Cardinality({}) = 0
  BY FS_EmptySet
<1>4. Counted
  <2>1. count["user"] = 0 /\ count["address"] = 0 /\ count["ip"] = 0 /\ count["domain"] = 0
    BY DEF Init, Key, Inboxes
  <2>2. /\ Cardinality(Raised(1)) = 0 /\ Cardinality(Raised(2)) = 0 /\ Cardinality(Raised(3)) = 0
        /\ Cardinality(Raised(4)) = 0 /\ Cardinality(Raised(5)) = 0
    BY <1>2, <1>3
  <2>3. QED  BY <2>1, <2>2 DEF Counted
<1>5. Admitted
  BY <1>2, <1>3 DEF Init, Admitted, Key, Inboxes
<1>6. Windows
  BY MaxAssumption DEF Init, Windows
<1>7. QED  BY <1>1, <1>4, <1>5, <1>6 DEF LimitsInv

\* Nothing is counted for a request that comes: it is at its first INCR.
LEMMA ArriveKeeps ==
    ASSUME LimitsInv, NEW n \in Request, NEW what \in Kind, Arrive(n, what)
    PROVE  LimitsInv'
<1>1. /\ Shape /\ pc[n] = "idle" /\ check[n] = 1
      /\ \A m \in Request \ {n} : pc'[m] = pc[m] /\ kind'[m] = kind[m]
      /\ pc'[n] = "incr" /\ check' = check
  BY DEF LimitsInv, Shape, Arrive, Request
<1>2. Shape'
  <2>1. 1 <= Len(Checks(what))
    BY KindFacts
  <2>2. \A m \in Request :
          /\ pc'[m] = "idle" <=> m > arrived'
          /\ pc'[m] = "idle" => check'[m] = 1
          /\ pc'[m] \in Checking => check'[m] <= Len(Checks(kind'[m]))
    BY <2>1, RequestsAssumption DEF LimitsInv, Shape, Arrive, Request, Checking, Ended
  <2>3. QED  BY <2>2, RequestsAssumption DEF LimitsInv, Shape, Arrive, redis, history, Request, Checking
<1>3. \A c \in 1..5 : Raised(c)' = Raised(c) /\ Passed(c)' = Passed(c)
  <2> SUFFICES ASSUME NEW c \in 1..5, NEW m \in Request
               PROVE  (m \in Raised(c)' <=> m \in Raised(c)) /\ (m \in Passed(c)' <=> m \in Passed(c))
    BY SetsOfRequests
  <2>1. CASE m = n
    BY <1>1, <2>1 DEF Raised, Passed, Checking, Ended
  <2>2. CASE m # n
    BY <1>1, <2>2 DEF Raised, Passed
  <2>3. QED  BY <2>1, <2>2
<1>4. UNCHANGED <<count, ttl, let, lapsed, spared>>
  BY DEF Arrive, redis, history
<1>5. Counted'
  BY <1>3, <1>4 DEF LimitsInv, Counted
<1>6. Admitted'
  BY <1>3, <1>4 DEF LimitsInv, Admitted
<1>7. \A m \in Request : pc'[m] = "expire" => pc[m] = "expire" /\ At(m)' = At(m)
  BY <1>1 DEF At
<1>8. Windows'
  BY <1>4, <1>7 DEF LimitsInv, Windows
<1>9. QED  BY <1>2, <1>5, <1>6, <1>8 DEF LimitsInv

\* A request that a counter has answered is let pass, which takes a place in the window
\* and was counted, or is refused.
LEMMA DecideAdmits ==
    ASSUME Shape, Admitted, NEW n \in Request, pc[n] \in Checking, NEW answer, Decide(n, answer),
           kind' = kind, arrived' = arrived, lapsed' = lapsed, spared' = spared
    PROVE  Admitted'
<1>1. CASE Onward(n) /\ let' = [let EXCEPT ![At(n)] = @ + 1]
  BY <1>1, OneAdmitted
<1>2. CASE pc'[n] = "refused" /\ let' = let
  BY <1>2, DecideMoves, OtherPassed, NobodyAdmitted
<1>3. QED  BY <1>1, <1>2, DecideMoves

LEMMA LetCounts ==
    ASSUME Shape, NEW n \in Request, pc[n] \in Checking,
           let' = let \/ let' = [let EXCEPT ![At(n)] = @ + 1]
    PROVE  let' \in [Key -> Nat]
<1>1. let \in [Key -> Nat] /\ At(n) \in Key /\ let[At(n)] + 1 \in Nat
  BY AtFacts DEF Shape
<1>2. QED  BY <1>1

\* An INCR.
LEMMA IncrKeeps ==
    ASSUME LimitsInv, NEW n \in Request, Incr(n)
    PROVE  LimitsInv'
<1> DEFINE k == At(n)
<1>1. /\ Shape /\ Counted /\ Admitted /\ Windows
      /\ pc[n] = "incr" /\ pc[n] \in Checking
      /\ count' = [count EXCEPT ![k] = @ + 1]
      /\ ttl' = ttl /\ kind' = kind /\ arrived' = arrived /\ faults' = faults
      /\ lapsed' = lapsed /\ stuck' = stuck /\ spared' = spared
  BY DEF LimitsInv, Incr, bounds, Checking
<1>2. k \in Key /\ count' \in [Key -> Nat]
  BY <1>1, AtFacts DEF Shape
<1>3. /\ \A j \in Key : count[j] \in Nat /\ let[j] \in Nat /\ Max[j] \in Nat
      /\ \A j \in Key : count'[j] = IF j = k THEN count[k] + 1 ELSE count[j]
      /\ \A m \in Request : pc[m] = "expire" => At(m) \in Key
  BY <1>1, <1>2, MaxAssumption, AtFacts DEF Shape, Checking
<1>4. CASE count[k] = 0
  <2>1. pc' = [pc EXCEPT ![n] = "expire"] /\ check' = check /\ let' = let
    BY <1>4 DEF Incr
  <2>2. Moves(n) /\ pc'[n] = "expire"
    BY <1>1, <2>1 DEF Moves, Shape, Checking
  <2>3. Shape'
    BY <1>1, <1>2, <2>1, <2>2, MovesShape DEF Shape
  <2>4. Counted'
    BY <1>1, <2>2, MovesCounted
  <2>5. Admitted'
    BY <1>1, <2>1, <2>2, OtherPassed, NobodyAdmitted
  <2>6. \A m \in Request : At(m)' = At(m) /\ (pc'[m] = "expire" => m = n \/ pc[m] = "expire")
    BY <1>1, <2>1 DEF Shape, At
  <2>7. let[k] = 0 /\ ~ttl[k] /\ \A m \in Request : pc[m] = "expire" => At(m) # k
    BY <1>1, <1>2, <1>3, <1>4 DEF Windows, Shape
  <2>8. Windows'
    <3>1. \A j \in Key : let'[j] <= count'[j] /\ let'[j] <= Max[j] /\ (ttl'[j] => count'[j] > 0)
      BY <1>1, <1>3, <2>1 DEF Windows
    <3>2. ASSUME NEW m \in Request, pc'[m] = "expire"
          PROVE  /\ ~ttl'[At(m)]
                 /\ let'[At(m)] + 1 <= count'[At(m)]
                 /\ Max[At(m)] > 0 => let'[At(m)] + 1 <= Max[At(m)]
      <4>1. CASE m = n
        BY <1>1, <1>2, <1>3, <1>4, <2>1, <2>7, <4>1
      <4>2. CASE m # n
        BY <1>1, <1>3, <2>1, <2>6, <2>7, <3>2, <4>2 DEF Windows
      <4>3. QED  BY <4>1, <4>2
    <3>3. \A l, m \in Request : pc'[l] = "expire" /\ pc'[m] = "expire" /\ At(l) = At(m) => l = m
      BY <1>1, <2>6, <2>7 DEF Windows
    <3>4. QED  BY <2>6, <3>1, <3>2, <3>3 DEF Windows
  <2>9. QED  BY <2>3, <2>4, <2>5, <2>8 DEF LimitsInv
<1>5. CASE count[k] # 0
  <2>1. Decide(n, count[k] + 1)
    BY <1>5 DEF Incr
  <2>2. /\ Moves(n) /\ pc'[n] # "expire"
        /\ let' = let \/ (let' = [let EXCEPT ![k] = @ + 1] /\ count[k] + 1 <= Max[k])
    BY <1>1, <2>1, DecideMoves
  <2>3. Shape'
    BY <1>1, <1>2, <2>2, LetCounts, MovesShape DEF Shape
  <2>4. Counted'
    BY <1>1, <2>2, MovesCounted
  <2>5. Admitted'
    BY <1>1, <2>1, DecideAdmits
  <2>6. \A j \in Key : let'[j] = let[j] \/ (j = k /\ let'[j] = let[k] + 1 /\ count[k] + 1 <= Max[k])
    BY <1>1, <1>2, <2>2 DEF Shape
  <2>7. \A j \in Key : let'[j] <= count'[j] /\ let'[j] <= Max[j] /\ (ttl'[j] => count'[j] > 0)
    BY <1>1, <1>3, <2>6 DEF Windows
  <2>8. ASSUME NEW m \in Request \ {n}, pc[m] = "expire"
        PROVE  /\ ~ttl'[At(m)]
               /\ let'[At(m)] + 1 <= count'[At(m)]
               /\ Max[At(m)] > 0 => let'[At(m)] + 1 <= Max[At(m)]
    BY <1>1, <1>3, <2>6, <2>8 DEF Windows
  <2>9. Windows'
    BY <1>1, <2>2, <2>7, <2>8, WindowsKept
  <2>10. QED  BY <2>3, <2>4, <2>5, <2>9 DEF LimitsInv
<1>6. QED  BY <1>4, <1>5

\* An EXPIRE.
LEMMA ExpireKeeps ==
    ASSUME LimitsInv, NEW n \in Request, Expire(n)
    PROVE  LimitsInv'
<1> DEFINE k == At(n)
<1>1. /\ Shape /\ Counted /\ Admitted /\ Windows
      /\ pc[n] = "expire" /\ pc[n] \in Checking
      /\ ttl' = [ttl EXCEPT ![k] = TRUE] /\ Decide(n, 1)
      /\ count' = count /\ kind' = kind /\ arrived' = arrived /\ faults' = faults
      /\ lapsed' = lapsed /\ stuck' = stuck /\ spared' = spared
  BY DEF LimitsInv, Expire, bounds, Checking
<1>2. k \in Key /\ ttl' \in [Key -> BOOLEAN]
  BY <1>1, AtFacts DEF Shape
<1>3. /\ \A j \in Key : count[j] \in Nat /\ let[j] \in Nat /\ Max[j] \in Nat
      /\ \A j \in Key : j # k => ttl'[j] = ttl[j]
      /\ \A m \in Request : pc[m] = "expire" => At(m) \in Key
  BY <1>1, <1>2, MaxAssumption, AtFacts DEF Shape, Checking
<1>4. /\ Moves(n) /\ pc'[n] # "expire"
      /\ let' = let \/ (let' = [let EXCEPT ![k] = @ + 1] /\ 1 <= Max[k])
  BY <1>1, DecideMoves
<1>5. Shape'
  BY <1>1, <1>2, <1>4, LetCounts, MovesShape DEF Shape
<1>6. Counted'
  BY <1>1, <1>4, MovesCounted
<1>7. Admitted'
  BY <1>1, DecideAdmits
<1>8. \A j \in Key : let'[j] = let[j] \/ (j = k /\ let'[j] = let[k] + 1 /\ 1 <= Max[k])
  BY <1>1, <1>2, <1>4 DEF Shape
<1>9. let[k] + 1 <= count[k] /\ (Max[k] > 0 => let[k] + 1 <= Max[k])
  BY <1>1 DEF Windows
<1>10. \A j \in Key : let'[j] <= count'[j] /\ let'[j] <= Max[j] /\ (ttl'[j] => count'[j] > 0)
  BY <1>1, <1>2, <1>3, <1>8, <1>9 DEF Windows
<1>11. ASSUME NEW m \in Request \ {n}, pc[m] = "expire"
       PROVE  /\ ~ttl'[At(m)]
              /\ let'[At(m)] + 1 <= count'[At(m)]
              /\ Max[At(m)] > 0 => let'[At(m)] + 1 <= Max[At(m)]
  <2>1. At(m) # k
    BY <1>1, <1>11 DEF Windows
  <2>2. QED  BY <1>1, <1>3, <1>8, <1>11, <2>1 DEF Windows
<1>12. Windows'
  BY <1>1, <1>4, <1>10, <1>11, WindowsKept
<1>13. QED  BY <1>5, <1>6, <1>7, <1>12 DEF LimitsInv

LEMMA TurnAwayKeeps ==
    ASSUME LimitsInv, NEW n \in Request, TurnAway(n)
    PROVE  LimitsInv'
<1>1. /\ Shape /\ Counted /\ Admitted /\ Windows /\ pc[n] \in Checking /\ End(n, "away")
      /\ UNCHANGED <<count, ttl, kind, arrived, faults, let, lapsed, stuck, spared>>
  BY DEF LimitsInv, TurnAway, redis, bounds, history, Checking
<1>2. Moves(n) /\ pc'[n] = "away"
  BY <1>1, EndMoves DEF End, Ended, Shape
<1>3. Shape'
  BY <1>1, <1>2, MovesShape DEF Shape
<1>4. Counted'
  BY <1>1, <1>2, MovesCounted
<1>5. Admitted'
  BY <1>1, <1>2, OtherPassed, NobodyAdmitted
<1>6. Windows'
  BY <1>1, <1>2, WindowsKept DEF Windows
<1>7. QED  BY <1>3, <1>4, <1>5, <1>6 DEF LimitsInv

\* The end of a window: no request is about to set the expiry of a key that has one.
LEMMA LapseKeeps ==
    ASSUME LimitsInv, NEW k \in Key, Lapse(k)
    PROVE  LimitsInv'
<1>1. /\ Shape /\ Counted /\ Admitted /\ Windows /\ ttl[k]
      /\ count' = [count EXCEPT ![k] = 0] /\ ttl' = [ttl EXCEPT ![k] = FALSE]
      /\ let' = [let EXCEPT ![k] = 0] /\ lapsed' = lapsed \cup ({k} \cap Inboxes)
      /\ UNCHANGED <<pc, kind, check, arrived, faults, stuck, spared>>
  BY DEF LimitsInv, Lapse, bounds
<1>2. Shape'
  BY <1>1 DEF Shape
<1>3. \A c : Raised(c)' = Raised(c) /\ Passed(c)' = Passed(c)
  BY <1>1 DEF Raised, Passed
<1>4. /\ count["user"] \in Nat /\ count["address"] \in Nat
      /\ count["ip"] \in Nat /\ count["domain"] \in Nat
      /\ count'["user"] = IF k = "user" THEN 0 ELSE count["user"]
      /\ count'["address"] = IF k = "address" THEN 0 ELSE count["address"]
      /\ count'["ip"] = IF k = "ip" THEN 0 ELSE count["ip"]
      /\ count'["domain"] = IF k = "domain" THEN 0 ELSE count["domain"]
  BY <1>1 DEF Shape, Key, Inboxes
<1>5. Counted'
  BY <1>1, <1>3, <1>4, Numbers DEF Counted
<1>6. /\ "ip" \notin lapsed' => "ip" \notin lapsed /\ let'["ip"] = let["ip"]
      /\ "domain" \notin lapsed' => "domain" \notin lapsed /\ let'["domain"] = let["domain"]
  BY <1>1 DEF Shape, Key, Inboxes
<1>7. Admitted'
  BY <1>1, <1>3, <1>6 DEF Admitted
<1>8. \A m \in Request : /\ At(m)' = At(m)
                         /\ pc[m] = "expire" => At(m) \in Key /\ At(m) # k
  BY <1>1, AtFacts DEF At, Windows, Checking
<1>9. \A j \in Key : IF j = k THEN count'[j] = 0 /\ let'[j] = 0 /\ ~ttl'[j]
                     ELSE count'[j] = count[j] /\ let'[j] = let[j] /\ ttl'[j] = ttl[j]
  BY <1>1 DEF Shape
<1>10. \A j \in Key : let'[j] <= count'[j] /\ let'[j] <= Max[j] /\ (ttl'[j] => count'[j] > 0)
  BY <1>1, <1>9, MaxAssumption DEF Windows
<1>11. Windows'
  BY <1>1, <1>8, <1>9, <1>10 DEF Windows
<1>12. QED  BY <1>2, <1>5, <1>7, <1>11 DEF LimitsInv

(***************************************************************************)
(* Failures                                                                *)
(***************************************************************************)
\* What a call that is not answered may have done disturbs no other request.
LEMMA HalfDoneKeeps ==
    ASSUME LimitsInv, NEW n \in Request, pc[n] \in Checking, HalfDone(n), let' = let
    PROVE  /\ count' \in [Key -> Nat] /\ ttl' \in [Key -> BOOLEAN] /\ stuck' \subseteq Key
           /\ \/ count' = count
              \/ pc[n] = "incr" /\ count' = [count EXCEPT ![At(n)] = @ + 1]
           /\ \A k \in Key : /\ let'[k] <= count'[k] /\ let'[k] <= Max[k]
                             /\ ttl'[k] => count'[k] > 0
           /\ \A m \in Request \ {n} : pc[m] = "expire" =>
                 /\ ~ttl'[At(m)]
                 /\ let'[At(m)] + 1 <= count'[At(m)]
                 /\ Max[At(m)] > 0 => let'[At(m)] + 1 <= Max[At(m)]
<1> DEFINE k == At(n)
<1>1. /\ Shape /\ Windows /\ k \in Key
      /\ \A j \in Key : count[j] \in Nat /\ let[j] \in Nat /\ Max[j] \in Nat
      /\ \A m \in Request : pc[m] = "expire" => At(m) \in Key
  BY AtFacts, MaxAssumption DEF LimitsInv, Shape, Checking
<1>2. CASE count' = count /\ ttl' = ttl /\ stuck' \in {stuck, stuck \cup {k}}
  BY <1>1, <1>2 DEF Shape, Windows
<1>3. CASE /\ pc[n] = "incr" /\ count' = [count EXCEPT ![k] = @ + 1] /\ ttl' = ttl
           /\ stuck' \in {stuck, stuck \cup {k}}
  <2>1. \A j \in Key : count'[j] \in Nat /\ count[j] <= count'[j]
    BY <1>1, <1>3 DEF Shape
  <2>2. count' \in [Key -> Nat] /\ ttl' \in [Key -> BOOLEAN] /\ stuck' \subseteq Key
    BY <1>1, <1>3 DEF Shape
  <2>3. \A j \in Key : let'[j] <= count'[j] /\ let'[j] <= Max[j] /\ (ttl'[j] => count'[j] > 0)
    BY <1>1, <1>3, <2>1 DEF Windows
  <2>4. \A m \in Request : pc[m] = "expire" =>
           /\ ~ttl'[At(m)]
           /\ let'[At(m)] + 1 <= count'[At(m)]
           /\ Max[At(m)] > 0 => let'[At(m)] + 1 <= Max[At(m)]
    BY <1>1, <1>3, <2>1 DEF Windows
  <2>5. QED  BY <1>3, <2>2, <2>3, <2>4
<1>4. CASE pc[n] = "expire" /\ ttl' = [ttl EXCEPT ![k] = TRUE] /\ count' = count /\ stuck' = stuck
  <2>1. ttl' \in [Key -> BOOLEAN] /\ \A j \in Key : j # k => ttl'[j] = ttl[j]
    BY <1>1, <1>4 DEF Shape
  <2>2. count[k] > 0 /\ \A m \in Request \ {n} : pc[m] = "expire" => At(m) # k
    BY <1>1, <1>4 DEF Windows
  <2>3. \A j \in Key : let'[j] <= count'[j] /\ let'[j] <= Max[j] /\ (ttl'[j] => count'[j] > 0)
    BY <1>1, <1>4, <2>1, <2>2 DEF Windows
  <2>4. \A m \in Request \ {n} : pc[m] = "expire" =>
           /\ ~ttl'[At(m)]
           /\ let'[At(m)] + 1 <= count'[At(m)]
           /\ Max[At(m)] > 0 => let'[At(m)] + 1 <= Max[At(m)]
    BY <1>1, <1>4, <2>1, <2>2 DEF Windows
  <2>5. QED  BY <1>1, <1>4, <2>1, <2>3, <2>4 DEF Shape
<1>5. QED  BY <1>2, <1>3, <1>4 DEF HalfDone, redis

LEMMA RedisFailsKeeps ==
    ASSUME LimitsInv, NEW n \in Request, RedisFails(n)
    PROVE  LimitsInv'
<1>1. /\ Shape /\ Counted /\ Admitted /\ Windows /\ pc[n] \in Checking
      /\ faults' \in 0..MaxFaults /\ HalfDone(n) /\ Onward(n) /\ spared' = spared + 1 /\ spared' \in Nat
      /\ kind' = kind /\ arrived' = arrived /\ let' = let /\ lapsed' = lapsed
  BY FaultsAssumption DEF LimitsInv, RedisFails, Shape, Checking
<1>2. Moves(n) /\ pc'[n] # "expire"
  BY <1>1, OnwardMoves
<1>3. Shape'
  BY <1>1, <1>2, HalfDoneKeeps, MovesShape DEF Shape
<1>4. Counted'
  BY <1>1, <1>2, HalfDoneKeeps, MovesCounted
<1>5. Admitted'
  BY <1>1, OneAdmitted
<1>6. Windows'
  BY <1>1, <1>2, HalfDoneKeeps, WindowsKept
<1>7. QED  BY <1>3, <1>4, <1>5, <1>6 DEF LimitsInv

LEMMA DieKeeps ==
    ASSUME LimitsInv, NEW n \in Request, Die(n)
    PROVE  LimitsInv'
<1>1. /\ Shape /\ Counted /\ Admitted /\ Windows /\ pc[n] \in Checking
      /\ faults' \in 0..MaxFaults /\ HalfDone(n) /\ End(n, "dead") /\ spared' = spared
      /\ kind' = kind /\ arrived' = arrived /\ let' = let /\ lapsed' = lapsed
  BY FaultsAssumption DEF LimitsInv, Die, Shape, Checking
<1>2. Moves(n) /\ pc'[n] = "dead"
  BY <1>1, EndMoves DEF End, Ended, Shape
<1>3. Shape'
  BY <1>1, <1>2, HalfDoneKeeps, MovesShape DEF Shape
<1>4. Counted'
  BY <1>1, <1>2, HalfDoneKeeps, MovesCounted
<1>5. Admitted'
  BY <1>1, <1>2, OtherPassed, NobodyAdmitted
<1>6. Windows'
  BY <1>1, <1>2, HalfDoneKeeps, WindowsKept
<1>7. QED  BY <1>3, <1>4, <1>5, <1>6 DEF LimitsInv

LEMMA Kept == LimitsInv /\ [Next]_vars => LimitsInv'
<1> SUFFICES ASSUME LimitsInv, [Next]_vars PROVE LimitsInv'
  OBVIOUS
<1>1. CASE UNCHANGED vars
  <2>1. UNCHANGED <<count, ttl, pc, kind, check, arrived, faults, let, lapsed, stuck, spared>>
    BY <1>1 DEF vars, redis, bounds, history
  <2>2. \A c : Raised(c)' = Raised(c) /\ Passed(c)' = Passed(c)
    BY <2>1 DEF Raised, Passed
  <2>3. \A m : At(m)' = At(m)
    BY <2>1 DEF At
  <2>4. QED  BY <2>1, <2>2, <2>3 DEF LimitsInv, Shape, Counted, Admitted, Windows
<1>2. CASE \E n \in Request : \E what \in Kind : Arrive(n, what)
  BY <1>2, ArriveKeeps
<1>3. CASE \E n \in Request : Incr(n)
  BY <1>3, IncrKeeps
<1>4. CASE \E n \in Request : Expire(n)
  BY <1>4, ExpireKeeps
<1>5. CASE \E n \in Request : TurnAway(n)
  BY <1>5, TurnAwayKeeps
<1>6. CASE \E n \in Request : RedisFails(n)
  BY <1>6, RedisFailsKeeps
<1>7. CASE \E n \in Request : Die(n)
  BY <1>7, DieKeeps
<1>8. CASE \E k \in Key : Lapse(k)
  BY <1>8, LapseKeeps
<1>9. CASE Quiescent
  BY <1>1, <1>9 DEF Quiescent
<1>10. QED  BY <1>1, <1>2, <1>3, <1>4, <1>5, <1>6, <1>7, <1>8, <1>9 DEF Next

LEMMA AlwaysLimitsInv == Spec => []LimitsInv
  BY InitEstablishes, Kept, PTL DEF Spec

(***************************************************************************)
(* Theorems                                                                *)
(***************************************************************************)
\* A counter has been raised at most once, or twice by the shared inbox, for each
\* request that has come.
LEMMA CountedWhoCame ==
    ASSUME LimitsInv PROVE LimitsTypeOK
<1>1. Shape /\ Counted /\ arrived \in Nat /\ arrived <= MaxRequests
  BY RequestsAssumption DEF LimitsInv, Shape
<1>2. IsFiniteSet(1..arrived) /\ Cardinality(1..arrived) = arrived
  BY <1>1, FS_Interval, 1 \in Int, arrived \in Int
<1>3. ASSUME NEW c \in 1..5 PROVE Cardinality(Raised(c)) <= arrived
  <2>1. Raised(c) \subseteq 1..arrived
    BY <1>1, RequestsAssumption DEF Shape, Raised, Request, Checking, Ended
  <2>2. QED  BY <1>2, <2>1, FS_Subset
<1>4. /\ Cardinality(Raised(1)) <= arrived
      /\ Cardinality(Raised(2)) <= arrived /\ Cardinality(Raised(3)) <= arrived
      /\ Cardinality(Raised(4)) <= arrived /\ Cardinality(Raised(5)) <= arrived
  BY <1>3
<1>5. /\ count["user"] \in Nat /\ count["address"] \in Nat
      /\ count["ip"] \in Nat /\ count["domain"] \in Nat
  BY <1>1 DEF Shape, Key, Inboxes
<1>6. /\ count["user"] + count["address"] <= arrived
      /\ count["ip"] <= 2 * arrived /\ count["domain"] <= 2 * arrived
  BY <1>1, <1>4, <1>5, Numbers DEF Counted
<1>7. QED  BY <1>1, <1>6 DEF LimitsTypeOK, Shape, Checking

\* Every value has its type, and a counter never exceeds what the requests that have
\* come can have raised it to.
THEOREM LimitsTypeCorrect == Spec => []LimitsTypeOK
<1>1. LimitsInv => LimitsTypeOK
  BY CountedWhoCame
<1>2. QED  BY <1>1, AlwaysLimitsInv, PTL

LEMMA ServedHavePassed ==
    ASSUME LimitsInv
    PROVE  /\ Cardinality(Served("inbox")) + Cardinality(Served("shared")) <= Cardinality(Passed(2))
           /\ Cardinality(Served("inbox")) + Cardinality(Served("shared")) <= Cardinality(Passed(3))
           /\ Cardinality(Served("shared")) <= Cardinality(Passed(4))
           /\ Cardinality(Served("shared")) <= Cardinality(Passed(5))
<1> DEFINE both == Served("inbox") \cup Served("shared")
<1>1. Served("inbox") \in SUBSET Request /\ Served("shared") \in SUBSET Request
  BY DEF Served
<1>2. Served("inbox") \cap Served("shared") = {}
  BY DEF Served
<1>3. Cardinality(both) = Cardinality(Served("inbox")) + Cardinality(Served("shared"))
  <2>1. Cardinality(both) = Cardinality(Served("inbox")) + Cardinality(Served("shared"))
                            - Cardinality(Served("inbox") \cap Served("shared"))
    BY <1>1, RequestsFinite, FS_Union
  <2>2. Cardinality(Served("inbox") \cap Served("shared")) = 0
    BY <1>2, FS_EmptySet
  <2>3. QED  BY <1>1, <2>1, <2>2, RequestsFinite
<1>4. both \subseteq Passed(2) /\ both \subseteq Passed(3)
  <2> SUFFICES ASSUME NEW n, n \in both PROVE n \in Passed(2) /\ n \in Passed(3)
    OBVIOUS
  <2>1. n \in Request /\ pc[n] = "served" /\ kind[n] \in {"inbox", "shared"}
    BY DEF Served
  <2>2. Len(Checks(kind[n])) \in {3, 5}
    BY <2>1, ChecksFacts
  <2>3. \A last \in {3, 5} : 2 <= last /\ 3 <= last
    OBVIOUS
  <2>4. 2 <= Len(Checks(kind[n])) /\ 3 <= Len(Checks(kind[n]))
    BY <2>2, <2>3
  <2>5. QED  BY <2>1, <2>4 DEF Passed
<1>5. Served("shared") \subseteq Passed(4) /\ Served("shared") \subseteq Passed(5)
  BY ChecksFacts DEF Served, Passed
<1>6. both \in SUBSET Request
  BY <1>1
<1>7. Cardinality(both) <= Cardinality(Passed(2)) /\ Cardinality(both) <= Cardinality(Passed(3))
  BY <1>4, <1>6, SetsOfRequests, Smaller
<1>8. /\ Cardinality(Served("shared")) <= Cardinality(Passed(4))
      /\ Cardinality(Served("shared")) <= Cardinality(Passed(5))
  BY <1>1, <1>5, SetsOfRequests, Smaller
<1>9. QED  BY <1>3, <1>7, <1>8

\* However requests interleave between INCR and EXPIRE, fail or find Redis failed, no
\* counter lets more of them pass in a window than it allows; and an activity served
\* by the shared inbox has taken two places.
THEOREM LimitsAreKept == Spec => []LimitHolds
<1>1. ASSUME LimitsInv PROVE LimitHolds
  <2>1. \A k \in Key : let[k] <= Max[k]
    BY <1>1 DEF LimitsInv, Windows
  <2>2. /\ let["ip"] \in Nat /\ let["domain"] \in Nat /\ spared \in Nat
        /\ Max["ip"] \in Nat /\ Max["domain"] \in Nat
        /\ let["ip"] <= Max["ip"] /\ let["domain"] <= Max["domain"]
    BY <1>1, <2>1, MaxAssumption DEF LimitsInv, Shape, Key, Inboxes
  <2>3. Cardinality(Served("inbox")) \in Nat /\ Cardinality(Served("shared")) \in Nat
    BY RequestsFinite DEF Served
  <2>4. "ip" \notin lapsed =>
          Cardinality(Served("inbox")) + 2 * Cardinality(Served("shared")) <= Max["ip"] + spared
    BY <1>1, <2>2, <2>3, ServedHavePassed, Numbers DEF LimitsInv, Admitted
  <2>5. "domain" \notin lapsed =>
          Cardinality(Served("inbox")) + 2 * Cardinality(Served("shared")) <= Max["domain"] + spared
    BY <1>1, <2>2, <2>3, ServedHavePassed, Numbers DEF LimitsInv, Admitted
  <2>6. QED  BY <2>1, <2>4, <2>5 DEF LimitHolds, Inboxes
<1>2. QED  BY <1>1, AlwaysLimitsInv, PTL

=============================================================================
