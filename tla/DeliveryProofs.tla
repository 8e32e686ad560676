---------------------------- MODULE DeliveryProofs ----------------------------
(***************************************************************************)
(* Proofs about Recipes and Delivery for every set of recipes, followers   *)
(* and inboxes and every bound: what a recipe's status can become, which   *)
(* ingredient lists it shows, that a fan-out leaves out no follower, and   *)
(* how often an inbox can be given one activity.                           *)
(***************************************************************************)
EXTENDS Delivery, FiniteSetTheorems, TLAPS

(***************************************************************************)
(* Recipes: the inductive invariant                                        *)
(***************************************************************************)
DeletePC == {"delete_form", "delete_enqueue", "delete_flush"}

\* A request has set out to announce the deletion of what it has read published.
Announced(n) == was[n] = "published" => announce[n] = "delete"

\* What a request has in hand, where its program counter is.
InHand ==
    \A n \in Request :
        /\ pc[n] = "idle" <=> n > arrived
        /\ pc[n] # "idle" => on[n] \in Recipe
        /\ pc[n] = "create" => was[n] = "absent"
        /\ pc[n] = "publish" => was[n] = "draft"
        /\ pc[n] = "edit" => was[n] \in {"draft", "published"}
        /\ pc[n] \in DeletePC => was[n] \in {"draft", "published"} /\ Announced(n)
        /\ was[n] = "absent" => read[n] = {}
        /\ pc[n] = "delete_enqueue" => announce[n] # "none"
        /\ pc[n] = "enqueue" => announce[n] # "none"

\* Request n has written s to the row of its recipe.
Writes(n, s) ==
    \/ was[n] = "absent" /\ s \in {"draft", "published"}
    \/ was[n] = "draft" /\ s = "published"
    \/ was[n] \in {"draft", "published"} /\ s = "deleted" /\ Announced(n)

RecipeRows ==
    \A r \in Recipe :
        /\ \A n \in Request : recipe[r].by = n =>
              /\ on[n] = r /\ pc[n] \in {"edit", "enqueue", "commit"}
              /\ Writes(n, recipe[r].new)
        /\ recipe[r].old # "absent" => \E n \in Request : on[n] = r /\ pc[n] = "done"

\* While a recipe is being created nobody else can work on it.
Sole ==
    \A n \in Request : was[n] = "absent" /\ pc[n] \in Running =>
        /\ recipe[on[n]].old = "absent"
        /\ \A m \in Request \ {n} : on[m] = on[n] => pc[m] = "failed"

\* A list is committed with its request, and written by that request or by one that has
\* read it and removes it.
ListRows ==
    \A m \in Request :
        /\ list[m].old => pc[m] = "done"
        /\ list[m].by = Nobody => list[m].new = list[m].old
        /\ \A n \in Request : list[m].by = n =>
              /\ pc[n] \in {"enqueue", "commit"}
              /\ IF m = n THEN list[m].new ELSE m \in read[n] /\ ~list[m].new

\* What a request has read was there; once it has written its own list, the lists it has
\* read are gone, or go with its commit.
ListsReplaced ==
    \A n \in Request : \A m \in read[n] :
        /\ pc[m] = "done" /\ on[m] = on[n] /\ m # n
        /\ list[n].by = n \/ list[n].old => list[m].by = n \/ list[m] = Committed(FALSE)

RecipeInv == RecipeTypeOK /\ InHand /\ RecipeRows /\ Sole /\ ListRows /\ ListsReplaced

(***************************************************************************)
(* Delivery: the inductive invariant                                       *)
(***************************************************************************)
\* A follower is read for a recipe that is there.
Read ==
    \A n \in Request :
        /\ fanout[n] # "none" => pc[n] # "idle"
        /\ task[n] \in TaskRunning \cup {"done"} \/ audience[n] # {} => fanout[n] # "none"
        /\ task[n] \in TaskRunning \/ audience[n] # {} => recipe[on[n]].old # "absent"
        /\ run[n] <= 1 + crashes

\* The messages of a fan-out: of the present run, only those for its audience.
Sent ==
    \A n \in Request : \A f \in Follower : \A r \in Run :
        /\ message[<<n, f, r>>] # "none" =>
              /\ r <= run[n]
              /\ r = run[n] => task[n] \in {"send", "done"} /\ f \in UniqueInboxes(audience[n])
              /\ \A g \in Follower : g # f /\ InboxOf[g] = InboxOf[f] => message[<<n, g, r>>] = "none"
        /\ task[n] = "done" /\ f \in UniqueInboxes(audience[n]) => message[<<n, f, run[n]>>] # "none"

\* The runs of n's fan-out that have had their message to an inbox accepted.
Accepted(n, i) == {r \in Run : \E f \in Follower : InboxOf[f] = i /\ message[<<n, f, r>>] = "done"}

\* What an inbox has been given is accepted, or its answer was lost, or the worker was,
\* in a delivery and not in a fan-out: run - 1 of those lost were.
Counted ==
    \A n \in Request : \A i \in Inbox :
        received[<<n, i>>] + run[n] <= Cardinality(Accepted(n, i)) + 1 + crashes + lost

DeliveryInv == RecipeInv /\ DeliveryTypeOK /\ Read /\ Sent /\ Counted

(***************************************************************************)
(* Recipes: types                                                          *)
(***************************************************************************)
LEMMA RequestFacts ==
    /\ \A n \in Request : n \in Nat /\ n # Nobody /\ n >= 1 /\ n <= MaxRequests
    /\ Nobody = 0
  BY RequestsAssumption DEF Request, Nobody

LEMMA WriteTyped ==
    ASSUME NEW K, NEW V, NEW tbl \in [K -> Versions(V, Request)], NEW k \in K, NEW v \in V,
           NEW n \in Request
    PROVE  /\ Write(tbl, k, v, n) \in [K -> Versions(V, Request)]
           /\ \A j \in K : /\ Write(tbl, k, v, n)[j].old = tbl[j].old
                           /\ j # k => Write(tbl, k, v, n)[j] = tbl[j]
           /\ Write(tbl, k, v, n)[k].new = v /\ Write(tbl, k, v, n)[k].by = n
  BY DEF Versions, Write

LEMMA SettleTyped ==
    ASSUME NEW K, NEW V, NEW tbl \in [K -> Versions(V, Request)], NEW n \in Request
    PROVE  /\ CommitRows(tbl, n) \in [K -> Versions(V, Request)]
           /\ RollbackRows(tbl, n) \in [K -> Versions(V, Request)]
           /\ \A k \in K : tbl[k].by = n => /\ CommitRows(tbl, n)[k] = Committed(tbl[k].new)
                                            /\ RollbackRows(tbl, n)[k] = Committed(tbl[k].old)
           /\ \A k \in K : tbl[k].by # n => /\ CommitRows(tbl, n)[k] = tbl[k]
                                            /\ RollbackRows(tbl, n)[k] = tbl[k]
  BY DEF Versions, CommitRows, RollbackRows, Committed

LEMMA ReadLists ==
    ASSUME ListsReplaced, NEW k \in Request, NEW m \in read[k]
    PROVE  /\ pc[m] = "done" /\ on[m] = on[k] /\ m # k
           /\ list[k].by = k \/ list[k].old => list[m].by = k \/ list[m] = Committed(FALSE)
  BY DEF ListsReplaced

\* Request n goes there with what it has in hand.
Moves(n, there) ==
    /\ Goto(n, there)
    /\ UNCHANGED <<locals, arrived>>
    /\ pc[n] \in Running
    /\ there \in Running \cup {"done", "failed"}

LEMMA MovesPC ==
    ASSUME RecipeTypeOK, NEW n \in Request, NEW there, Moves(n, there)
    PROVE  /\ pc' \in [Request -> PC] /\ pc'[n] = there
           /\ \A m \in Request \ {n} : pc'[m] = pc[m]
           /\ on' = on /\ was' = was /\ read' = read /\ announce' = announce /\ arrived' = arrived
  BY DEF RecipeTypeOK, Moves, Goto, PC, locals

LEMMA MovesTyped ==
    ASSUME RecipeTypeOK, NEW n \in Request, NEW there, Moves(n, there),
           recipe' \in [Recipe -> Versions(Status, Request)],
           list' \in [Request -> Versions(BOOLEAN, Request)],
           fanout' \in [Request -> Activity \cup {"none"}], faults' \in 0..MaxFaults
    PROVE  RecipeTypeOK'
  BY MovesPC DEF RecipeTypeOK

LEMMA MovesInHand ==
    ASSUME RecipeTypeOK, InHand, NEW n \in Request, NEW there, Moves(n, there),
           there \in {"create", "publish", "delete_form", "delete_enqueue"} => FALSE,
           there = "edit" => was[n] \in {"draft", "published"},
           there = "delete_flush" => pc[n] \in DeletePC,
           there = "enqueue" => announce[n] # "none"
    PROVE  InHand'
<1> SUFFICES ASSUME NEW m \in Request
             PROVE  /\ pc'[m] = "idle" <=> m > arrived'
                    /\ pc'[m] # "idle" => on'[m] \in Recipe
                    /\ pc'[m] = "create" => was'[m] = "absent"
                    /\ pc'[m] = "publish" => was'[m] = "draft"
                    /\ pc'[m] = "edit" => was'[m] \in {"draft", "published"}
                    /\ pc'[m] \in DeletePC => was'[m] \in {"draft", "published"} /\ Announced(m)'
                    /\ was'[m] = "absent" => read'[m] = {}
                    /\ pc'[m] = "delete_enqueue" => announce'[m] # "none"
                    /\ pc'[m] = "enqueue" => announce'[m] # "none"
  BY DEF InHand
<1>1. Announced(m)' <=> Announced(m)
  BY MovesPC DEF Announced
<1>2. CASE m # n
  BY <1>1, <1>2, MovesPC DEF InHand
<1>3. CASE m = n
  BY <1>1, <1>3, MovesPC DEF InHand, Moves, Running, DeletePC
<1>4. QED  BY <1>2, <1>3

(***************************************************************************)
(* Recipes: what a step leaves of the invariant                            *)
(***************************************************************************)
LEMMA RecipeRowsStay ==
    ASSUME RecipeTypeOK, RecipeRows, NEW n \in Request, NEW there, Moves(n, there),
           recipe' = recipe,
           pc[n] \in {"edit", "enqueue", "commit"} => there \in {"edit", "enqueue", "commit"}
    PROVE  RecipeRows'
<1> SUFFICES ASSUME NEW r \in Recipe
             PROVE  /\ \A m \in Request : recipe'[r].by = m =>
                          /\ on'[m] = r /\ pc'[m] \in {"edit", "enqueue", "commit"}
                          /\ Writes(m, recipe[r].new)'
                    /\ recipe'[r].old # "absent" => \E m \in Request : on'[m] = r /\ pc'[m] = "done"
  BY DEF RecipeRows
<1>1. \A m \in Request : \A s : Writes(m, s)' <=> Writes(m, s)
  BY MovesPC DEF Writes, Announced
<1>2. ASSUME NEW m \in Request, recipe'[r].by = m
      PROVE  on'[m] = r /\ pc'[m] \in {"edit", "enqueue", "commit"} /\ Writes(m, recipe[r].new)'
  BY <1>1, <1>2, MovesPC DEF RecipeRows
<1>3. recipe'[r].old # "absent" => \E m \in Request : on'[m] = r /\ pc'[m] = "done"
  BY MovesPC DEF RecipeRows, Moves, Running
<1>4. QED  BY <1>2, <1>3

LEMMA SoleStays ==
    ASSUME RecipeTypeOK, Sole, NEW n \in Request, NEW there, Moves(n, there),
           \A m \in Request : was[m] = "absent" /\ pc[m] \in Running /\ (m = n => there \in Running)
                              /\ recipe[on[m]].old = "absent"
                              => recipe'[on[m]].old = "absent"
    PROVE  Sole'
<1> SUFFICES ASSUME NEW m \in Request, was'[m] = "absent", pc'[m] \in Running
             PROVE  /\ recipe'[on'[m]].old = "absent"
                    /\ \A k \in Request \ {m} : on'[k] = on'[m] => pc'[k] = "failed"
  BY DEF Sole
<1>1. pc[m] \in Running /\ was[m] = "absent" /\ (m = n => there \in Running)
  BY MovesPC DEF Moves
<1>2. \A k \in Request \ {m} : on[k] = on[m] => pc[k] = "failed"
  BY <1>1 DEF Sole
<1>3. recipe'[on'[m]].old = "absent"
  BY <1>1, MovesPC DEF Sole
<1>4. \A k \in Request \ {m} : on'[k] = on'[m] => pc'[k] = "failed"
  BY <1>2, MovesPC DEF Moves, Running
<1>5. QED  BY <1>3, <1>4

LEMMA ListsStay ==
    ASSUME RecipeTypeOK, ListRows, ListsReplaced, NEW n \in Request, NEW there, Moves(n, there),
           list' = list,
           pc[n] \in {"enqueue", "commit"} => there \in {"enqueue", "commit"}
    PROVE  ListRows' /\ ListsReplaced'
<1>1. ListRows'
  <2> SUFFICES ASSUME NEW m \in Request
               PROVE  /\ list'[m].old => pc'[m] = "done"
                      /\ list'[m].by = Nobody => list'[m].new = list'[m].old
                      /\ \A k \in Request : list'[m].by = k =>
                            /\ pc'[k] \in {"enqueue", "commit"}
                            /\ IF m = k THEN list'[m].new ELSE m \in read'[k] /\ ~list'[m].new
    BY DEF ListRows
  <2>1. list'[m].old => pc'[m] = "done"
    BY MovesPC DEF ListRows, Moves, Running
  <2>2. QED  BY <2>1, MovesPC DEF ListRows
<1>2. ListsReplaced'
  <2> SUFFICES ASSUME NEW k \in Request, NEW m \in read'[k]
               PROVE  /\ pc'[m] = "done" /\ on'[m] = on'[k] /\ m # k
                      /\ list'[k].by = k \/ list'[k].old => list'[m].by = k \/ list'[m] = Committed(FALSE)
    BY DEF ListsReplaced
  <2>1. m \in read[k] /\ m \in Request
    BY MovesPC DEF RecipeTypeOK
  <2>2. pc[m] = "done" /\ m # n
    BY <2>1 DEF ListsReplaced, Moves, Running
  <2>3. list[k].by = k \/ list[k].old => list[m].by = k \/ list[m] = Committed(FALSE)
    BY <2>1, MovesPC DEF ListsReplaced
  <2>4. on[m] = on[k] /\ m # k /\ k \in Request
    BY <2>1 DEF ListsReplaced
  <2>5. QED  BY <2>1, <2>2, <2>3, <2>4, MovesPC
<1>3. QED  BY <1>1, <1>2

(***************************************************************************)
(* Recipes: the steps                                                      *)
(***************************************************************************)
\* The next request, about a recipe that is its to work on.
LEMMA ArriveKeeps ==
    ASSUME RecipeInv, NEW r \in Recipe, NEW activity \in Activity \cup {"none"},
           NEW there \in {"create", "publish", "edit"} \cup DeletePC, Arrive(r, activity, there),
           there = "create" => \A m \in Request : on[m] = r => pc[m] = "failed",
           there = "publish" => recipe[r].old = "draft",
           there = "edit" => recipe[r].old \in {"draft", "published"},
           there \in DeletePC => /\ recipe[r].old \in {"draft", "published"}
                                 /\ recipe[r].old = "published" => activity = "delete",
           there = "delete_enqueue" => activity # "none"
    PROVE  RecipeInv' /\ UNCHANGED <<recipe, list, fanout>>
<1> DEFINE n == arrived + 1
<1>1. /\ n \in Request /\ arrived' = n /\ pc[n] = "idle" /\ there \in Running
      /\ UNCHANGED <<recipe, list, fanout, faults>>
  BY RequestFacts DEF RecipeInv, RecipeTypeOK, InHand, Arrive, Running, DeletePC
<1>2. /\ pc'[n] = there /\ on'[n] = r /\ was'[n] = recipe[r].old /\ read'[n] = Lists(r)
      /\ announce'[n] = activity
      /\ \A m \in Request \ {n} : /\ pc'[m] = pc[m] /\ on'[m] = on[m] /\ was'[m] = was[m]
                                  /\ read'[m] = read[m] /\ announce'[m] = announce[m]
  BY <1>1 DEF RecipeInv, RecipeTypeOK, Arrive, Goto
<1>3. recipe[r].old \in Status /\ Lists(r) \subseteq Request
  BY DEF RecipeInv, RecipeTypeOK, Versions, Lists
<1>4. RecipeTypeOK'
  BY <1>1, <1>3 DEF RecipeInv, RecipeTypeOK, Arrive, Goto, PC, Request
<1>5. \A m \in Lists(r) : pc[m] = "done" /\ on[m] = r /\ m # n /\ m \in Request
  BY <1>1 DEF RecipeInv, ListRows, Lists
<1>6. there = "create" => recipe[r].old = "absent" /\ Lists(r) = {}
  BY <1>5 DEF RecipeInv, RecipeRows
<1> HIDE DEF n
<1>7. InHand'
  <2> SUFFICES ASSUME NEW m \in Request
               PROVE  /\ pc'[m] = "idle" <=> m > arrived'
                      /\ pc'[m] # "idle" => on'[m] \in Recipe
                      /\ pc'[m] = "create" => was'[m] = "absent"
                      /\ pc'[m] = "publish" => was'[m] = "draft"
                      /\ pc'[m] = "edit" => was'[m] \in {"draft", "published"}
                      /\ pc'[m] \in DeletePC => was'[m] \in {"draft", "published"} /\ Announced(m)'
                      /\ was'[m] = "absent" => read'[m] = {}
                      /\ pc'[m] = "delete_enqueue" => announce'[m] # "none"
                      /\ pc'[m] = "enqueue" => announce'[m] # "none"
    BY DEF InHand
  <2>1. CASE m = n
    <3>1. pc'[m] = "idle" <=> m > arrived'
      BY <1>1, <1>2, <2>1, RequestFacts DEF Running
    <3>2. recipe[r].old = "absent" => there = "create"
      BY DEF DeletePC
    <3>3. QED  BY <1>2, <1>6, <2>1, <3>1, <3>2 DEF Announced, DeletePC
  <2>2. CASE m # n
    <3>1. m > arrived' <=> m > arrived
      BY <1>1, <2>2, RequestFacts DEF RecipeInv, RecipeTypeOK, n
    <3>2. Announced(m)' <=> Announced(m)
      BY <1>2, <2>2 DEF Announced
    <3>3. QED  BY <1>2, <2>2, <3>1, <3>2 DEF RecipeInv, InHand
  <2>3. QED  BY <2>1, <2>2
<1>8. RecipeRows'
  <2> SUFFICES ASSUME NEW q \in Recipe
               PROVE  /\ \A m \in Request : recipe[q].by = m =>
                            /\ on'[m] = q /\ pc'[m] \in {"edit", "enqueue", "commit"}
                            /\ Writes(m, recipe[q].new)'
                      /\ recipe[q].old # "absent" => \E m \in Request : on'[m] = q /\ pc'[m] = "done"
    BY <1>1 DEF RecipeRows
  <2>1. recipe[q].by # n
    BY <1>1 DEF RecipeInv, RecipeRows
  <2>2. \A m \in Request \ {n} : \A s : Writes(m, s)' <=> Writes(m, s)
    BY <1>2 DEF Writes, Announced
  <2>3. ASSUME NEW m \in Request, recipe[q].by = m
        PROVE  on'[m] = q /\ pc'[m] \in {"edit", "enqueue", "commit"} /\ Writes(m, recipe[q].new)'
    BY <1>1, <1>2, <2>1, <2>2, <2>3 DEF RecipeInv, RecipeRows
  <2>4. ASSUME recipe[q].old # "absent" PROVE \E m \in Request : on'[m] = q /\ pc'[m] = "done"
    BY <1>1, <1>2, <2>4 DEF RecipeInv, RecipeRows
  <2>5. QED  BY <2>3, <2>4
<1>9. Sole'
  <2> SUFFICES ASSUME NEW m \in Request, was'[m] = "absent", pc'[m] \in Running
               PROVE  /\ recipe[on'[m]].old = "absent"
                      /\ \A k \in Request \ {m} : on'[k] = on'[m] => pc'[k] = "failed"
    BY <1>1 DEF Sole
  <2>1. CASE m = n
    BY <1>2, <1>6, <2>1 DEF DeletePC
  <2>2. CASE m # n
    <3>1. recipe[on[m]].old = "absent" /\ \A k \in Request \ {m} : on[k] = on[m] => pc[k] = "failed"
      BY <1>2, <2>2 DEF RecipeInv, Sole
    <3>2. on[m] # r
      BY <1>2, <2>2, <3>1 DEF Running, DeletePC
    <3>3. QED  BY <1>2, <2>2, <3>1, <3>2
  <2>3. QED  BY <2>1, <2>2
<1>10. ListRows'
  <2> SUFFICES ASSUME NEW m \in Request
               PROVE  /\ list[m].old => pc'[m] = "done"
                      /\ list[m].by = Nobody => list[m].new = list[m].old
                      /\ \A k \in Request : list[m].by = k =>
                            /\ pc'[k] \in {"enqueue", "commit"}
                            /\ IF m = k THEN list[m].new ELSE m \in read'[k] /\ ~list[m].new
    BY <1>1 DEF ListRows
  <2>1. list[m].by # n /\ (list[m].old => m # n)
    BY <1>1 DEF RecipeInv, ListRows
  <2>2. QED  BY <1>2, <2>1 DEF RecipeInv, ListRows
<1>11. ListsReplaced'
  <2> SUFFICES ASSUME NEW k \in Request, NEW m \in read'[k]
               PROVE  /\ pc'[m] = "done" /\ on'[m] = on'[k] /\ m # k
                      /\ list[k].by = k \/ list[k].old => list[m].by = k \/ list[m] = Committed(FALSE)
    BY <1>1 DEF ListsReplaced
  <2>1. CASE k = n
    <3>1. list[n].by # n /\ ~list[n].old
      BY <1>1 DEF RecipeInv, ListRows
    <3>2. QED  BY <1>2, <1>5, <2>1, <3>1
  <2>2. CASE k # n
    <3>0. m \in read[k] /\ m \in Request
      BY <1>2, <2>2 DEF RecipeInv, RecipeTypeOK
    <3>1. pc[m] = "done" /\ on[m] = on[k] /\ m # k
      BY <3>0, ReadLists DEF RecipeInv
    <3>2. list[k].by = k \/ list[k].old => list[m].by = k \/ list[m] = Committed(FALSE)
      BY <3>0, ReadLists DEF RecipeInv
    <3>3. m # n
      BY <1>1, <3>1
    <3>4. QED  BY <1>2, <2>2, <3>0, <3>1, <3>2, <3>3
  <2>3. QED  BY <2>1, <2>2
<1>12. QED
  BY <1>1, <1>4, <1>7, <1>8, <1>9, <1>10, <1>11 DEF RecipeInv

LEMMA BeginKeeps ==
    ASSUME RecipeInv, RecipeBegin
    PROVE  RecipeInv' /\ UNCHANGED <<recipe, list, fanout>>
<1>1. ASSUME NEW r \in Recipe, NEW publish \in BOOLEAN, CreateBegin(r, publish)
      PROVE  RecipeInv' /\ UNCHANGED <<recipe, list, fanout>>
  BY <1>1, ArriveKeeps DEF CreateBegin, Activity, DeletePC
<1>2. ASSUME NEW r \in Recipe, NEW publish \in BOOLEAN, EditBegin(r, publish)
      PROVE  RecipeInv' /\ UNCHANGED <<recipe, list, fanout>>
  BY <1>2, ArriveKeeps DEF EditBegin, EditAnnounces, Activity, DeletePC
<1>3. ASSUME NEW r \in Recipe, DeleteFormBegin(r) \/ DeleteBegin(r)
      PROVE  RecipeInv' /\ UNCHANGED <<recipe, list, fanout>>
  BY <1>3, ArriveKeeps DEF DeleteFormBegin, DeleteBegin, DeleteAnnounces, Activity, DeletePC
<1>4. QED  BY <1>1, <1>2, <1>3 DEF RecipeBegin, ForkBegin

\* A status is written to the row of the request's recipe, which it then holds.
LEMMA StatusWritten ==
    ASSUME RecipeInv, NEW n \in Request, NEW there \in {"edit", "enqueue", "commit"},
           Moves(n, there), NEW s \in Status, SetRecipeStatus(n, s), Writes(n, s)
    PROVE  /\ recipe' \in [Recipe -> Versions(Status, Request)] /\ RecipeRows'
           /\ \A r \in Recipe : recipe'[r].old = recipe[r].old
<1>1. PICK q \in Recipe : q = on[n]
  BY DEF RecipeInv, InHand, Moves, Running
<1>2. /\ recipe' \in [Recipe -> Versions(Status, Request)]
      /\ \A r \in Recipe : /\ recipe'[r].old = recipe[r].old
                           /\ r # q => recipe'[r] = recipe[r]
      /\ recipe'[q].new = s /\ recipe'[q].by = n
  <2>1. recipe' = Write(recipe, q, s, n) /\ recipe \in [Recipe -> Versions(Status, Request)]
    BY <1>1 DEF SetRecipeStatus, RecipeInv, RecipeTypeOK
  <2>2. QED  BY <2>1, WriteTyped
<1>3. RecipeRows'
  <2> SUFFICES ASSUME NEW r \in Recipe
               PROVE  /\ \A m \in Request : recipe'[r].by = m =>
                            /\ on'[m] = r /\ pc'[m] \in {"edit", "enqueue", "commit"}
                            /\ \A t : t = recipe'[r].new => Writes(m, t)'
                      /\ recipe'[r].old # "absent" => \E m \in Request : on'[m] = r /\ pc'[m] = "done"
    BY DEF RecipeRows
  <2>1. \A m \in Request : \A t : Writes(m, t)' <=> Writes(m, t)
    BY MovesPC DEF RecipeInv, Writes, Announced
  <2>2. recipe'[r].old # "absent" => \E m \in Request : on'[m] = r /\ pc'[m] = "done"
    BY <1>2, MovesPC DEF RecipeInv, RecipeRows, Moves, Running
  <2>3. CASE r = q
    BY <1>1, <1>2, <2>1, <2>2, <2>3, MovesPC DEF RecipeInv
  <2>4. CASE r # q
    <3>1. recipe'[r] = recipe[r] /\ recipe[r].by # n
      BY <1>1, <1>2, <2>4 DEF RecipeInv, RecipeRows
    <3>2. QED  BY <2>1, <2>2, <3>1, MovesPC DEF RecipeInv, RecipeRows
  <2>5. QED  BY <2>3, <2>4
<1>4. QED  BY <1>2, <1>3

\* A step that writes no list.
LEMMA ListsKept ==
    ASSUME RecipeInv, NEW n \in Request, NEW there, Moves(n, there),
           recipe' \in [Recipe -> Versions(Status, Request)], RecipeRows',
           \A r \in Recipe : recipe'[r].old = recipe[r].old,
           UNCHANGED <<list, faults>>, fanout' \in [Request -> Activity \cup {"none"}],
           pc[n] \in {"enqueue", "commit"} => there \in {"enqueue", "commit"},
           there = "edit" => was[n] \in {"draft", "published"},
           there = "delete_flush" => pc[n] \in DeletePC,
           there \in {"edit", "delete_flush", "enqueue", "commit"},
           there = "enqueue" => announce[n] # "none"
    PROVE  RecipeInv'
<1>1. RecipeTypeOK'
  BY MovesTyped DEF RecipeInv, RecipeTypeOK
<1>2. InHand'
  BY MovesInHand DEF RecipeInv
<1>3. Sole'
  <2>1. \A m \in Request : pc[m] \in Running => on[m] \in Recipe
    BY DEF RecipeInv, InHand, Running
  <2>2. QED  BY <2>1, SoleStays DEF RecipeInv
<1>4. ListRows' /\ ListsReplaced'
  BY ListsStay DEF RecipeInv
<1>5. QED  BY <1>1, <1>2, <1>3, <1>4 DEF RecipeInv

LEMMA WritesPC ==
    ASSUME NEW n \in Request
    PROVE  /\ AfterWrites(n) \in {"enqueue", "commit"}
           /\ AfterWrites(n) = "enqueue" => announce[n] # "none"
  BY DEF AfterWrites

LEMMA EditPublishKeeps ==
    ASSUME RecipeInv, NEW n \in Request, EditPublish(n)
    PROVE  RecipeInv'
<1>1. Moves(n, "edit") /\ SetRecipeStatus(n, "published") /\ UNCHANGED <<list, fanout, faults>>
  BY DEF EditPublish, Moves, Running
<1>2. pc[n] = "publish" /\ was[n] = "draft"
  BY DEF RecipeInv, InHand, EditPublish
<1>3. Writes(n, "published") /\ "published" \in Status
  BY <1>2 DEF Writes, Status
<1>4. QED
  BY <1>1, <1>2, <1>3, StatusWritten, ListsKept DEF RecipeInv, RecipeTypeOK

LEMMA DeleteWriteKeeps ==
    ASSUME RecipeInv, NEW n \in Request, DeleteFormWrite(n) \/ DeleteFlush(n)
    PROVE  RecipeInv'
<1>1. PICK there \in {"enqueue", "commit"} :
        Moves(n, there) /\ (there = "enqueue" => announce[n] # "none")
  BY WritesPC DEF DeleteFormWrite, DeleteFlush, Moves, Running
<1>2. SetRecipeStatus(n, "deleted") /\ UNCHANGED <<list, fanout, faults>> /\ pc[n] \in DeletePC
  BY DEF DeleteFormWrite, DeleteFlush, DeletePC
<1>3. Writes(n, "deleted") /\ "deleted" \in Status
  BY <1>2 DEF RecipeInv, InHand, Writes, Status
<1>4. pc[n] \notin {"enqueue", "commit"}
  BY <1>2 DEF DeletePC
<1>5. QED
  BY <1>1, <1>2, <1>3, <1>4, StatusWritten, ListsKept DEF RecipeInv, RecipeTypeOK

LEMMA EnqueueKeeps ==
    ASSUME RecipeInv, NEW n \in Request, Enqueue(n)
    PROVE  RecipeInv'
<1>1. PICK there \in {"commit", "delete_flush"} :
        /\ Moves(n, there)
        /\ there = "delete_flush" => pc[n] = "delete_enqueue"
        /\ pc[n] = "enqueue" => there = "commit"
        /\ pc[n] \in {"enqueue", "delete_enqueue"}
  BY DEF Enqueue, Moves, Running
<1>2. UNCHANGED <<recipe, list, faults>> /\ fanout' \in [Request -> Activity \cup {"none"}]
  BY DEF RecipeInv, RecipeTypeOK, Enqueue
<1>3. RecipeRows'
  BY <1>1, <1>2, RecipeRowsStay DEF RecipeInv
<1>4. QED
  BY <1>1, <1>2, <1>3, ListsKept DEF RecipeInv, RecipeTypeOK, DeletePC

\* Who has not come to an end has no list in the table, and what it wrote is its own.
LEMMA OwnList ==
    ASSUME RecipeInv, NEW n \in Request, pc[n] # "done"
    PROVE  ~list[n].old /\ (list[n].by = Nobody \/ list[n].by = n)
           /\ \A k \in Request : n \notin read[k]
<1>1. ~list[n].old /\ \A k \in Request : n \notin read[k]
  BY DEF RecipeInv, ListRows, ListsReplaced
<1>2. list[n].by \in Request \cup {Nobody}
  BY DEF RecipeInv, RecipeTypeOK, Versions
<1>3. QED  BY <1>1, <1>2 DEF RecipeInv, ListRows

LEMMA CreateInsertKeeps ==
    ASSUME RecipeInv, NEW n \in Request, CreateInsert(n)
    PROVE  RecipeInv'
<1>1. PICK there \in {"enqueue", "commit"} :
        Moves(n, there) /\ (there = "enqueue" => announce[n] # "none")
  BY WritesPC DEF CreateInsert, Moves, Running
<1>2. pc[n] = "create" /\ was[n] = "absent" /\ read[n] = {} /\ UNCHANGED <<fanout, faults>>
  BY DEF RecipeInv, InHand, CreateInsert
<1>3. PICK s \in {"draft", "published"} : SetRecipeStatus(n, s)
  BY DEF CreateInsert
<1>4. Writes(n, s) /\ s \in Status
  BY <1>2 DEF Writes, Status
<1>5. /\ recipe' \in [Recipe -> Versions(Status, Request)] /\ RecipeRows'
      /\ \A r \in Recipe : recipe'[r].old = recipe[r].old
  BY <1>1, <1>3, <1>4, StatusWritten
<1>6. /\ list' \in [Request -> Versions(BOOLEAN, Request)]
      /\ \A m \in Request \ {n} : list'[m] = list[m]
      /\ list'[n].old = list[n].old /\ list'[n].new /\ list'[n].by = n
  <2>1. list' = Write(list, n, TRUE, n) /\ list \in [Request -> Versions(BOOLEAN, Request)]
    BY DEF CreateInsert, RecipeInv, RecipeTypeOK
  <2>2. QED  BY <2>1 DEF Write, Versions
<1>7. RecipeTypeOK'
  BY <1>1, <1>2, <1>5, <1>6, MovesTyped DEF RecipeInv, RecipeTypeOK
<1>8. InHand'
  BY <1>1, MovesInHand DEF RecipeInv
<1>9. Sole'
  <2>1. \A m \in Request : pc[m] \in Running => on[m] \in Recipe
    BY DEF RecipeInv, InHand, Running
  <2>2. QED  BY <1>1, <1>5, <2>1, SoleStays DEF RecipeInv
<1>10. ListRows'
  <2> SUFFICES ASSUME NEW m \in Request
               PROVE  /\ list'[m].old => pc'[m] = "done"
                      /\ list'[m].by = Nobody => list'[m].new = list'[m].old
                      /\ \A k \in Request : list'[m].by = k =>
                            /\ pc'[k] \in {"enqueue", "commit"}
                            /\ IF m = k THEN list'[m].new ELSE m \in read'[k] /\ ~list'[m].new
    BY DEF ListRows
  <2>1. CASE m = n
    BY <1>1, <1>2, <1>6, <2>1, OwnList, MovesPC, RequestFacts DEF RecipeInv
  <2>2. CASE m # n
    <3>1. list'[m] = list[m] /\ list[m].by # n
      BY <1>2, <1>6, <2>2 DEF RecipeInv, ListRows
    <3>2. QED  BY <1>1, <1>2, <2>2, <3>1, MovesPC DEF RecipeInv, ListRows
  <2>3. QED  BY <2>1, <2>2
<1>11. ListsReplaced'
  <2> SUFFICES ASSUME NEW k \in Request, NEW m \in read'[k]
               PROVE  /\ pc'[m] = "done" /\ on'[m] = on'[k] /\ m # k
                      /\ list'[k].by = k \/ list'[k].old => list'[m].by = k \/ list'[m] = Committed(FALSE)
    BY DEF ListsReplaced
  <2>1. k # n /\ m \in read[k] /\ m \in Request
    BY <1>1, <1>2, MovesPC DEF RecipeInv, RecipeTypeOK
  <2>2. pc[m] = "done" /\ on[m] = on[k] /\ m # k /\ m # n
    BY <1>2, <2>1 DEF RecipeInv, ListsReplaced
  <2>3. list[k].by = k \/ list[k].old => list[m].by = k \/ list[m] = Committed(FALSE)
    BY <2>1 DEF RecipeInv, ListsReplaced
  <2>4. list'[k] = list[k] /\ list'[m] = list[m]
    BY <1>6, <2>1, <2>2
  <2>5. pc'[m] = "done" /\ on'[m] = on'[k] /\ m # k
    BY <1>1, <2>1, <2>2, MovesPC DEF RecipeInv
  <2>6. QED  BY <2>3, <2>4, <2>5
<1>12. QED  BY <1>5, <1>7, <1>8, <1>9, <1>10, <1>11 DEF RecipeInv

\* The heart of it: a request that has read a list leaves nothing of it.
\* The lists after request n has put its own in the place of those it has read.
Replaced(n) ==
    [m \in Request |->
        IF m = n THEN [list[m] EXCEPT !.new = TRUE, !.by = n]
        ELSE IF m \in read[n] /\ list[m].new THEN [list[m] EXCEPT !.new = FALSE, !.by = n]
        ELSE list[m]]

LEMMA EditWrites ==
    ASSUME NEW n \in Request, EditWrite(n)
    PROVE  \/ UNCHANGED list
           \/ (\A m \in read[n] : MayWrite(list, m, n)) /\ list' = Replaced(n)
  BY DEF EditWrite, Replaced

LEMMA ReplacedFacts ==
    ASSUME RecipeTypeOK, NEW n \in Request, list' = Replaced(n)
    PROVE  /\ list' \in [Request -> Versions(BOOLEAN, Request)]
           /\ \A m \in Request : list'[m].old = list[m].old
           /\ list'[n].new /\ list'[n].by = n
           /\ \A m \in Request \ {n} : m \notin read[n] \/ ~list[m].new => list'[m] = list[m]
           /\ \A m \in Request \ {n} : m \in read[n] /\ list[m].new =>
                 list'[m].by = n /\ ~list'[m].new
<1>1. ASSUME NEW m \in Request
      PROVE  list[m] \in [old : BOOLEAN, new : BOOLEAN, by : Request \cup {Nobody}]
  BY <1>1 DEF RecipeTypeOK, Versions
<1>2. /\ list'[n] = [list[n] EXCEPT !.new = TRUE, !.by = n]
      /\ \A m \in Request \ {n} : m \in read[n] /\ list[m].new =>
            list'[m] = [list[m] EXCEPT !.new = FALSE, !.by = n]
      /\ \A m \in Request \ {n} : m \notin read[n] \/ ~list[m].new => list'[m] = list[m]
  BY DEF Replaced
<1>3. /\ list'[n].old = list[n].old /\ list'[n].new /\ list'[n].by = n
      /\ list'[n] \in [old : BOOLEAN, new : BOOLEAN, by : Request \cup {Nobody}]
  <2>1. list[n] \in [old : BOOLEAN, new : BOOLEAN, by : Request \cup {Nobody}]
    BY <1>1
  <2>2. QED  BY <1>2, <2>1
<1>4. ASSUME NEW m \in Request \ {n}, m \in read[n] /\ list[m].new
      PROVE  /\ list'[m].old = list[m].old /\ ~list'[m].new /\ list'[m].by = n
             /\ list'[m] \in [old : BOOLEAN, new : BOOLEAN, by : Request \cup {Nobody}]
  <2>1. list[m] \in [old : BOOLEAN, new : BOOLEAN, by : Request \cup {Nobody}]
    BY <1>1
  <2>2. list'[m] = [list[m] EXCEPT !.new = FALSE, !.by = n]
    BY <1>2, <1>4
  <2>3. QED  BY <2>1, <2>2
<1>5. ASSUME NEW m \in Request
      PROVE  /\ list'[m].old = list[m].old
             /\ list'[m] \in [old : BOOLEAN, new : BOOLEAN, by : Request \cup {Nobody}]
  <2>1. CASE m = n
    BY <1>3, <2>1
  <2>2. CASE m # n /\ m \in read[n] /\ list[m].new
    BY <1>4, <2>2
  <2>3. CASE m # n /\ ~(m \in read[n] /\ list[m].new)
    <3>1. list'[m] = list[m]
      BY <1>2, <2>3
    <3>2. QED  BY <1>1, <3>1
  <2>4. QED  BY <2>1, <2>2, <2>3
<1>6. list' \in [Request -> Versions(BOOLEAN, Request)]
  <2> DEFINE F(m) == IF m = n THEN [list[m] EXCEPT !.new = TRUE, !.by = n]
                     ELSE IF m \in read[n] /\ list[m].new THEN [list[m] EXCEPT !.new = FALSE, !.by = n]
                     ELSE list[m]
  <2>1. list' = [m \in Request |-> F(m)]
    BY DEF Replaced
  <2> HIDE DEF F
  <2>2. \A m \in Request : list'[m] = F(m)
    BY <2>1
  <2>3. QED  BY <1>5, <2>1, <2>2 DEF Versions
<1>7. QED  BY <1>2, <1>3, <1>4, <1>5, <1>6

LEMMA EditWriteKeeps ==
    ASSUME RecipeInv, NEW n \in Request, EditWrite(n)
    PROVE  RecipeInv'
<1>1. PICK there \in {"enqueue", "commit"} :
        Moves(n, there) /\ (there = "enqueue" => announce[n] # "none")
  BY WritesPC DEF EditWrite, Moves, Running
<1>2. pc[n] = "edit" /\ UNCHANGED <<recipe, fanout, faults>>
  BY DEF EditWrite
<1>3. RecipeRows'
  BY <1>1, <1>2, RecipeRowsStay DEF RecipeInv
<1>4. CASE UNCHANGED list
  BY <1>1, <1>2, <1>3, <1>4, ListsKept DEF RecipeInv, RecipeTypeOK
<1>5. CASE (\A m \in read[n] : MayWrite(list, m, n)) /\ list' = Replaced(n)
  <2>1. /\ list' \in [Request -> Versions(BOOLEAN, Request)]
        /\ \A m \in Request : list'[m].old = list[m].old
        /\ list'[n].new /\ list'[n].by = n
        /\ \A m \in Request \ {n} : m \notin read[n] \/ ~list[m].new => list'[m] = list[m]
        /\ \A m \in Request \ {n} : m \in read[n] /\ list[m].new =>
              list'[m].by = n /\ ~list'[m].new
    BY <1>5, ReplacedFacts DEF RecipeInv
  <2>2. \A m \in Request : m \in read[n] => list[m].by = Nobody /\ list[m].new = list[m].old
    <3>1. \A m \in Request : m \in read[n] => list[m].by \in {Nobody, n}
      BY <1>5 DEF MayWrite
    <3>2. \A m \in Request : list[m].by # n
      BY <1>2 DEF RecipeInv, ListRows
    <3>3. QED  BY <3>1, <3>2 DEF RecipeInv, ListRows
  <2>3. RecipeTypeOK'
    BY <1>1, <1>2, <2>1, MovesTyped DEF RecipeInv, RecipeTypeOK
  <2>4. InHand'
    BY <1>1, MovesInHand DEF RecipeInv
  <2>5. Sole'
    BY <1>1, <1>2, SoleStays DEF RecipeInv
  <2>6. ListRows'
    <3> SUFFICES ASSUME NEW m \in Request
                 PROVE  /\ list'[m].old => pc'[m] = "done"
                        /\ list'[m].by = Nobody => list'[m].new = list'[m].old
                        /\ \A k \in Request : list'[m].by = k =>
                              /\ pc'[k] \in {"enqueue", "commit"}
                              /\ IF m = k THEN list'[m].new ELSE m \in read'[k] /\ ~list'[m].new
      BY DEF ListRows
    <3>1. list'[m].old => pc'[m] = "done"
      BY <1>1, <1>2, <2>1, MovesPC DEF RecipeInv, ListRows
    <3>2. CASE m = n
      BY <1>1, <2>1, <3>1, <3>2, MovesPC, RequestFacts DEF RecipeInv
    <3>3. CASE m # n /\ m \in read[n] /\ list[m].new
      BY <1>1, <2>1, <3>1, <3>3, MovesPC, RequestFacts DEF RecipeInv
    <3>4. CASE m # n /\ ~(m \in read[n] /\ list[m].new)
      <4>1. list'[m] = list[m] /\ list[m].by # n
        BY <1>2, <2>1, <3>4 DEF RecipeInv, ListRows
      <4>2. QED  BY <1>1, <1>2, <3>1, <4>1, MovesPC DEF RecipeInv, ListRows
    <3>5. QED  BY <3>2, <3>3, <3>4
  <2>7. ListsReplaced'
    <3> SUFFICES ASSUME NEW k \in Request, NEW m \in read'[k]
                 PROVE  /\ pc'[m] = "done" /\ on'[m] = on'[k] /\ m # k
                        /\ list'[k].by = k \/ list'[k].old =>
                              list'[m].by = k \/ list'[m] = Committed(FALSE)
      BY DEF ListsReplaced
    <3>1. m \in read[k] /\ m \in Request
      BY <1>1, MovesPC DEF RecipeInv, RecipeTypeOK
    <3>2. pc[m] = "done" /\ on[m] = on[k] /\ m # k /\ m # n
      BY <1>2, <3>1 DEF RecipeInv, ListsReplaced
    <3>3. pc'[m] = "done" /\ on'[m] = on'[k] /\ m # k
      BY <1>1, <3>1, <3>2, MovesPC DEF RecipeInv
    <3>4. CASE k = n
      <4>1. CASE list[m].new
        BY <2>1, <3>1, <3>2, <3>3, <3>4, <4>1
      <4>2. CASE ~list[m].new
        <5>1. list'[m] = list[m] /\ list[m].by = Nobody /\ ~list[m].old
          BY <2>1, <2>2, <3>1, <3>2, <3>4, <4>2
        <5>2. list[m] = Committed(FALSE)
          BY <3>1, <4>2, <5>1 DEF RecipeInv, RecipeTypeOK, Versions, Committed
        <5>3. QED  BY <3>3, <5>1, <5>2
      <4>3. QED  BY <4>1, <4>2
    <3>5. CASE k # n
      <4>1. list[k].by = k \/ list[k].old => list[m].by = k \/ list[m] = Committed(FALSE)
        BY <3>1 DEF RecipeInv, ListsReplaced
      <4>2. list'[k].by = k => list[k].by = k
        BY <2>1, <3>5
      <4>3. list[m].by = k => list'[m] = list[m]
        BY <2>1, <2>2, <3>1, <3>2, RequestFacts
      <4>4. list[m] = Committed(FALSE) => list'[m] = list[m]
        BY <2>1, <3>1, <3>2 DEF Committed
      <4>5. list'[k].old = list[k].old
        BY <2>1
      <4>6. QED  BY <3>3, <4>1, <4>2, <4>3, <4>4, <4>5
    <3>6. QED  BY <3>4, <3>5
  <2>8. QED  BY <1>3, <2>3, <2>4, <2>5, <2>6, <2>7 DEF RecipeInv
<1>6. QED  BY <1>4, <1>5, EditWrites

LEMMA CommitKeeps ==
    ASSUME RecipeInv, NEW n \in Request, Commit(n)
    PROVE  RecipeInv' /\ \A r \in Recipe : recipe[r].old # "absent" => recipe'[r].old # "absent"
<1>1. /\ pc[n] = "commit" /\ Moves(n, "done") /\ UNCHANGED <<fanout, faults>>
      /\ recipe' = CommitRows(recipe, n) /\ list' = CommitRows(list, n)
  BY DEF Commit, Moves, Running
<1>2. /\ recipe' \in [Recipe -> Versions(Status, Request)]
      /\ list' \in [Request -> Versions(BOOLEAN, Request)]
  BY <1>1, SettleTyped DEF RecipeInv, RecipeTypeOK
<1>3. \A r \in Recipe : /\ recipe[r].by # n => recipe'[r] = recipe[r]
                        /\ recipe[r].by = n => /\ recipe'[r].old = recipe[r].new
                                               /\ recipe'[r].by = Nobody
                                               /\ on[n] = r /\ recipe[r].new # "absent"
  BY <1>1 DEF RecipeInv, RecipeTypeOK, CommitRows, Committed, RecipeRows, Writes
<1>4. \A m \in Request : /\ list[m].by # n => list'[m] = list[m]
                         /\ list[m].by = n => /\ list'[m].by = Nobody /\ list'[m].old = list[m].new
                                              /\ list'[m].new = list[m].new
  BY <1>1 DEF RecipeInv, RecipeTypeOK, CommitRows, Committed
<1>5. RecipeTypeOK'
  BY <1>1, <1>2, MovesTyped DEF RecipeInv, RecipeTypeOK
<1>6. InHand'
  BY <1>1, MovesInHand DEF RecipeInv
<1>7. RecipeRows'
  <2> SUFFICES ASSUME NEW r \in Recipe
               PROVE  /\ \A m \in Request : recipe'[r].by = m =>
                            /\ on'[m] = r /\ pc'[m] \in {"edit", "enqueue", "commit"}
                            /\ \A t : t = recipe'[r].new => Writes(m, t)'
                      /\ recipe'[r].old # "absent" => \E m \in Request : on'[m] = r /\ pc'[m] = "done"
    BY DEF RecipeRows
  <2>1. \A m \in Request : \A t : Writes(m, t)' <=> Writes(m, t)
    BY <1>1, MovesPC DEF RecipeInv, Writes, Announced
  <2>2. CASE recipe[r].by = n
    BY <1>1, <1>3, <2>2, MovesPC, RequestFacts DEF RecipeInv
  <2>3. CASE recipe[r].by # n
    <3>1. recipe'[r] = recipe[r]
      BY <1>3, <2>3
    <3>2. \A m \in Request : pc[m] = "done" => pc'[m] = "done"
      BY <1>1, MovesPC DEF RecipeInv
    <3>3. QED  BY <1>1, <2>1, <2>3, <3>1, <3>2, MovesPC DEF RecipeInv, RecipeRows
  <2>4. QED  BY <2>2, <2>3
<1>8. Sole'
  <2>1. ASSUME NEW m \in Request, was[m] = "absent", pc[m] \in Running, m # n,
               recipe[on[m]].old = "absent"
        PROVE  recipe'[on[m]].old = "absent"
    <3>1. on[m] \in Recipe /\ (on[n] = on[m] => pc[n] = "failed")
      BY <2>1 DEF RecipeInv, InHand, Sole, Running
    <3>2. QED  BY <1>1, <1>3, <2>1, <3>1
  <2>2. "done" \notin Running
    BY DEF Running
  <2>3. QED  BY <1>1, <2>1, <2>2, SoleStays DEF RecipeInv
<1>9. ListRows'
  <2> SUFFICES ASSUME NEW m \in Request
               PROVE  /\ list'[m].old => pc'[m] = "done"
                      /\ list'[m].by = Nobody => list'[m].new = list'[m].old
                      /\ \A k \in Request : list'[m].by = k =>
                            /\ pc'[k] \in {"enqueue", "commit"}
                            /\ IF m = k THEN list'[m].new ELSE m \in read'[k] /\ ~list'[m].new
    BY DEF ListRows
  <2>1. CASE list[m].by = n
    <3>1. list[m].new => m = n
      BY <2>1 DEF RecipeInv, ListRows
    <3>2. /\ list'[m].old = list[m].new /\ list'[m].new = list[m].new /\ list'[m].by = Nobody
      BY <1>4, <2>1
    <3>3. QED  BY <1>1, <3>1, <3>2, MovesPC, RequestFacts DEF RecipeInv
  <2>2. CASE list[m].by # n
    <3>1. list'[m] = list[m]
      BY <1>4, <2>2
    <3>2. pc[m] = "done" => pc'[m] = "done"
      BY <1>1, MovesPC DEF RecipeInv
    <3>3. QED  BY <1>1, <2>2, <3>1, <3>2, MovesPC DEF RecipeInv, ListRows
  <2>3. QED  BY <2>1, <2>2
<1>10. ListsReplaced'
  <2> SUFFICES ASSUME NEW k \in Request, NEW m \in read'[k]
               PROVE  /\ pc'[m] = "done" /\ on'[m] = on'[k] /\ m # k
                      /\ list'[k].by = k \/ list'[k].old =>
                            list'[m].by = k \/ list'[m] = Committed(FALSE)
    BY DEF ListsReplaced
  <2>1. m \in read[k] /\ m \in Request
    BY <1>1, MovesPC DEF RecipeInv, RecipeTypeOK
  <2>2. pc[m] = "done" /\ on[m] = on[k] /\ m # k
    BY <2>1 DEF RecipeInv, ListsReplaced
  <2>3. pc'[m] = "done" /\ on'[m] = on'[k]
    BY <1>1, <2>1, <2>2, MovesPC DEF RecipeInv
  <2>4. list[k].by = k \/ list[k].old => list[m].by = k \/ list[m] = Committed(FALSE)
    BY <2>1 DEF RecipeInv, ListsReplaced
  <2>5. list[m] = Committed(FALSE) => list'[m] = list[m]
    BY <1>4, <2>1, RequestFacts DEF Committed
  <2>6. CASE k = n
    <3>1. list[n].by = n \/ (~list'[n].old /\ list'[n].by # n)
      BY <1>1, <1>4, OwnList, RequestFacts
    <3>2. list[m].by = n => ~list'[m].new /\ ~list'[m].old /\ list'[m].by = Nobody
      BY <1>4, <2>1, <2>2, <2>6 DEF RecipeInv, ListRows
    <3>3. list[m].by = n => list'[m] = Committed(FALSE)
      <4>1. list'[m] \in Versions(BOOLEAN, Request)
        BY <1>2, <2>1
      <4>2. QED  BY <3>2, <4>1 DEF Committed, Versions
    <3>4. QED  BY <2>2, <2>3, <2>4, <2>5, <2>6, <3>1, <3>3
  <2>7. CASE k # n
    <3>1. CASE list[k].by = n
      <4>1. ~list[k].new /\ list'[k].old = list[k].new /\ list'[k].by = Nobody
        BY <1>4, <2>7, <3>1 DEF RecipeInv, ListRows
      <4>2. QED  BY <2>2, <2>3, <4>1, RequestFacts
    <3>2. CASE list[k].by # n
      <4>1. list'[k] = list[k] /\ (list[m].by = k => list'[m] = list[m])
        BY <1>4, <2>1, <2>7, <3>2
      <4>2. QED  BY <2>2, <2>3, <2>4, <2>5, <4>1
    <3>3. QED  BY <3>1, <3>2
  <2>8. QED  BY <2>6, <2>7
<1>11. \A r \in Recipe : recipe[r].old # "absent" => recipe'[r].old # "absent"
  BY <1>3
<1>12. QED  BY <1>5, <1>6, <1>7, <1>8, <1>9, <1>10, <1>11 DEF RecipeInv

LEMMA DieKeeps ==
    ASSUME RecipeInv, NEW n \in Request, Die(n)
    PROVE  RecipeInv' /\ \A r \in Recipe : recipe'[r].old = recipe[r].old
<1>1. /\ Moves(n, "failed") /\ UNCHANGED fanout /\ faults' \in 0..MaxFaults
      /\ recipe' = RollbackRows(recipe, n) /\ list' = RollbackRows(list, n) /\ pc[n] # "done"
  BY FaultsAssumption DEF RecipeInv, RecipeTypeOK, Die, Moves, Running
<1>2. /\ recipe' \in [Recipe -> Versions(Status, Request)]
      /\ list' \in [Request -> Versions(BOOLEAN, Request)]
  BY <1>1, SettleTyped DEF RecipeInv, RecipeTypeOK
<1>3. \A r \in Recipe : /\ recipe[r].by # n => recipe'[r] = recipe[r]
                        /\ recipe[r].by = n => recipe'[r].by = Nobody
                        /\ recipe'[r].old = recipe[r].old
  BY <1>1 DEF RecipeInv, RecipeTypeOK, RollbackRows, Committed
<1>4. \A m \in Request : /\ list[m].by # n => list'[m] = list[m]
                         /\ list[m].by = n => list'[m].by = Nobody /\ list'[m].new = list[m].old
                         /\ list'[m].old = list[m].old
  BY <1>1 DEF RecipeInv, RecipeTypeOK, RollbackRows, Committed
<1>5. RecipeTypeOK'
  BY <1>1, <1>2, MovesTyped DEF RecipeInv, RecipeTypeOK
<1>6. InHand'
  BY <1>1, MovesInHand DEF RecipeInv
<1>7. \A m \in Request : pc[m] = "done" => pc'[m] = "done"
  BY <1>1, MovesPC DEF RecipeInv
<1>8. RecipeRows'
  <2> SUFFICES ASSUME NEW r \in Recipe
               PROVE  /\ \A m \in Request : recipe'[r].by = m =>
                            /\ on'[m] = r /\ pc'[m] \in {"edit", "enqueue", "commit"}
                            /\ \A t : t = recipe'[r].new => Writes(m, t)'
                      /\ recipe'[r].old # "absent" => \E m \in Request : on'[m] = r /\ pc'[m] = "done"
    BY DEF RecipeRows
  <2>1. \A m \in Request : \A t : Writes(m, t)' <=> Writes(m, t)
    BY <1>1, MovesPC DEF RecipeInv, Writes, Announced
  <2>2. recipe'[r].old # "absent" => \E m \in Request : on'[m] = r /\ pc'[m] = "done"
    BY <1>1, <1>3, <1>7, MovesPC DEF RecipeInv, RecipeRows
  <2>3. CASE recipe[r].by = n
    BY <1>3, <2>2, <2>3, RequestFacts
  <2>4. CASE recipe[r].by # n
    BY <1>1, <1>3, <2>1, <2>2, <2>4, MovesPC DEF RecipeInv, RecipeRows
  <2>5. QED  BY <2>3, <2>4
<1>9. Sole'
  <2>1. \A m \in Request : pc[m] \in Running => on[m] \in Recipe
    BY DEF RecipeInv, InHand, Running
  <2>2. QED  BY <1>1, <1>3, <2>1, SoleStays DEF RecipeInv
<1>10. ListRows'
  <2> SUFFICES ASSUME NEW m \in Request
               PROVE  /\ list'[m].old => pc'[m] = "done"
                      /\ list'[m].by = Nobody => list'[m].new = list'[m].old
                      /\ \A k \in Request : list'[m].by = k =>
                            /\ pc'[k] \in {"enqueue", "commit"}
                            /\ IF m = k THEN list'[m].new ELSE m \in read'[k] /\ ~list'[m].new
    BY DEF ListRows
  <2>1. list'[m].old => pc'[m] = "done"
    BY <1>4, <1>7 DEF RecipeInv, ListRows
  <2>2. CASE list[m].by = n
    BY <1>4, <2>1, <2>2, RequestFacts
  <2>3. CASE list[m].by # n
    BY <1>1, <1>4, <2>1, <2>3, MovesPC DEF RecipeInv, ListRows
  <2>4. QED  BY <2>2, <2>3
<1>11. ListsReplaced'
  <2> SUFFICES ASSUME NEW k \in Request, NEW m \in read'[k]
               PROVE  /\ pc'[m] = "done" /\ on'[m] = on'[k] /\ m # k
                      /\ list'[k].by = k \/ list'[k].old =>
                            list'[m].by = k \/ list'[m] = Committed(FALSE)
    BY DEF ListsReplaced
  <2>1. m \in read[k] /\ m \in Request
    BY <1>1, MovesPC DEF RecipeInv, RecipeTypeOK
  <2>2. pc[m] = "done" /\ on[m] = on[k] /\ m # k
    BY <2>1 DEF RecipeInv, ListsReplaced
  <2>3. pc'[m] = "done" /\ on'[m] = on'[k]
    BY <1>1, <2>1, <2>2, MovesPC DEF RecipeInv
  <2>4. list[k].by = k \/ list[k].old => list[m].by = k \/ list[m] = Committed(FALSE)
    BY <2>1 DEF RecipeInv, ListsReplaced
  <2>5. list[m] = Committed(FALSE) => list'[m] = list[m]
    BY <1>4, <2>1, RequestFacts DEF Committed
  <2>6. CASE k = n
    <3>1. ~list'[n].old /\ list'[n].by # n
      BY <1>1, <1>4, OwnList, RequestFacts
    <3>2. QED  BY <2>2, <2>3, <2>6, <3>1
  <2>7. CASE k # n
    <3>1. list[m].by = k => list'[m] = list[m]
      BY <1>4, <2>1, <2>7
    <3>2. list'[k].by = k \/ list'[k].old => list[k].by = k \/ list[k].old
      BY <1>4, <2>7, RequestFacts
    <3>3. QED  BY <2>2, <2>3, <2>4, <2>5, <3>1, <3>2
  <2>8. QED  BY <2>6, <2>7
<1>12. QED  BY <1>3, <1>5, <1>6, <1>8, <1>9, <1>10, <1>11 DEF RecipeInv

(***************************************************************************)
(* Recipes: every step                                                     *)
(***************************************************************************)
LEMMA RecipeStepMoves ==
    ASSUME NEW n \in Request, RecipeStep(n) \/ Die(n)
    PROVE  \E there : Moves(n, there)
<1>1. CASE CreateInsert(n) \/ EditWrite(n) \/ DeleteFormWrite(n)
  <2>1. Moves(n, AfterWrites(n))
    BY <1>1, WritesPC DEF CreateInsert, EditWrite, DeleteFormWrite, Moves, Running
  <2>2. QED  BY <2>1
<1>2. CASE EditPublish(n)
  <2>1. Moves(n, "edit")
    BY <1>2 DEF EditPublish, Moves, Running
  <2>2. QED  BY <2>1
<1>3. CASE DeleteFlush(n)
  <2>1. Moves(n, "commit")
    BY <1>3 DEF DeleteFlush, Moves, Running
  <2>2. QED  BY <2>1
<1>4. CASE Enqueue(n)
  <2>1. Moves(n, "commit") \/ Moves(n, "delete_flush")
    BY <1>4 DEF Enqueue, Moves, Running
  <2>2. QED  BY <2>1
<1>5. CASE Commit(n)
  <2>1. Moves(n, "done")
    BY <1>5 DEF Commit, Moves, Running
  <2>2. QED  BY <2>1
<1>6. CASE Die(n)
  <2>1. Moves(n, "failed")
    BY <1>6 DEF Die, Moves
  <2>2. QED  BY <2>1
<1>7. QED  BY <1>1, <1>2, <1>3, <1>4, <1>5, <1>6 DEF RecipeStep

\* Only a commit changes the status others read.
LEMMA OnlyCommitsShow ==
    ASSUME RecipeTypeOK, NEW n \in Request, RecipeStep(n) \/ Die(n), ~Commit(n)
    PROVE  \A r \in Recipe : recipe'[r].old = recipe[r].old
<1>1. ASSUME NEW s, SetRecipeStatus(n, s)
      PROVE  \A r \in Recipe : recipe'[r].old = recipe[r].old
  BY <1>1 DEF SetRecipeStatus, Write, RecipeTypeOK
<1>2. CASE Die(n)
  BY <1>2 DEF Die, RollbackRows, Committed, RecipeTypeOK
<1>3. QED
  BY <1>1, <1>2 DEF RecipeStep, CreateInsert, EditPublish, EditWrite, DeleteFormWrite,
                    DeleteFlush, Enqueue

\* What a commit can make of a recipe: what its request wrote, which is not a new recipe
\* when the recipe is there.
LEMMA CommitShows ==
    ASSUME RecipeInv, NEW n \in Request, Commit(n), NEW r \in Recipe,
           recipe'[r].old # recipe[r].old
    PROVE  /\ CommitOf(n) /\ on[n] = r /\ Writes(n, recipe'[r].old)
           /\ recipe[r].old # "absent" => was[n] # "absent"
<1>1. pc[n] = "commit" /\ pc'[n] = "done" /\ recipe' = CommitRows(recipe, n)
  BY DEF Commit, Goto, RecipeInv, RecipeTypeOK
<1>2. recipe[r].by = n /\ recipe'[r].old = recipe[r].new
  BY <1>1 DEF RecipeInv, RecipeTypeOK, CommitRows, Committed
<1>3. on[n] = r /\ Writes(n, recipe[r].new)
  BY <1>2 DEF RecipeInv, RecipeRows
<1>4. was[n] = "absent" => recipe[on[n]].old = "absent"
  BY <1>1 DEF RecipeInv, Sole, Running
<1>5. QED  BY <1>1, <1>2, <1>3, <1>4 DEF CommitOf

LEMMA InitEstablishes ==
    ASSUME RecipeInit
    PROVE  RecipeInv
<1>1. RecipeTypeOK
  BY RequestsAssumption, FaultsAssumption
     DEF RecipeInit, RecipeTypeOK, Versions, Committed, Nobody, Status, PC
<1>2. InHand
  BY RequestFacts DEF RecipeInit, InHand, DeletePC
<1>3. RecipeRows /\ Sole
  BY RequestFacts DEF RecipeInit, RecipeRows, Sole, Committed, Running
<1>4. ListRows
  BY RequestFacts DEF RecipeInit, ListRows, Committed
<1>5. ListsReplaced
  BY DEF RecipeInit, ListsReplaced
<1>6. QED  BY <1>1, <1>2, <1>3, <1>4, <1>5 DEF RecipeInv

LEMMA NothingKeeps ==
    ASSUME RecipeInv, UNCHANGED recipeVars
    PROVE  RecipeInv'
<1>1. RecipeTypeOK'
  BY DEF RecipeInv, RecipeTypeOK, recipeVars
<1>2. InHand'
  BY DEF RecipeInv, InHand, Announced, recipeVars
<1>3. RecipeRows'
  BY DEF RecipeInv, RecipeRows, Writes, Announced, recipeVars
<1>4. Sole'
  BY DEF RecipeInv, Sole, recipeVars
<1>5. ListRows'
  BY DEF RecipeInv, ListRows, recipeVars
<1>6. ListsReplaced'
  <2>1. /\ recipe' = recipe /\ list' = list /\ pc' = pc /\ on' = on /\ read' = read
    BY DEF recipeVars
  <2>2. QED  BY <2>1 DEF RecipeInv, ListsReplaced
<1>7. QED  BY <1>1, <1>2, <1>3, <1>4, <1>5, <1>6 DEF RecipeInv

\* A step keeps the invariant, does not take a recipe away, and leaves a request that has
\* arrived at work on its recipe, which only then announces anything.
LEMMA RecipeNextKeeps ==
    ASSUME RecipeInv, RecipeNext
    PROVE  /\ RecipeInv'
           /\ \A r \in Recipe : recipe[r].old # "absent" => recipe'[r].old # "absent"
           /\ \A n \in Request :
                 /\ pc[n] # "idle" => pc'[n] # "idle" /\ on'[n] = on[n]
                 /\ fanout[n] # "none" => fanout'[n] # "none"
                 /\ fanout'[n] # "none" => fanout[n] # "none" \/ pc'[n] # "idle"
<1>1. CASE RecipeBegin
  <2>1. RecipeInv' /\ UNCHANGED <<recipe, list, fanout>>
    BY <1>1, BeginKeeps
  <2>2. ASSUME NEW r \in Recipe, NEW activity, NEW there, Arrive(r, activity, there),
               NEW n \in Request, pc[n] # "idle"
        PROVE  pc'[n] = pc[n] /\ on'[n] = on[n]
    BY <2>2 DEF Arrive, Goto, RecipeInv, RecipeTypeOK, InHand
  <2>3. \A n \in Request : pc[n] # "idle" => pc'[n] # "idle" /\ on'[n] = on[n]
    BY <1>1, <2>2 DEF RecipeBegin, CreateBegin, ForkBegin, EditBegin, DeleteFormBegin, DeleteBegin
  <2>4. QED  BY <2>1, <2>3
<1>2. CASE \E n \in Request : RecipeStep(n) \/ Die(n)
  <2>1. PICK n \in Request : RecipeStep(n) \/ Die(n)
    BY <1>2
  <2>2. RecipeInv'
    BY <2>1, CreateInsertKeeps, EditPublishKeeps, EditWriteKeeps, DeleteWriteKeeps, EnqueueKeeps,
       CommitKeeps, DieKeeps DEF RecipeStep
  <2>3. \A r \in Recipe : recipe[r].old # "absent" => recipe'[r].old # "absent"
    BY <2>1, CommitKeeps, OnlyCommitsShow DEF RecipeInv
  <2>4. PICK there : Moves(n, there)
    BY <2>1, RecipeStepMoves
  <2>5. pc[n] # "idle" /\ there # "idle"
    BY <2>4 DEF Moves, Running
  <2>6. \A m \in Request : pc[m] # "idle" => pc'[m] # "idle" /\ on'[m] = on[m]
    BY <2>4, <2>5, MovesPC DEF RecipeInv
  <2>7. fanout' = fanout \/ (announce[n] # "none" /\ fanout' = [fanout EXCEPT ![n] = announce[n]])
    BY <2>1 DEF RecipeStep, CreateInsert, EditPublish, EditWrite, DeleteFormWrite, DeleteFlush,
                Enqueue, Commit, Die, RecipeInv, InHand
  <2>8. \A m \in Request : /\ fanout[m] # "none" => fanout'[m] # "none"
                           /\ fanout'[m] # "none" => fanout[m] # "none" \/ pc'[m] # "idle"
    BY <2>5, <2>6, <2>7 DEF RecipeInv, RecipeTypeOK
  <2>9. QED  BY <2>2, <2>3, <2>6, <2>8
<1>3. QED  BY <1>1, <1>2 DEF RecipeNext

\* The inductive invariant of the recipes: what each request has in hand, and what the
\* holder of a row or of a list has made of it.
THEOREM RecipesInvariant == RecipeSpec => []RecipeInv
<1>1. RecipeInit => RecipeInv
  BY InitEstablishes
<1>2. RecipeInv /\ [RecipeNext \/ Quiescent]_recipeVars => RecipeInv'
  BY RecipeNextKeeps, NothingKeeps DEF Quiescent
<1>3. QED  BY <1>1, <1>2, PTL DEF RecipeSpec

\* The type invariant of the recipe tables and the requests on them.
THEOREM RecipesTypeCorrect == RecipeSpec => []RecipeTypeOK
<1>1. RecipeInv => RecipeTypeOK
  BY DEF RecipeInv
<1>2. QED  BY <1>1, RecipesInvariant, PTL

LEMMA NoListTwice ==
    ASSUME RecipeInv
    PROVE  DoubledOnlyByOverlap
<1> SUFFICES ASSUME NEW m \in Request, NEW n \in Request, list[m].old, list[n].old, m \in read[n]
             PROVE  FALSE
  BY DEF DoubledOnlyByOverlap
<1>1. list[m].by = n \/ list[m] = Committed(FALSE)
  BY DEF RecipeInv, ListsReplaced
<1>2. pc[n] = "done"
  BY DEF RecipeInv, ListRows
<1>3. list[m].by # n
  BY <1>2 DEF RecipeInv, ListRows
<1>4. QED  BY <1>1, <1>3 DEF Committed

\* However edits of one recipe overlap, two lists of ingredients stand side by side only
\* when neither edit had read the other's: the rows an edit has read are gone when its own
\* are committed.
THEOREM ListsDoubleOnlyByOverlap == RecipeSpec => []DoubledOnlyByOverlap
<1>1. RecipeInv => DoubledOnlyByOverlap
  BY NoListTwice
<1>2. QED  BY <1>1, RecipesInvariant, PTL

LEMMA StatusShown ==
    ASSUME RecipeInv, [RecipeNext \/ Quiescent]_recipeVars, NEW r \in Recipe,
           recipe'[r].old # recipe[r].old
    PROVE  \E n \in Request : /\ CommitOf(n) /\ on[n] = r /\ Writes(n, recipe'[r].old)
                              /\ recipe[r].old # "absent" => was[n] # "absent"
<1>1. RecipeNext
  BY DEF Quiescent, recipeVars
<1>2. ~RecipeBegin
  BY BeginKeeps
<1>3. PICK n \in Request : RecipeStep(n) \/ Die(n)
  BY <1>1, <1>2 DEF RecipeNext
<1>4. Commit(n)
  BY <1>3, OnlyCommitsShow DEF RecipeInv
<1>5. QED  BY <1>4, CommitShows

\* A published recipe is only deleted, and a deleted one comes back only by the commit of
\* a publish that had read it as a draft, for every interleaving of requests.
THEOREM DeletedRecipesStay == RecipeSpec => DeletedStaysDeleted
<1> DEFINE Stays(r) ==
      /\ recipe[r].old = "published" => recipe'[r].old \in {"published", "deleted"}
      /\ recipe[r].old = "deleted" /\ recipe'[r].old # "deleted" =>
           /\ recipe'[r].old = "published"
           /\ \E n \in Request : CommitOf(n) /\ on[n] = r /\ was[n] = "draft"
<1>1. ASSUME RecipeInv, [RecipeNext \/ Quiescent]_recipeVars, NEW r \in Recipe
      PROVE  Stays(r)
  <2>1. CASE recipe'[r].old = recipe[r].old
    BY <2>1
  <2>2. CASE recipe'[r].old # recipe[r].old
    <3>1. PICK n \in Request : /\ CommitOf(n) /\ on[n] = r /\ Writes(n, recipe'[r].old)
                               /\ recipe[r].old # "absent" => was[n] # "absent"
      BY <1>1, <2>2, StatusShown
    <3>2. QED  BY <2>2, <3>1 DEF Writes
  <2>3. QED  BY <2>1, <2>2
<1>2. RecipeInv /\ [RecipeNext \/ Quiescent]_recipeVars => [\A r \in Recipe : Stays(r)]_recipeVars
  BY <1>1
<1>3. QED  BY <1>2, RecipesInvariant, PTL DEF RecipeSpec, DeletedStaysDeleted

\* A published recipe is committed deleted only by a request that set out to announce the
\* deletion, or had read it while it was a draft.
THEOREM DeletionsAreAnnounced == RecipeSpec => DeletionAnnounced
<1> DEFINE Told(r) ==
      recipe[r].old = "published" /\ recipe'[r].old = "deleted" =>
         \E n \in Request : /\ CommitOf(n) /\ on[n] = r
                            /\ announce[n] = "delete" \/ was[n] = "draft"
<1>1. ASSUME RecipeInv, [RecipeNext \/ Quiescent]_recipeVars, NEW r \in Recipe
      PROVE  Told(r)
  BY <1>1, StatusShown DEF Writes, Announced
<1>2. RecipeInv /\ [RecipeNext \/ Quiescent]_recipeVars => [\A r \in Recipe : Told(r)]_recipeVars
  BY <1>1
<1>3. QED  BY <1>2, RecipesInvariant, PTL DEF RecipeSpec, DeletionAnnounced

(***************************************************************************)
(* Recipes: each request takes effect at once                              *)
(***************************************************************************)
\* A request that creates a recipe commits it with its list; one that does not has found it
\* there; it removes lists only with its own in their place, and none when it deletes.
AtOnce(n) ==
    /\ was[n] = "absent" /\ pc[n] \in {"enqueue", "commit"} => recipe[on[n]].by = n /\ list[n].by = n
    /\ was[n] # "absent" => on[n] \in Recipe /\ recipe[on[n]].old # "absent"
    /\ \A m \in Request : list[m].by = n => list[n].by = n
    /\ \A r \in Recipe : recipe[r].by = n /\ recipe[r].new = "deleted" =>
          pc[n] # "edit" /\ \A m \in Request : list[m].by # n

LifeInv == RecipeInv /\ \A n \in Request : AtOnce(n)

LEMMA OthersRowsStay ==
    ASSUME RecipeInv, NEW n \in Request, RecipeStep(n) \/ Die(n), NEW m \in Request \ {n}
    PROVE  /\ \A r \in Recipe : recipe[r].by = m \/ recipe'[r].by = m => recipe'[r] = recipe[r]
           /\ \A k \in Request : list[k].by = m \/ list'[k].by = m => list'[k] = list[k]
<1> DEFINE Goal == /\ \A r \in Recipe : recipe[r].by = m \/ recipe'[r].by = m => recipe'[r] = recipe[r]
                   /\ \A k \in Request : list[k].by = m \/ list'[k].by = m => list'[k] = list[k]
<1>1. /\ recipe \in [Recipe -> Versions(Status, Request)]
      /\ list \in [Request -> Versions(BOOLEAN, Request)]
      /\ m # Nobody
  BY RequestFacts DEF RecipeInv, RecipeTypeOK
<1>2. ASSUME NEW s, SetRecipeStatus(n, s)
      PROVE  \A r \in Recipe : recipe[r].by = m \/ recipe'[r].by = m => recipe'[r] = recipe[r]
  BY <1>1, <1>2 DEF SetRecipeStatus, Write, MayWrite, Versions
<1>3. CASE CreateInsert(n)
  <2>1. list[n].by # m
    BY <1>3, RequestFacts, OwnList DEF CreateInsert
  <2>2. \A k \in Request : list[k].by = m \/ list'[k].by = m => list'[k] = list[k]
    BY <1>1, <1>3, <2>1 DEF CreateInsert, Write, Versions
  <2>3. QED  BY <1>2, <1>3, <2>2 DEF CreateInsert
<1>4. CASE EditPublish(n) \/ DeleteFormWrite(n) \/ DeleteFlush(n)
  BY <1>2, <1>4 DEF EditPublish, DeleteFormWrite, DeleteFlush
<1>5. CASE EditWrite(n)
  <2>1. list[n].by # m
    BY <1>5, RequestFacts, OwnList DEF EditWrite
  <2>2. UNCHANGED recipe
    BY <1>5 DEF EditWrite
  <2>3. CASE UNCHANGED list
    BY <2>2, <2>3
  <2>4. CASE (\A k \in read[n] : MayWrite(list, k, n)) /\ list' = Replaced(n)
    <3>1. \A k \in Request : k \in read[n] => list[k].by # m
      BY <1>1, <2>4 DEF MayWrite
    <3>2. \A k \in Request : list[k].by = m \/ list'[k].by = m => list'[k] = list[k]
      BY <2>1, <2>4, <3>1, ReplacedFacts DEF RecipeInv
    <3>3. QED  BY <2>2, <3>2
  <2>5. QED  BY <1>5, <2>3, <2>4, EditWrites
<1>6. CASE Enqueue(n)
  BY <1>6 DEF Enqueue
<1>7. CASE Commit(n) \/ Die(n)
  BY <1>1, <1>7 DEF Commit, Die, CommitRows, RollbackRows, Committed, Versions
<1>8. QED  BY <1>3, <1>4, <1>5, <1>6, <1>7 DEF RecipeStep

LEMMA OthersAtOnce ==
    ASSUME LifeInv, NEW n \in Request, RecipeStep(n) \/ Die(n), NEW m \in Request \ {n}
    PROVE  AtOnce(m)'
<1>1. AtOnce(m) /\ RecipeInv
  BY DEF LifeInv
<1>2. PICK there : Moves(n, there)
  BY RecipeStepMoves
<1>3. pc'[m] = pc[m] /\ was'[m] = was[m] /\ on'[m] = on[m]
  BY <1>1, <1>2, MovesPC DEF RecipeInv
<1>4. \A r \in Recipe : recipe[r].old # "absent" => recipe'[r].old # "absent"
  BY <1>1, RecipeNextKeeps DEF RecipeNext
<1>5. /\ \A r \in Recipe : recipe[r].by = m \/ recipe'[r].by = m => recipe'[r] = recipe[r]
      /\ \A k \in Request : list[k].by = m \/ list'[k].by = m => list'[k] = list[k]
  BY <1>1, OthersRowsStay
<1>6. pc[m] # "idle" => on[m] \in Recipe
  BY <1>1 DEF RecipeInv, InHand
<1>7. was[m] = "absent" /\ pc[m] \in {"enqueue", "commit"} => recipe'[on[m]].by = m /\ list'[m].by = m
  BY <1>1, <1>5, <1>6 DEF AtOnce
<1>8. was[m] # "absent" => on[m] \in Recipe /\ recipe'[on[m]].old # "absent"
  BY <1>1, <1>4 DEF AtOnce
<1>9. \A k \in Request : list'[k].by = m => list'[m].by = m
  BY <1>1, <1>5 DEF AtOnce
<1>10. \A r \in Recipe : recipe'[r].by = m /\ recipe'[r].new = "deleted" =>
          pc[m] # "edit" /\ \A k \in Request : list'[k].by # m
  BY <1>1, <1>5 DEF AtOnce
<1>11. QED  BY <1>3, <1>7, <1>8, <1>9, <1>10 DEF AtOnce

LEMMA OwnAtOnce ==
    ASSUME LifeInv, NEW n \in Request, RecipeStep(n) \/ Die(n)
    PROVE  AtOnce(n)'
<1>1. AtOnce(n) /\ RecipeInv /\ RecipeInv'
  BY RecipeNextKeeps DEF LifeInv, RecipeNext
<1>2. PICK there : Moves(n, there)
  BY RecipeStepMoves
<1>3. pc'[n] = there /\ was' = was /\ on' = on /\ read' = read
  BY <1>1, <1>2, MovesPC DEF RecipeInv
<1>4. pc[n] \in Running /\ pc[n] # "idle" /\ on[n] \in Recipe
  BY <1>1, <1>2 DEF Moves, Running, RecipeInv, InHand
<1>5. /\ recipe \in [Recipe -> Versions(Status, Request)] /\ recipe' \in [Recipe -> Versions(Status, Request)]
      /\ list \in [Request -> Versions(BOOLEAN, Request)] /\ list' \in [Request -> Versions(BOOLEAN, Request)]
      /\ n # Nobody
  BY <1>1, RequestFacts DEF RecipeInv, RecipeTypeOK
\* What it found is still there.
<1>6. was'[n] # "absent" => on'[n] \in Recipe /\ recipe'[on'[n]].old # "absent"
  BY <1>1, <1>3, RecipeNextKeeps DEF AtOnce, RecipeNext
<1>7. ASSUME NEW s, SetRecipeStatus(n, s)
      PROVE  /\ recipe'[on[n]].by = n /\ recipe'[on[n]].new = s
             /\ \A r \in Recipe \ {on[n]} : recipe'[r] = recipe[r]
  BY <1>4, <1>5, <1>7 DEF SetRecipeStatus, Write
<1>8. \A r \in Recipe : recipe[r].by = n \/ recipe'[r].by = n => r = on[n]
  BY <1>1, <1>3 DEF RecipeInv, RecipeRows
\* A request holds lists only after it has written its own.
<1>9. pc[n] \notin {"enqueue", "commit"} => \A m \in Request : list[m].by # n
  BY <1>1 DEF RecipeInv, ListRows
<1>10. CASE CreateInsert(n)
  <2>1. /\ recipe'[on[n]].by = n /\ recipe'[on[n]].new # "deleted" /\ list'[n].by = n
    BY <1>5, <1>7, <1>10 DEF CreateInsert, Write
  <2>2. QED  BY <1>3, <1>6, <1>8, <2>1 DEF AtOnce
<1>11. CASE EditPublish(n)
  <2>1. /\ recipe'[on[n]].new # "deleted" /\ list' = list /\ pc[n] = "publish" /\ pc'[n] = "edit"
    BY <1>1, <1>7, <1>11 DEF EditPublish, Goto, RecipeInv, RecipeTypeOK
  <2>2. QED  BY <1>3, <1>6, <1>8, <1>9, <2>1 DEF AtOnce
<1>12. CASE EditWrite(n)
  <2>1. pc[n] = "edit" /\ recipe' = recipe /\ was[n] # "absent"
    BY <1>1, <1>12 DEF EditWrite, RecipeInv, InHand
  <2>2. \A r \in Recipe : recipe'[r].by = n => recipe'[r].new # "deleted"
    BY <1>1, <2>1 DEF AtOnce
  <2>3. \A m \in Request : list'[m].by = n => list'[n].by = n
    <3>1. CASE UNCHANGED list
      BY <1>1, <3>1 DEF AtOnce
    <3>2. CASE list' = Replaced(n)
      BY <1>1, <3>2, ReplacedFacts DEF RecipeInv
    <3>3. QED  BY <1>12, <3>1, <3>2, EditWrites
  <2>4. QED  BY <1>3, <1>6, <2>1, <2>2, <2>3 DEF AtOnce
<1>13. CASE DeleteFormWrite(n) \/ DeleteFlush(n)
  <2>1. list' = list /\ pc[n] \in DeletePC /\ pc'[n] \in {"enqueue", "commit"}
    BY <1>1, <1>13 DEF DeleteFormWrite, DeleteFlush, Goto, AfterWrites, RecipeInv, RecipeTypeOK, DeletePC
  <2>2. was[n] # "absent"
    BY <1>1, <2>1 DEF RecipeInv, InHand
  <2>3. \A m \in Request : list'[m].by # n
    BY <1>9, <2>1 DEF DeletePC
  <2>4. QED  BY <1>3, <1>6, <2>1, <2>2, <2>3 DEF AtOnce
<1>14. CASE Enqueue(n)
  <2>1. /\ recipe' = recipe /\ list' = list
        /\ \/ pc[n] = "enqueue" /\ pc'[n] = "commit"
           \/ pc[n] = "delete_enqueue" /\ pc'[n] = "delete_flush"
    BY <1>1, <1>14 DEF Enqueue, Goto, RecipeInv, RecipeTypeOK
  <2>2. QED  BY <1>1, <1>3, <1>6, <2>1 DEF AtOnce
<1>15. CASE Commit(n) \/ Die(n)
  <2>1. pc'[n] \in {"done", "failed"}
    BY <1>1, <1>15 DEF Commit, Die, Goto, RecipeInv, RecipeTypeOK
  <2>2. /\ \A r \in Recipe : recipe'[r].by # n
        /\ \A m \in Request : list'[m].by # n
    BY <1>5, <1>15 DEF Commit, Die, CommitRows, RollbackRows, Committed
  <2>3. QED  BY <1>3, <1>6, <2>1, <2>2 DEF AtOnce
<1>16. QED  BY <1>10, <1>11, <1>12, <1>13, <1>14, <1>15 DEF RecipeStep

LEMMA ArriveAtOnce ==
    ASSUME LifeInv, RecipeBegin
    PROVE  /\ LifeInv'
           /\ \A n \in Request : /\ pc'[n] = "done" <=> pc[n] = "done"
                                 /\ pc[n] # "idle" => on'[n] = on[n]
           /\ UNCHANGED <<recipe, list>>
<1>1. RecipeInv /\ RecipeInv' /\ UNCHANGED <<recipe, list>>
  BY BeginKeeps, RecipeNextKeeps DEF LifeInv, RecipeNext
<1>2. PICK r \in Recipe, activity \in Activity \cup {"none"},
           there \in Running \ {"enqueue", "commit"} : Arrive(r, activity, there)
  <2>1. ASSUME NEW r \in Recipe, NEW publish, CreateBegin(r, publish) \/ EditBegin(r, publish)
        PROVE  \E activity \in Activity \cup {"none"}, there \in Running \ {"enqueue", "commit"} :
                  Arrive(r, activity, there)
    BY <2>1 DEF CreateBegin, EditBegin, EditAnnounces, Running, Activity
  <2>2. ASSUME NEW r \in Recipe, DeleteFormBegin(r) \/ DeleteBegin(r)
        PROVE  \E activity \in Activity \cup {"none"}, there \in Running \ {"enqueue", "commit"} :
                  Arrive(r, activity, there)
    BY <2>2 DEF DeleteFormBegin, DeleteBegin, DeleteAnnounces, Running, Activity
  <2>3. QED  BY <2>1, <2>2 DEF RecipeBegin, ForkBegin
<1> DEFINE n == arrived + 1
<1>3. /\ n \in Request /\ pc' = [pc EXCEPT ![n] = there] /\ on' = [on EXCEPT ![n] = r]
      /\ was' = [was EXCEPT ![n] = recipe[r].old]
  BY <1>2 DEF Arrive, Goto
<1>4. pc[n] = "idle"
  BY <1>1, <1>3, RequestFacts DEF RecipeInv, InHand, RecipeTypeOK
<1> HIDE DEF n
<1>5. /\ pc'[n] = there /\ on'[n] = r /\ was'[n] = recipe[r].old
      /\ \A m \in Request \ {n} : pc'[m] = pc[m] /\ on'[m] = on[m] /\ was'[m] = was[m]
  BY <1>1, <1>3 DEF RecipeInv, RecipeTypeOK
<1>6. /\ \A k \in Recipe : recipe[k].by # n
      /\ \A m \in Request : list[m].by # n
  BY <1>1, <1>3, <1>4 DEF RecipeInv, RecipeRows, ListRows
<1>7. ASSUME NEW m \in Request
      PROVE  AtOnce(m)'
  <2>1. CASE m = n
    BY <1>1, <1>2, <1>5, <1>6, <2>1 DEF AtOnce
  <2>2. CASE m # n
    <3>1. AtOnce(m)
      BY DEF LifeInv
    <3>2. QED  BY <1>1, <1>5, <2>2, <3>1 DEF AtOnce
  <2>3. QED  BY <2>1, <2>2
<1>8. \A m \in Request : /\ pc'[m] = "done" <=> pc[m] = "done"
                         /\ pc[m] # "idle" => on'[m] = on[m]
  BY <1>2, <1>3, <1>4, <1>5 DEF Running
<1>9. QED  BY <1>1, <1>7, <1>8 DEF LifeInv

LEMMA LifeInvariant == RecipeSpec => []LifeInv
<1>1. RecipeInit => LifeInv
  <2>1. ASSUME RecipeInit
        PROVE  LifeInv
    BY <2>1, InitEstablishes, RequestFacts DEF LifeInv, AtOnce, RecipeInit, Committed
  <2>2. QED  BY <2>1
<1>2. LifeInv /\ [RecipeNext \/ Quiescent]_recipeVars => LifeInv'
  <2>1. ASSUME LifeInv, UNCHANGED recipeVars
        PROVE  LifeInv'
    <3>1. RecipeInv'
      BY <2>1, NothingKeeps DEF LifeInv
    <3>2. ASSUME NEW n \in Request
          PROVE  AtOnce(n)'
      BY <2>1, <3>2 DEF LifeInv, AtOnce, recipeVars
    <3>3. QED  BY <3>1, <3>2 DEF LifeInv
  <2>2. ASSUME LifeInv, NEW n \in Request, RecipeStep(n) \/ Die(n)
        PROVE  LifeInv'
    BY <2>2, RecipeNextKeeps, OthersAtOnce, OwnAtOnce DEF LifeInv, RecipeNext
  <2>3. QED  BY <2>1, <2>2, ArriveAtOnce DEF RecipeNext, Quiescent
<1>3. QED  BY <1>1, <1>2, PTL DEF RecipeSpec

\* Only a commit changes what recipes show, or that a request has ended.
LEMMA OnlyCommitsEnd ==
    ASSUME RecipeInv, NEW n \in Request, RecipeStep(n) \/ Die(n), ~Commit(n)
    PROVE  /\ \A m \in Request : list'[m].old = list[m].old
           /\ pc'[n] # "done"
<1>1. CASE CreateInsert(n)
  BY <1>1 DEF CreateInsert, Write, AfterWrites, Goto, RecipeInv, RecipeTypeOK, Versions
<1>2. CASE EditWrite(n)
  <2>1. pc'[n] # "done"
    BY <1>2 DEF EditWrite, AfterWrites, Goto, RecipeInv, RecipeTypeOK
  <2>2. \A m \in Request : list'[m].old = list[m].old
    <3>1. CASE UNCHANGED list
      BY <3>1
    <3>2. CASE list' = Replaced(n)
      BY <3>2, ReplacedFacts DEF RecipeInv
    <3>3. QED  BY <1>2, <3>1, <3>2, EditWrites
  <2>3. QED  BY <2>1, <2>2
<1>3. CASE EditPublish(n) \/ DeleteFormWrite(n) \/ DeleteFlush(n) \/ Enqueue(n)
  BY <1>3 DEF EditPublish, DeleteFormWrite, DeleteFlush, Enqueue, AfterWrites, Goto, RecipeInv, RecipeTypeOK
<1>4. CASE Die(n)
  BY <1>4 DEF Die, RollbackRows, Committed, Goto, RecipeInv, RecipeTypeOK
<1>5. QED  BY <1>1, <1>2, <1>3, <1>4 DEF RecipeStep

Statuses == [r \in Recipe |-> recipe[r].old]
Shown == [r \in Recipe |-> Lists(r)]
Ended == {n \in Request : pc[n] = "done"}

LEMMA StillLife ==
    ASSUME RecipeInv,
           \A r \in Recipe : recipe'[r].old = recipe[r].old,
           \A m \in Request : /\ list'[m].old = list[m].old
                              /\ pc'[m] = "done" <=> pc[m] = "done"
                              /\ pc[m] # "idle" => on'[m] = on[m]
    PROVE  UNCHANGED <<Statuses, Shown, Ended>>
<1>1. \A m \in Request : list[m].old => pc[m] # "idle"
  BY DEF RecipeInv, ListRows
<1>2. \A r \in Recipe : Lists(r)' = Lists(r)
  BY <1>1 DEF Lists
<1>3. QED  BY <1>2 DEF Statuses, Shown, Ended

\* A commit is one step of RecipeLife, for its request and on its recipe.
LEMMA CommitIsLifeStep ==
    ASSUME LifeInv, NEW n \in Request, Commit(n)
    PROVE  /\ n \notin Ended /\ Ended' = Ended \cup {n}
           /\ \E r \in Recipe : Life!Create(r, n) \/ Life!Save(r, n) \/ Life!Delete(r)
<1>1. RecipeInv /\ AtOnce(n)
  BY DEF LifeInv
<1>2. /\ pc[n] = "commit" /\ Moves(n, "done")
      /\ recipe' = CommitRows(recipe, n) /\ list' = CommitRows(list, n)
  BY DEF Commit, Moves, Running
<1>3. /\ pc'[n] = "done" /\ on' = on
      /\ \A m \in Request \ {n} : pc'[m] = pc[m]
  BY <1>1, <1>2, MovesPC DEF RecipeInv
<1>4. n \notin Ended /\ Ended' = Ended \cup {n}
  BY <1>2, <1>3 DEF Ended
<1>5. PICK r \in Recipe : r = on[n]
  BY <1>1, <1>2 DEF RecipeInv, InHand
<1>6. \A k \in Recipe : /\ recipe[k].by # n => recipe'[k] = recipe[k]
                        /\ recipe[k].by = n => /\ k = r /\ recipe'[k].old = recipe[k].new
                                               /\ Writes(n, recipe[k].new)
  BY <1>5, <1>1, <1>2 DEF RecipeInv, RecipeTypeOK, CommitRows, Committed, RecipeRows
<1>7. Statuses' = [Statuses EXCEPT ![r] = recipe'[r].old]
  BY <1>5, <1>6 DEF Statuses
<1>8. \A m \in Request : /\ list[m].by # n => list'[m] = list[m]
                         /\ list[m].by = n => /\ list'[m].old = (m = n) /\ (m # n => m \in read[n])
                                              /\ on[m] = r /\ list[n].by = n
  <2>1. \A m \in Request : list[m].by = n => /\ list[m].new = (m = n) /\ (m # n => m \in read[n])
    BY <1>1 DEF RecipeInv, RecipeTypeOK, Versions, ListRows
  <2>2. \A m \in Request : m \in read[n] => on[m] = r
    BY <1>5, <1>1 DEF RecipeInv, ListsReplaced
  <2>3. \A m \in Request : /\ list[m].by # n => list'[m] = list[m]
                           /\ list[m].by = n => list'[m].old = list[m].new
    BY <1>1, <1>2 DEF RecipeInv, RecipeTypeOK, CommitRows, Committed
  <2>4. QED  BY <1>5, <1>1, <2>1, <2>2, <2>3 DEF AtOnce
<1>9. ~list[n].old
  BY <1>1, <1>2, OwnList
\* What recipes show: the lists this request has replaced give way to its own.
<1>10. CASE \A m \in Request : list[m].by # n
  <2>1. Shown' = Shown
    BY <1>3, <1>8, <1>10 DEF Shown, Lists
  <2>2. was[n] # "absent" /\ Statuses[r] # "absent"
    BY <1>1, <1>2, <1>5, <1>10 DEF AtOnce, Statuses
  <2>3. recipe'[r].old \in {recipe[r].old, "published", "deleted"}
    BY <1>5, <1>6, <2>2 DEF Writes
  <2>4. CASE recipe'[r].old = "deleted"
    BY <1>4, <1>5, <1>7, <2>1, <2>2, <2>4 DEF Life!Delete, Statuses, Shown
  <2>5. CASE recipe'[r].old \in {recipe[r].old, "published"}
    <3>1. Statuses' \in {Statuses, [Statuses EXCEPT ![r] = "published"]}
      BY <1>5, <1>7, <2>5 DEF Statuses
    <3>2. QED  BY <1>4, <1>5, <2>1, <2>2, <3>1 DEF Life!Save, Statuses, Shown
  <2>6. QED  BY <2>3, <2>4, <2>5
<1>11. CASE ~\A m \in Request : list[m].by # n
  <2>1. list[n].by = n /\ list'[n].old
    BY <1>8, <1>11
  <2>2. recipe'[r].old = "deleted" => recipe[r].old = "deleted"
    BY <1>1, <1>5, <1>6, <1>11 DEF AtOnce
  <2> DEFINE L == {m \in Request : m # n /\ list[m].by = n /\ list[m].old}
  <2>3. Lists(r)' = (Lists(r) \ L) \cup {n}
    BY <1>5, <1>3, <1>8, <2>1 DEF Lists
  <2>4. \A k \in Recipe \ {r} : Lists(k)' = Lists(k)
    BY <1>5, <1>3, <1>8 DEF Lists
  <2>5. L \in SUBSET Lists(r)
    BY <1>8 DEF Lists
  <2> HIDE DEF L
  <2>6. Shown' = [Shown EXCEPT ![r] = (Lists(r) \ L) \cup {n}]
    <3>1. Shown' = [k \in Recipe |-> Lists(k)']
      BY DEF Shown
    <3>2. \A k \in Recipe : Shown'[k] = IF k = r THEN (Lists(r) \ L) \cup {n} ELSE Shown[k]
      BY <2>3, <2>4, <3>1 DEF Shown
    <3>3. QED  BY <1>5, <3>1, <3>2 DEF Shown
  <2>7. CASE was[n] = "absent"
    <3>1. recipe[r].by = n /\ recipe'[r].old \in {"draft", "published"}
      BY <1>1, <1>2, <1>5, <1>6, <2>7 DEF AtOnce, Writes
    <3>2. recipe[r].old = "absent" /\ \A m \in Request \ {n} : on[m] = r => pc[m] = "failed"
      BY <1>5, <1>1, <1>2, <2>7 DEF RecipeInv, Sole, Running
    <3>3. Lists(r) = {}
      BY <1>1, <1>9, <3>2 DEF RecipeInv, ListRows, Lists
    <3>4. Shown' = [Shown EXCEPT ![r] = {n}]
      BY <1>5, <2>6, <3>3 DEF Shown
    <3>5. Statuses[r] = "absent"
      BY <1>5, <3>2 DEF Statuses
    <3>6. QED  BY <1>4, <1>5, <1>7, <3>1, <3>4, <3>5 DEF Life!Create, Statuses, Shown
  <2>8. CASE was[n] # "absent"
    <3>1. Statuses[r] # "absent"
      BY <1>1, <1>5, <2>8 DEF AtOnce, Statuses
    <3>2. recipe'[r].old \in {recipe[r].old, "published"}
      BY <1>5, <1>6, <2>2, <2>8 DEF Writes
    <3>3. Statuses' \in {Statuses, [Statuses EXCEPT ![r] = "published"]}
      BY <1>5, <1>7, <3>2 DEF Statuses
    <3>4. \E K \in SUBSET Shown[r] : Shown' = [Shown EXCEPT ![r] = (Shown[r] \ K) \cup {n}]
      BY <1>5, <2>5, <2>6 DEF Shown
    <3>5. QED  BY <1>4, <1>5, <3>1, <3>3, <3>4 DEF Life!Save, Statuses, Shown
  <2>9. QED  BY <2>7, <2>8
<1>12. QED  BY <1>4, <1>5, <1>10, <1>11

\* The handlers, statement by statement, implement RecipeLife: whatever requests overlap or
\* die, a request takes effect at once when it commits, on one recipe, or not at all.
THEOREM HandlersFollowLife == RecipeSpec => FollowsLife
<1>1. RecipeInit => Life!Init
  BY DEF RecipeInit, Life!Init, Committed, Lists
<1>2. ASSUME LifeInv, [RecipeNext \/ Quiescent]_recipeVars
      PROVE  [Life!Next]_(Life!vars)
  <2>1. CASE UNCHANGED <<Statuses, Shown, Ended>>
    BY <2>1 DEF Life!vars, Statuses, Shown, Ended
  <2>2. CASE UNCHANGED recipeVars
    <3>1. UNCHANGED <<recipe, list, pc, on>>
      BY <2>2 DEF recipeVars
    <3>2. QED  BY <1>2, <2>1, <3>1, StillLife DEF LifeInv
  <2>3. CASE RecipeBegin
    <3>1. RecipeInv
      BY <1>2 DEF LifeInv
    <3>2. /\ UNCHANGED <<recipe, list>>
          /\ \A m \in Request : /\ pc'[m] = "done" <=> pc[m] = "done"
                                /\ pc[m] # "idle" => on'[m] = on[m]
      BY <1>2, <2>3, ArriveAtOnce
    <3>3. \A r \in Recipe : recipe'[r].old = recipe[r].old
      BY <3>2
    <3>4. \A m \in Request : /\ list'[m].old = list[m].old
                             /\ pc'[m] = "done" <=> pc[m] = "done"
                             /\ pc[m] # "idle" => on'[m] = on[m]
      BY <3>2
    <3>5. UNCHANGED <<Statuses, Shown, Ended>>
      BY <3>1, <3>3, <3>4, StillLife
    <3>6. QED  BY <2>1, <3>5
  <2>4. ASSUME NEW n \in Request, RecipeStep(n) \/ Die(n), ~Commit(n)
        PROVE  UNCHANGED <<Statuses, Shown, Ended>>
    <3>1. PICK there : Moves(n, there)
      BY <2>4, RecipeStepMoves
    <3>2. /\ \A r \in Recipe : recipe'[r].old = recipe[r].old
          /\ \A m \in Request : list'[m].old = list[m].old
          /\ pc'[n] # "done" /\ pc[n] # "done"
      BY <1>2, <2>4, <3>1, OnlyCommitsShow, OnlyCommitsEnd DEF LifeInv, RecipeInv, Moves, Running
    <3>3. \A m \in Request : on'[m] = on[m] /\ (pc'[m] = "done" <=> pc[m] = "done")
      BY <1>2, <3>1, <3>2, MovesPC DEF LifeInv, RecipeInv
    <3>4. QED  BY <1>2, <3>2, <3>3, StillLife DEF LifeInv
  <2>5. ASSUME NEW n \in Request, Commit(n)
        PROVE  Life!Next
    <3>1. /\ n \notin Ended /\ Ended' = Ended \cup {n}
          /\ \E r \in Recipe : Life!Create(r, n) \/ Life!Save(r, n) \/ Life!Delete(r)
      BY <1>2, <2>5, CommitIsLifeStep
    <3>2. n \in Request \ Ended
      BY <3>1
    <3>3. QED  BY <3>1, <3>2 DEF Life!Next, Ended
  <2>6. QED  BY <1>2, <2>1, <2>2, <2>3, <2>4, <2>5 DEF RecipeNext, Quiescent
<1>3. QED  BY <1>1, <1>2, LifeInvariant, PTL DEF RecipeSpec, FollowsLife, Life!Spec

(***************************************************************************)
(* Delivery: operators                                                     *)
(***************************************************************************)
\* One follower stands for each inbox.
LEMMA OneForEachInbox ==
    ASSUME NEW F \in SUBSET Follower
    PROVE  /\ UniqueInboxes(F) \subseteq F
           /\ \A f \in F : \E u \in UniqueInboxes(F) : InboxOf[u] = InboxOf[f]
           /\ \A u \in UniqueInboxes(F) : \A v \in UniqueInboxes(F) :
                 InboxOf[u] = InboxOf[v] => u = v
<1> DEFINE Of(i) == CHOOSE f \in F : InboxOf[f] = i
<1>1. \A f \in F : Of(InboxOf[f]) \in F /\ InboxOf[Of(InboxOf[f])] = InboxOf[f]
  OBVIOUS
<1>2. UniqueInboxes(F) = {Of(i) : i \in {InboxOf[f] : f \in F}}
  BY DEF UniqueInboxes
<1> HIDE DEF Of
<1>3. QED  BY <1>1, <1>2

LEMMA RunFacts ==
    /\ \A r \in Run : r \in Nat /\ r >= 1 /\ r <= MaxCrashes + 1
    /\ IsFiniteSet(Run)
  BY CrashesAssumption, FS_Interval DEF Run

LEMMA OneToAnInbox ==
    ASSUME Sent, NEW n \in Request, NEW f \in Follower, NEW r \in Run, message[<<n, f, r>>] # "none",
           NEW g \in Follower, g # f, InboxOf[g] = InboxOf[f]
    PROVE  message[<<n, g, r>>] = "none"
  BY DEF Sent

LEMMA AcceptedFacts ==
    ASSUME NEW n \in Request, NEW i \in Inbox
    PROVE  IsFiniteSet(Accepted(n, i)) /\ Cardinality(Accepted(n, i)) \in Nat
<1>1. Accepted(n, i) \subseteq Run
  BY DEF Accepted
<1>2. QED  BY <1>1, RunFacts, FS_Subset, FS_CardinalityType

\* What does not change what was accepted, and gives an inbox no more than it counts
\* crashes and lost answers.
LEMMA CountedStays ==
    ASSUME DeliveryTypeOK, Counted, DeliveryTypeOK',
           \A m \in Message : message'[m] = "done" <=> message[m] = "done",
           \A n \in Request : \A i \in Inbox :
              received'[<<n, i>>] + run'[n] + crashes + lost
                 <= received[<<n, i>>] + run[n] + crashes' + lost'
    PROVE  Counted'
<1> SUFFICES ASSUME NEW n \in Request, NEW i \in Inbox
             PROVE  received'[<<n, i>>] + run'[n] <= Cardinality(Accepted(n, i)') + 1 + crashes' + lost'
  BY DEF Counted
<1>1. Accepted(n, i)' = Accepted(n, i)
  BY DEF Accepted, Message
<1>2. received[<<n, i>>] + run[n] <= Cardinality(Accepted(n, i)) + 1 + crashes + lost
  BY DEF Counted
<1>3. Cardinality(Accepted(n, i)) \in Nat
  BY AcceptedFacts
<1>4. /\ received[<<n, i>>] \in Nat /\ run[n] \in Nat /\ crashes \in Nat /\ lost \in Nat
      /\ received'[<<n, i>>] \in Nat /\ run'[n] \in Nat /\ crashes' \in Nat /\ lost' \in Nat
  BY RunFacts, CrashesAssumption, LostAssumption DEF DeliveryTypeOK
<1>5. received'[<<n, i>>] + run'[n] + crashes + lost
         <= received[<<n, i>>] + run[n] + crashes' + lost'
  OBVIOUS
<1> HIDE DEF Accepted
<1>6. QED  BY <1>1, <1>2, <1>3, <1>4, <1>5

(***************************************************************************)
(* Delivery: the fan-out                                                   *)
(***************************************************************************)
\* A step of the fan-out of n that sends nothing keeps the invariant if what it has sent
\* stays in order.
LEMMA FanOutMoves ==
    ASSUME DeliveryInv, NEW n \in Request, NEW there \in {"queued", "done"} \cup TaskRunning,
           TaskTo(n, there), UNCHANGED <<recipeVars, messageVars, lost>>,
           run' \in [Request -> Run], audience' \in [Request -> SUBSET Follower],
           carried' \in [Request -> SUBSET Request],
           \A m \in Request \ {n} : run'[m] = run[m] /\ audience'[m] = audience[m],
           \/ run'[n] = run[n] /\ crashes' = crashes
           \/ run'[n] = run[n] + 1 /\ crashes' = crashes + 1 /\ crashes' \in 0..MaxCrashes,
           fanout[n] # "none",
           there \in TaskRunning \/ audience'[n] # {} => recipe[on[n]].old # "absent",
           \A f \in Follower : \A r \in Run : message[<<n, f, r>>] # "none" /\ r = run'[n] =>
              there \in {"send", "done"} /\ f \in UniqueInboxes(audience'[n]),
           there = "done" => \A f \in UniqueInboxes(audience'[n]) :
              f \in Follower => message[<<n, f, run'[n]>>] # "none"
    PROVE  DeliveryInv'
<1>1. /\ recipe' = recipe /\ on' = on /\ pc' = pc /\ fanout' = fanout
      /\ message' = message /\ retries' = retries /\ received' = received /\ lost' = lost
  BY DEF recipeVars, messageVars
<1>2. RecipeInv'
  BY NothingKeeps DEF DeliveryInv
<1>3. task' \in [Request -> {"queued", "done"} \cup TaskRunning] /\ task'[n] = there
      /\ \A m \in Request \ {n} : task'[m] = task[m]
  BY DEF DeliveryInv, DeliveryTypeOK, TaskTo
<1>4. crashes' \in 0..MaxCrashes /\ crashes \in Nat
  BY CrashesAssumption DEF DeliveryInv, DeliveryTypeOK
<1>5. DeliveryTypeOK'
  BY <1>1, <1>3, <1>4 DEF DeliveryInv, DeliveryTypeOK
<1>6. Read'
  <2> SUFFICES ASSUME NEW m \in Request
               PROVE  /\ fanout'[m] # "none" => pc'[m] # "idle"
                      /\ task'[m] \in TaskRunning \cup {"done"} \/ audience'[m] # {} => fanout'[m] # "none"
                      /\ task'[m] \in TaskRunning \/ audience'[m] # {} => recipe'[on'[m]].old # "absent"
                      /\ run'[m] <= 1 + crashes'
    BY DEF Read
  <2>1. run'[m] <= 1 + crashes'
    <3>1. run[m] <= 1 + crashes /\ run[m] \in Nat
      BY RunFacts DEF DeliveryInv, DeliveryTypeOK, Read
    <3>2. run'[m] = run[m] \/ (run'[m] = run[m] + 1 /\ crashes' = crashes + 1)
      BY <1>3
    <3>3. crashes' = crashes \/ crashes' = crashes + 1
      OBVIOUS
    <3>4. QED  BY <1>4, <3>1, <3>2, <3>3
  <2>2. CASE m = n
    BY <1>1, <1>3, <2>1, <2>2 DEF DeliveryInv, Read
  <2>3. CASE m # n
    BY <1>1, <1>3, <2>1, <2>3 DEF DeliveryInv, Read
  <2>4. QED  BY <2>2, <2>3
<1>7. Sent'
  <2> SUFFICES ASSUME NEW m \in Request, NEW f \in Follower, NEW r \in Run
               PROVE  /\ message'[<<m, f, r>>] # "none" =>
                            /\ r <= run'[m]
                            /\ r = run'[m] => /\ task'[m] \in {"send", "done"}
                                              /\ f \in UniqueInboxes(audience'[m])
                            /\ \A g \in Follower : g # f /\ InboxOf[g] = InboxOf[f] =>
                                  message'[<<m, g, r>>] = "none"
                      /\ task'[m] = "done" /\ f \in UniqueInboxes(audience'[m]) =>
                            message'[<<m, f, run'[m]>>] # "none"
    BY DEF Sent
  <2>1. message[<<m, f, r>>] # "none" =>
           /\ r <= run[m]
           /\ \A g \in Follower : g # f /\ InboxOf[g] = InboxOf[f] => message[<<m, g, r>>] = "none"
    <3>1. Sent
      BY DEF DeliveryInv
    <3>2. message[<<m, f, r>>] # "none" => r <= run[m]
      BY <3>1 DEF Sent
    <3>3. QED  BY <3>1, <3>2, OneToAnInbox
  <2>2. r <= run[m] => r <= run'[m]
    <3>1. run'[m] = run[m] \/ run'[m] = run[m] + 1
      BY <1>3
    <3>2. r \in Nat /\ run[m] \in Nat
      BY RunFacts DEF DeliveryInv, DeliveryTypeOK
    <3>3. QED  BY <3>1, <3>2
  <2>3. CASE m = n
    BY <1>1, <1>3, <2>1, <2>2, <2>3
  <2>4. CASE m # n
    BY <1>1, <1>3, <2>1, <2>2, <2>4 DEF DeliveryInv, Sent
  <2>5. QED  BY <2>3, <2>4
<1>8. Counted'
  <2>1. ASSUME NEW m \in Request, NEW i \in Inbox
        PROVE  received'[<<m, i>>] + run'[m] + crashes + lost
                  <= received[<<m, i>>] + run[m] + crashes' + lost'
    <3>1. received[<<m, i>>] \in Nat /\ run[m] \in Nat /\ lost \in Nat
      BY RunFacts, LostAssumption DEF DeliveryInv, DeliveryTypeOK
    <3>2. run'[m] = run[m] \/ (run'[m] = run[m] + 1 /\ crashes' = crashes + 1)
      BY <1>3
    <3>3. crashes' = crashes \/ crashes' = crashes + 1
      OBVIOUS
    <3>4. QED  BY <1>1, <1>4, <3>1, <3>2, <3>3
  <2>2. QED  BY <1>1, <1>5, <2>1, CountedStays DEF DeliveryInv
<1>9. QED  BY <1>2, <1>5, <1>6, <1>7, <1>8 DEF DeliveryInv

LEMMA FanReadKeeps ==
    ASSUME DeliveryInv, NEW n \in Request, FanRead(n)
    PROVE  DeliveryInv'
<1>1. PICK there \in {"followers", "done"} :
        TaskTo(n, there) /\ (there = "done" <=> recipe[on[n]].old = "absent")
  BY DEF FanRead
<1>2. /\ task[n] = "queued" /\ fanout[n] # "none"
      /\ UNCHANGED <<recipeVars, run, audience, messageVars, crashes, lost>>
  BY DEF FanRead
<1>3. carried' \in [Request -> SUBSET Request]
  BY DEF FanRead, Lists, DeliveryInv, DeliveryTypeOK
<1>4. there = "done" => audience[n] = {}
  BY <1>1 DEF DeliveryInv, Read
<1>5. there = "done" => UniqueInboxes(audience[n]) = {}
  BY <1>4, OneForEachInbox
<1>6. \A f \in Follower : message[<<n, f, run[n]>>] = "none"
  BY <1>2 DEF DeliveryInv, Sent, DeliveryTypeOK
<1>7. run' = run /\ audience' = audience /\ crashes' = crashes
  BY <1>2
<1>8. run \in [Request -> Run] /\ audience \in [Request -> SUBSET Follower]
  BY DEF DeliveryInv, DeliveryTypeOK
<1>9. there \in TaskRunning \cup {"done"} /\ (there \in TaskRunning => there # "done")
  BY DEF TaskRunning
<1>10. audience[n] # {} => recipe[on[n]].old # "absent"
  BY DEF DeliveryInv, Read
<1>11. QED
  BY <1>1, <1>2, <1>3, <1>5, <1>6, <1>7, <1>8, <1>9, <1>10, FanOutMoves

LEMMA FanFollowersKeeps ==
    ASSUME DeliveryInv, NEW n \in Request, FanFollowers(n)
    PROVE  DeliveryInv'
<1>1. PICK F \in SUBSET Follower : audience' = [audience EXCEPT ![n] = F]
  BY DEF FanFollowers
<1>2. /\ task[n] = "followers" /\ TaskTo(n, "send")
      /\ UNCHANGED <<recipeVars, run, carried, messageVars, crashes, lost>>
  BY DEF FanFollowers
<1>3. fanout[n] # "none" /\ recipe[on[n]].old # "absent"
  BY <1>2 DEF DeliveryInv, Read, TaskRunning
<1>4. \A f \in Follower : message[<<n, f, run[n]>>] = "none"
  BY <1>2 DEF DeliveryInv, Sent, DeliveryTypeOK
<1>5. /\ audience' \in [Request -> SUBSET Follower] /\ run \in [Request -> Run]
      /\ carried \in [Request -> SUBSET Request] /\ "send" \in TaskRunning
      /\ \A m \in Request \ {n} : audience'[m] = audience[m]
  BY <1>1 DEF DeliveryInv, DeliveryTypeOK, TaskRunning
<1>6. run' = run /\ carried' = carried /\ crashes' = crashes
  BY <1>2
<1>7. QED  BY <1>2, <1>3, <1>4, <1>5, <1>6, FanOutMoves

LEMMA FanEndKeeps ==
    ASSUME DeliveryInv, NEW n \in Request, FanEnd(n)
    PROVE  DeliveryInv'
<1>1. /\ task[n] = "send" /\ TaskTo(n, "done")
      /\ \A f \in UniqueInboxes(audience[n]) : message[<<n, f, run[n]>>] # "none"
      /\ UNCHANGED <<recipeVars, run, carried, audience, messageVars, crashes, lost>>
  BY DEF FanEnd
<1>2. fanout[n] # "none" /\ recipe[on[n]].old # "absent"
  BY <1>1 DEF DeliveryInv, Read, TaskRunning
<1>3. \A f \in Follower : \A r \in Run : message[<<n, f, r>>] # "none" /\ r = run[n] =>
         f \in UniqueInboxes(audience[n])
  BY DEF DeliveryInv, Sent
<1>4. /\ audience \in [Request -> SUBSET Follower] /\ run \in [Request -> Run]
      /\ carried \in [Request -> SUBSET Request]
  BY DEF DeliveryInv, DeliveryTypeOK
<1>5. run' = run /\ carried' = carried /\ crashes' = crashes /\ audience' = audience
  BY <1>1
<1>6. QED  BY <1>1, <1>2, <1>3, <1>4, <1>5, FanOutMoves

LEMMA CrashTaskKeeps ==
    ASSUME DeliveryInv, NEW n \in Request, CrashTask(n)
    PROVE  DeliveryInv'
<1>1. /\ task[n] \in TaskRunning /\ crashes < MaxCrashes /\ crashes' = crashes + 1
      /\ TaskTo(n, "queued") /\ run' = [run EXCEPT ![n] = @ + 1]
      /\ UNCHANGED <<recipeVars, carried, audience, messageVars, lost>>
  BY DEF CrashTask
<1>2. fanout[n] # "none" /\ recipe[on[n]].old # "absent"
  BY <1>1 DEF DeliveryInv, Read
<1>3. /\ audience \in [Request -> SUBSET Follower] /\ run \in [Request -> Run]
      /\ carried \in [Request -> SUBSET Request] /\ crashes \in 0..MaxCrashes
      /\ run[n] <= 1 + crashes
  BY DEF DeliveryInv, DeliveryTypeOK, Read
<1>4. crashes' \in 0..MaxCrashes /\ run[n] + 1 \in Run
  BY <1>1, <1>3, RunFacts, CrashesAssumption DEF Run
<1>5. /\ run' \in [Request -> Run] /\ run'[n] = run[n] + 1
      /\ \A m \in Request \ {n} : run'[m] = run[m]
  BY <1>1, <1>3, <1>4
<1>6. \A f \in Follower : \A r \in Run : r = run'[n] => message[<<n, f, r>>] = "none"
  <2>1. \A f \in Follower : \A r \in Run : message[<<n, f, r>>] # "none" => r <= run[n]
    BY DEF DeliveryInv, Sent
  <2>2. QED  BY <1>3, <1>5, <2>1, RunFacts
<1>7. carried' = carried /\ audience' = audience
  BY <1>1
<1>8. QED  BY <1>1, <1>2, <1>3, <1>4, <1>5, <1>6, <1>7, FanOutMoves

(***************************************************************************)
(* Delivery: the messages                                                  *)
(***************************************************************************)
LEMMA SentStays ==
    ASSUME DeliveryTypeOK, Sent, UNCHANGED taskVars,
           \A m \in Message : message'[m] = "none" <=> message[m] = "none"
    PROVE  Sent'
<1>1. task' = task /\ run' = run /\ audience' = audience
  BY DEF taskVars
<1>2. \A n \in Request : \A f \in Follower : \A r \in Run :
         message'[<<n, f, r>>] = "none" <=> message[<<n, f, r>>] = "none"
  BY DEF Message
<1>3. \A n \in Request : run[n] \in Run
  BY DEF DeliveryTypeOK
<1> SUFFICES ASSUME NEW n \in Request, NEW f \in Follower, NEW r \in Run
             PROVE  /\ message'[<<n, f, r>>] # "none" =>
                          /\ r <= run'[n]
                          /\ r = run'[n] => /\ task'[n] \in {"send", "done"}
                                            /\ f \in UniqueInboxes(audience'[n])
                          /\ \A g \in Follower : g # f /\ InboxOf[g] = InboxOf[f] =>
                                message'[<<n, g, r>>] = "none"
                    /\ task'[n] = "done" /\ f \in UniqueInboxes(audience'[n]) =>
                          message'[<<n, f, run'[n]>>] # "none"
  BY DEF Sent
<1>4. QED  BY <1>1, <1>2, <1>3 DEF Sent

\* A step of a message leaves the rest of the invariant as it was.
LEMMA MessageMoves ==
    ASSUME DeliveryInv, UNCHANGED <<recipeVars, taskVars>>,
           message' \in [Message -> {"none", "queued", "done", "failed"}],
           retries' \in [Message -> 0..Len(RetryDelays)],
           received' \in [Request \X Inbox -> Nat],
           crashes' \in 0..MaxCrashes, crashes' >= crashes, lost' \in 0..MaxLost,
           \A m \in Message : message'[m] = "none" <=> message[m] = "none"
    PROVE  RecipeInv' /\ DeliveryTypeOK' /\ Read' /\ Sent'
<1>1. /\ recipe' = recipe /\ on' = on /\ pc' = pc /\ fanout' = fanout
      /\ task' = task /\ run' = run /\ carried' = carried /\ audience' = audience
  BY DEF recipeVars, taskVars
<1>2. RecipeInv'
  BY NothingKeeps DEF DeliveryInv
<1>3. DeliveryTypeOK'
  BY <1>1 DEF DeliveryInv, DeliveryTypeOK
<1>4. \A n \in Request : run[n] <= 1 + crashes'
  <2> SUFFICES ASSUME NEW n \in Request PROVE run[n] <= 1 + crashes'
    OBVIOUS
  <2>1. run[n] <= 1 + crashes /\ run[n] \in Nat /\ crashes \in Nat
    BY RunFacts, CrashesAssumption DEF DeliveryInv, DeliveryTypeOK, Read
  <2>2. QED  BY <2>1, CrashesAssumption
<1>5. Read'
  BY <1>1, <1>4 DEF DeliveryInv, Read
<1>6. Sent'
  BY SentStays DEF DeliveryInv
<1>7. QED  BY <1>2, <1>3, <1>5, <1>6

LEMMA FanSendKeeps ==
    ASSUME DeliveryInv, NEW n \in Request, NEW f \in Follower, FanSend(n, f)
    PROVE  DeliveryInv'
<1> DEFINE k == <<n, f, run[n]>>
<1>1. /\ task[n] = "send" /\ f \in UniqueInboxes(audience[n]) /\ message[k] = "none"
      /\ message' = [message EXCEPT ![k] = "queued"]
      /\ UNCHANGED <<recipeVars, taskVars, retries, received, crashes, lost>>
  BY DEF FanSend
<1>2. run[n] \in Run /\ run[n] \in Nat /\ k \in Message /\ audience[n] \in SUBSET Follower
  BY RunFacts DEF DeliveryInv, DeliveryTypeOK, Message
<1>3. /\ message' \in [Message -> {"none", "queued", "done", "failed"}]
      /\ message'[k] = "queued"
      /\ \A m \in Message : m # k => message'[m] = message[m]
  BY <1>1, <1>2 DEF DeliveryInv, DeliveryTypeOK
<1>4. /\ recipe' = recipe /\ on' = on /\ pc' = pc /\ fanout' = fanout
      /\ task' = task /\ run' = run /\ carried' = carried /\ audience' = audience
      /\ retries' = retries /\ received' = received /\ crashes' = crashes /\ lost' = lost
  BY <1>1 DEF recipeVars, taskVars
<1>5. RecipeInv'
  BY <1>1, NothingKeeps DEF DeliveryInv
<1>6. DeliveryTypeOK'
  BY <1>3, <1>4 DEF DeliveryInv, DeliveryTypeOK
<1>7. Read'
  BY <1>4 DEF DeliveryInv, Read
<1> HIDE DEF k
<1>8. Sent'
  <2> SUFFICES ASSUME NEW m \in Request, NEW g \in Follower, NEW r \in Run
               PROVE  /\ message'[<<m, g, r>>] # "none" =>
                            /\ r <= run'[m]
                            /\ r = run'[m] => /\ task'[m] \in {"send", "done"}
                                              /\ g \in UniqueInboxes(audience'[m])
                            /\ \A h \in Follower : h # g /\ InboxOf[h] = InboxOf[g] =>
                                  message'[<<m, h, r>>] = "none"
                      /\ task'[m] = "done" /\ g \in UniqueInboxes(audience'[m]) =>
                            message'[<<m, g, run'[m]>>] # "none"
    BY DEF Sent
  <2>1. \A h \in Follower : <<m, h, r>> \in Message /\ <<m, h, run[m]>> \in Message
    BY DEF Message, DeliveryInv, DeliveryTypeOK
  <2>2. CASE <<m, g, r>> = k
    <3>1. m = n /\ g = f /\ r = run[n]
      BY <2>2 DEF k
    <3>2. ASSUME NEW h \in Follower, h # f, InboxOf[h] = InboxOf[f]
          PROVE  message'[<<n, h, run[n]>>] = "none"
      <4>1. h \notin UniqueInboxes(audience[n])
        BY <1>1, <1>2, <3>2, OneForEachInbox
      <4>2. message[<<n, h, run[n]>>] = "none"
        BY <1>2, <4>1 DEF DeliveryInv, Sent
      <4>3. <<n, h, run[n]>> # k
        BY <3>2 DEF k
      <4>4. QED  BY <1>3, <2>1, <3>1, <4>2, <4>3
    <3>3. QED  BY <1>1, <1>2, <1>4, <3>1, <3>2
  <2>3. CASE <<m, g, r>> # k
    <3>1. message'[<<m, g, r>>] = message[<<m, g, r>>]
      BY <1>3, <2>1, <2>3
    <3>2. ASSUME message[<<m, g, r>>] # "none", NEW h \in Follower, h # g,
                 InboxOf[h] = InboxOf[g]
          PROVE  message'[<<m, h, r>>] = "none"
      <4>1. message[<<m, h, r>>] = "none"
        BY <3>2, OneToAnInbox DEF DeliveryInv
      <4>2. CASE <<m, h, r>> = k
        <5>1. m = n /\ h = f /\ r = run[n]
          BY <4>2 DEF k
        <5>2. g \in UniqueInboxes(audience[n])
          BY <3>2, <5>1 DEF DeliveryInv, Sent
        <5>3. QED  BY <1>1, <1>2, <3>2, <5>1, <5>2, OneForEachInbox
      <4>3. CASE <<m, h, r>> # k
        BY <1>3, <2>1, <4>1, <4>3
      <4>4. QED  BY <4>2, <4>3
    <3>3. task[m] = "done" /\ g \in UniqueInboxes(audience[m]) => message'[<<m, g, run[m]>>] # "none"
      <4>1. task[m] = "done" => <<m, g, run[m]>> # k
        BY <1>1 DEF k
      <4>2. task[m] = "done" /\ g \in UniqueInboxes(audience[m]) => message[<<m, g, run[m]>>] # "none"
        BY DEF DeliveryInv, Sent
      <4>3. QED  BY <1>3, <2>1, <4>1, <4>2
    <3>4. QED  BY <1>4, <3>1, <3>2, <3>3 DEF DeliveryInv, Sent
  <2>4. QED  BY <2>2, <2>3
<1>9. Counted'
  <2>1. \A m \in Message : message'[m] = "done" <=> message[m] = "done"
    BY <1>1, <1>3 DEF k
  <2>2. ASSUME NEW m \in Request, NEW i \in Inbox
        PROVE  received'[<<m, i>>] + run'[m] + crashes + lost
                  <= received[<<m, i>>] + run[m] + crashes' + lost'
    <3>1. /\ received[<<m, i>>] \in Nat /\ run[m] \in Nat /\ lost \in Nat /\ crashes \in Nat
      BY RunFacts, LostAssumption, CrashesAssumption DEF DeliveryInv, DeliveryTypeOK
    <3>2. QED  BY <1>4, <3>1
  <2>3. QED  BY <1>6, <2>1, <2>2, CountedStays DEF DeliveryInv
<1>10. QED  BY <1>5, <1>6, <1>7, <1>8, <1>9 DEF DeliveryInv

\* An inbox has been given one more, or the message is as it was.
LEMMA GiveTyped ==
    ASSUME DeliveryTypeOK, NEW m \in Message, received' = received \/ Give(m)
    PROVE  /\ received' \in [Request \X Inbox -> Nat]
           /\ \A j \in Request \X Inbox : /\ received'[j] <= received[j] + 1
                                          /\ received[j] \in Nat /\ received'[j] \in Nat
                                          /\ j # <<m[1], InboxOf[m[2]]>> => received'[j] = received[j]
<1>1. <<m[1], InboxOf[m[2]]>> \in Request \X Inbox
  BY DEF Message, Inbox
<1>2. received \in [Request \X Inbox -> Nat]
  BY DEF DeliveryTypeOK
<1>3. QED  BY <1>1, <1>2 DEF Give

LEMMA DeliveredKeeps ==
    ASSUME DeliveryInv, NEW m \in Message, Delivered(m)
    PROVE  DeliveryInv'
<1>1. /\ message[m] = "queued" /\ Give(m) /\ message' = [message EXCEPT ![m] = "done"]
      /\ UNCHANGED <<recipeVars, taskVars, retries, crashes, lost>>
  BY DEF Delivered, MessageTo
<1>2. /\ message' \in [Message -> {"none", "queued", "done", "failed"}] /\ message'[m] = "done"
      /\ \A k \in Message : k # m => message'[k] = message[k]
  BY <1>1 DEF DeliveryInv, DeliveryTypeOK
<1>3. /\ retries' \in [Message -> 0..Len(RetryDelays)]
      /\ crashes' = crashes /\ lost' = lost /\ run' = run
      /\ crashes \in 0..MaxCrashes /\ crashes \in Nat /\ lost \in 0..MaxLost /\ lost \in Nat
  BY <1>1, CrashesAssumption, LostAssumption DEF DeliveryInv, DeliveryTypeOK, taskVars
<1>4. \A k \in Message : message'[k] = "none" <=> message[k] = "none"
  BY <1>1, <1>2
<1>5. DeliveryTypeOK
  BY DEF DeliveryInv
<1>6. RecipeInv' /\ DeliveryTypeOK' /\ Read' /\ Sent'
  BY <1>1, <1>2, <1>3, <1>4, <1>5, GiveTyped, MessageMoves
<1>7. PICK n \in Request, f \in Follower, r \in Run : m = <<n, f, r>>
  BY DEF Message
<1>8. ASSUME NEW k \in Request, NEW i \in Inbox
      PROVE  received'[<<k, i>>] + run'[k] <= Cardinality(Accepted(k, i)') + 1 + crashes' + lost'
  <2>1. /\ received[<<k, i>>] + run[k] <= Cardinality(Accepted(k, i)) + 1 + crashes + lost
        /\ received[<<k, i>>] \in Nat /\ received'[<<k, i>>] \in Nat /\ run[k] \in Nat
    BY <1>1, <1>5, GiveTyped, RunFacts DEF DeliveryInv, DeliveryTypeOK, Counted
  <2>2. IsFiniteSet(Accepted(k, i)) /\ Cardinality(Accepted(k, i)) \in Nat
    BY AcceptedFacts
  <2>3. CASE k = n /\ i = InboxOf[f]
    <3>1. \A g \in Follower : InboxOf[g] = i => message[<<n, g, r>>] # "done"
      <4>1. \A g \in Follower : g # f /\ InboxOf[g] = i => message[<<n, g, r>>] = "none"
        BY <1>1, <1>7, <2>3, OneToAnInbox DEF DeliveryInv
      <4>2. QED  BY <1>1, <1>7, <4>1
    <3>2. r \notin Accepted(k, i)
      BY <2>3, <3>1 DEF Accepted
    <3>3. Accepted(k, i)' = Accepted(k, i) \cup {r}
      BY <1>2, <1>7, <2>3 DEF Accepted, Message
    <3>4. Cardinality(Accepted(k, i) \cup {r}) = Cardinality(Accepted(k, i)) + 1
      BY <2>2, <3>2, FS_AddElement
    <3>5. received'[<<k, i>>] <= received[<<k, i>>] + 1
      BY <1>1, <1>5, GiveTyped
    <3> HIDE DEF Accepted
    <3>6. PICK a \in Nat, b \in Nat, d \in Nat, c \in Nat :
             /\ a = received[<<k, i>>] /\ b = received'[<<k, i>>] /\ d = run[k]
             /\ c = Cardinality(Accepted(k, i))
      BY <2>1, <2>2
    <3>7. b <= a + 1 /\ a + d <= c + 1 + crashes + lost
      BY <2>1, <3>5, <3>6
    <3>8. b + d <= (c + 1) + 1 + crashes + lost
      <4>1. \A x \in Nat, y \in Nat : b <= a + 1 /\ a + d <= c + 1 + x + y
               => b + d <= (c + 1) + 1 + x + y
        OBVIOUS
      <4>2. QED  BY <1>3, <3>7, <4>1
    <3>9. QED  BY <1>3, <3>3, <3>4, <3>6, <3>8
  <2>4. CASE ~(k = n /\ i = InboxOf[f])
    <3>1. Accepted(k, i)' = Accepted(k, i)
      <4>1. ASSUME NEW g \in Follower, NEW q \in Run, InboxOf[g] = i
            PROVE  message'[<<k, g, q>>] = message[<<k, g, q>>]
        BY <1>2, <1>7, <2>4, <4>1 DEF Message
      <4>2. QED  BY <4>1 DEF Accepted
    <3>2. received'[<<k, i>>] = received[<<k, i>>]
      BY <1>1, <1>5, <1>7, <2>4, GiveTyped
    <3> HIDE DEF Accepted
    <3>3. QED  BY <1>3, <2>1, <2>2, <3>1, <3>2
  <2>5. QED  BY <2>3, <2>4
<1>9. QED  BY <1>6, <1>8 DEF DeliveryInv, Counted

\* Nothing that the inbox accepted: what it was given counts as a crash or a lost answer.
LEMMA NotDoneKeeps ==
    ASSUME DeliveryInv, NEW m \in Message, UNCHANGED <<recipeVars, taskVars>>,
           received' = received \/ Give(m),
           message' \in [Message -> {"none", "queued", "done", "failed"}],
           retries' \in [Message -> 0..Len(RetryDelays)],
           crashes' \in 0..MaxCrashes, crashes' = crashes \/ crashes' = crashes + 1,
           lost' \in 0..MaxLost, lost' = lost \/ lost' = lost + 1,
           Give(m) => crashes' = crashes + 1 \/ lost' = lost + 1,
           \A k \in Message : /\ message'[k] = "none" <=> message[k] = "none"
                              /\ message'[k] = "done" <=> message[k] = "done"
    PROVE  DeliveryInv'
<1>1. DeliveryTypeOK /\ crashes \in Nat /\ lost \in Nat /\ run' = run
  BY CrashesAssumption, LostAssumption DEF DeliveryInv, DeliveryTypeOK, taskVars
<1>2. received' \in [Request \X Inbox -> Nat]
  BY <1>1, GiveTyped
<1>3. RecipeInv' /\ DeliveryTypeOK' /\ Read' /\ Sent'
  <2>1. crashes' >= crashes
    BY <1>1
  <2>2. QED  BY <1>2, <2>1, MessageMoves
<1>4. ASSUME NEW n \in Request, NEW i \in Inbox
      PROVE  received'[<<n, i>>] + run'[n] + crashes + lost
                <= received[<<n, i>>] + run[n] + crashes' + lost'
  <2>1. /\ received[<<n, i>>] \in Nat /\ received'[<<n, i>>] \in Nat /\ run[n] \in Nat
        /\ received'[<<n, i>>] <= received[<<n, i>>] + 1
    BY <1>1, GiveTyped, RunFacts DEF DeliveryTypeOK
  <2>2. \/ received' = received
        \/ crashes' = crashes + 1 \/ lost' = lost + 1
    OBVIOUS
  <2>3. CASE received' = received
    <3>1. PICK c \in Nat, l \in Nat : c = crashes' /\ l = lost'
      BY CrashesAssumption, LostAssumption
    <3>2. c >= crashes /\ l >= lost
      BY <1>1, <3>1
    <3>3. \A x \in Nat, y \in Nat, a \in Nat, d \in Nat : c >= x /\ l >= y
             => a + d + x + y <= a + d + c + l
      OBVIOUS
    <3>4. QED  BY <1>1, <2>1, <2>3, <3>1, <3>2, <3>3
  <2>4. CASE crashes' = crashes + 1 \/ lost' = lost + 1
    <3>1. PICK c \in Nat, l \in Nat : c = crashes' /\ l = lost'
      BY CrashesAssumption, LostAssumption
    <3>2. c >= crashes /\ l >= lost /\ (c = crashes + 1 \/ l = lost + 1)
      BY <1>1, <2>4, <3>1
    <3>3. PICK a \in Nat, b \in Nat, d \in Nat :
             a = received[<<n, i>>] /\ b = received'[<<n, i>>] /\ d = run[n]
      BY <2>1
    <3>4. b <= a + 1 /\ crashes \in Nat /\ lost \in Nat
      BY <1>1, <2>1, <3>3
    <3>5. b + d + crashes + lost <= a + d + c + l
      <4>1. \A x \in Nat, y \in Nat : c >= x /\ l >= y /\ (c = x + 1 \/ l = y + 1) /\ b <= a + 1
               => b + d + x + y <= a + d + c + l
        OBVIOUS
      <4>2. QED  BY <3>2, <3>4, <4>1
    <3>6. QED  BY <1>1, <3>1, <3>3, <3>5
  <2>5. QED  BY <2>2, <2>3, <2>4
<1>5. Counted'
  BY <1>1, <1>3, <1>4, CountedStays DEF DeliveryInv
<1>6. QED  BY <1>3, <1>5 DEF DeliveryInv

LEMMA NotAcceptedFacts ==
    ASSUME DeliveryInv, NEW m \in Message, NotAccepted(m)
    PROVE  /\ UNCHANGED <<recipeVars, taskVars>> /\ crashes' = crashes /\ crashes' \in 0..MaxCrashes
           /\ received' = received \/ Give(m)
           /\ lost' \in 0..MaxLost /\ (lost' = lost \/ lost' = lost + 1)
           /\ received' = received \/ lost' = lost + 1
<1>1. crashes \in 0..MaxCrashes /\ lost \in 0..MaxLost
  BY DEF DeliveryInv, DeliveryTypeOK
<1>2. /\ UNCHANGED <<recipeVars, taskVars, crashes>>
      /\ \/ UNCHANGED <<received, lost>>
         \/ lost < MaxLost /\ lost' = lost + 1 /\ Give(m)
  BY DEF NotAccepted
<1>3. CASE UNCHANGED <<received, lost>>
  BY <1>1, <1>2, <1>3
<1>4. CASE lost < MaxLost /\ lost' = lost + 1 /\ Give(m)
  <2>1. lost' \in 0..MaxLost
    BY <1>1, <1>4, LostAssumption
  <2>2. QED  BY <1>1, <1>2, <1>4, <2>1
<1>5. QED  BY <1>2, <1>3, <1>4

\* Giving is not staying as it was.
LEMMA GiveChanges ==
    ASSUME DeliveryTypeOK, NEW m \in Message, Give(m)
    PROVE  received' # received
<1>1. PICK j \in Request \X Inbox : j = <<m[1], InboxOf[m[2]]>>
  BY DEF Message, Inbox
<1>2. received \in [Request \X Inbox -> Nat]
  BY DEF DeliveryTypeOK
<1>3. received'[j] = received[j] + 1 /\ received[j] \in Nat
  BY <1>1, <1>2 DEF Give
<1>4. QED  BY <1>3

LEMMA RetryKeeps ==
    ASSUME DeliveryInv, NEW m \in Message, Retry(m) \/ GiveUp(m)
    PROVE  DeliveryInv'
<1>1. message[m] = "queued" /\ NotAccepted(m) /\ DeliveryTypeOK
  BY DEF Retry, GiveUp, NotAccepted, DeliveryInv
<1>2. /\ message' \in [Message -> {"none", "queued", "done", "failed"}]
      /\ \A k \in Message : /\ message'[k] = "none" <=> message[k] = "none"
                            /\ message'[k] = "done" <=> message[k] = "done"
  BY <1>1 DEF Retry, GiveUp, MessageTo, DeliveryTypeOK
<1>3. retries' \in [Message -> 0..Len(RetryDelays)]
  <2>1. retries \in [Message -> 0..Len(RetryDelays)] /\ Len(RetryDelays) = 3
    BY <1>1 DEF DeliveryTypeOK, RetryDelays
  <2>2. CASE Retry(m)
    <3>1. retries[m] + 1 \in 0..Len(RetryDelays) /\ retries' = [retries EXCEPT ![m] = retries[m] + 1]
      BY <2>1, <2>2 DEF Retry
    <3>2. QED  BY <2>1, <3>1
  <2>3. CASE GiveUp(m)
    BY <2>1, <2>3 DEF GiveUp
  <2>4. QED  BY <2>2, <2>3
<1>4. Give(m) => lost' = lost + 1
  BY <1>1, NotAcceptedFacts, GiveChanges
<1>5. QED  BY <1>1, <1>2, <1>3, <1>4, NotAcceptedFacts, NotDoneKeeps

LEMMA CrashDeliveryKeeps ==
    ASSUME DeliveryInv, NEW m \in Message, CrashDelivery(m)
    PROVE  DeliveryInv'
<1>1. /\ crashes < MaxCrashes /\ crashes' = crashes + 1 /\ message' = message
      /\ UNCHANGED <<recipeVars, taskVars>> /\ retries' = retries /\ lost' = lost
      /\ received' = received \/ Give(m)
  BY DEF CrashDelivery
<1>2. /\ message \in [Message -> {"none", "queued", "done", "failed"}]
      /\ retries \in [Message -> 0..Len(RetryDelays)] /\ lost \in 0..MaxLost
      /\ crashes \in 0..MaxCrashes
  BY DEF DeliveryInv, DeliveryTypeOK
<1>3. crashes' \in 0..MaxCrashes
  BY <1>1, <1>2, CrashesAssumption
<1>4. QED  BY <1>1, <1>2, <1>3, NotDoneKeeps

(***************************************************************************)
(* Delivery: every step                                                    *)
(***************************************************************************)
\* A request's step: the worker's side is as it was.
LEMMA RequestStepKeeps ==
    ASSUME DeliveryInv, RecipeNext, UNCHANGED deliveryVars
    PROVE  DeliveryInv'
<1>1. /\ task' = task /\ run' = run /\ carried' = carried /\ audience' = audience
      /\ message' = message /\ retries' = retries /\ received' = received
      /\ crashes' = crashes /\ lost' = lost /\ UNCHANGED taskVars
  BY DEF deliveryVars, taskVars, messageVars
<1>2. RecipeInv
  BY DEF DeliveryInv
<1>3. DeliveryTypeOK'
  BY <1>1 DEF DeliveryInv, DeliveryTypeOK
<1>4. Read'
  <2> SUFFICES ASSUME NEW n \in Request
               PROVE  /\ fanout'[n] # "none" => pc'[n] # "idle"
                      /\ task[n] \in TaskRunning \cup {"done"} \/ audience[n] # {} => fanout'[n] # "none"
                      /\ task[n] \in TaskRunning \/ audience[n] # {} => recipe'[on'[n]].old # "absent"
                      /\ run[n] <= 1 + crashes
    BY <1>1 DEF Read
  <2>1. /\ fanout[n] # "none" => pc[n] # "idle"
        /\ task[n] \in TaskRunning \cup {"done"} \/ audience[n] # {} => fanout[n] # "none"
        /\ task[n] \in TaskRunning \/ audience[n] # {} => recipe[on[n]].old # "absent"
        /\ run[n] <= 1 + crashes
    BY DEF DeliveryInv, Read
  <2>2. /\ pc[n] # "idle" => pc'[n] # "idle" /\ on'[n] = on[n] /\ on[n] \in Recipe
        /\ fanout[n] # "none" => fanout'[n] # "none"
        /\ fanout'[n] # "none" => fanout[n] # "none" \/ pc'[n] # "idle"
    BY <1>2, RecipeNextKeeps DEF RecipeInv, InHand
  <2>3. task[n] \in TaskRunning \/ audience[n] # {} => on'[n] = on[n] /\ on[n] \in Recipe
    BY <2>1, <2>2
  <2>4. task[n] \in TaskRunning \/ audience[n] # {} => recipe'[on'[n]].old # "absent"
    BY <1>2, <2>1, <2>3, RecipeNextKeeps
  <2>5. QED  BY <2>1, <2>2, <2>4
<1>5. Sent'
  BY <1>1, SentStays DEF DeliveryInv
<1>6. Counted'
  <2>1. Counted
    BY DEF DeliveryInv
  <2>2. \A n \in Request : \A i \in Inbox : Accepted(n, i)' = Accepted(n, i)
    BY <1>1 DEF Accepted
  <2> HIDE DEF Accepted
  <2>3. QED  BY <1>1, <2>1, <2>2 DEF Counted
<1>7. QED  BY <1>2, <1>3, <1>4, <1>5, <1>6, RecipeNextKeeps DEF DeliveryInv

LEMMA StillKeeps ==
    ASSUME DeliveryInv, UNCHANGED vars
    PROVE  DeliveryInv'
<1>1. /\ UNCHANGED recipeVars /\ UNCHANGED taskVars
      /\ task' = task /\ run' = run /\ carried' = carried /\ audience' = audience
      /\ message' = message /\ retries' = retries /\ received' = received
      /\ crashes' = crashes /\ lost' = lost
  BY DEF vars, deliveryVars, taskVars, messageVars
<1>2. RecipeInv'
  BY <1>1, NothingKeeps DEF DeliveryInv
<1>3. DeliveryTypeOK'
  BY <1>1 DEF DeliveryInv, DeliveryTypeOK
<1>4. recipe' = recipe /\ on' = on /\ pc' = pc /\ fanout' = fanout
  BY <1>1 DEF recipeVars
<1>5. Read'
  BY <1>1, <1>4 DEF DeliveryInv, Read
<1>6. Sent'
  BY <1>1, SentStays DEF DeliveryInv
<1>7. Counted'
  <2>1. Counted
    BY DEF DeliveryInv
  <2>2. \A n \in Request : \A i \in Inbox : Accepted(n, i)' = Accepted(n, i)
    BY <1>1 DEF Accepted
  <2> HIDE DEF Accepted
  <2>3. QED  BY <1>1, <2>1, <2>2 DEF Counted
<1>8. QED  BY <1>2, <1>3, <1>5, <1>6, <1>7 DEF DeliveryInv

LEMMA DeliveryStarts ==
    ASSUME Init
    PROVE  DeliveryInv
<1>1. RecipeInv
  BY InitEstablishes DEF Init
<1>2. DeliveryTypeOK
  <2>1. Len(RetryDelays) = 3 /\ 1 \in Run
    BY CrashesAssumption DEF RetryDelays, Run
  <2>2. QED
    BY <2>1, CrashesAssumption, LostAssumption DEF Init, DeliveryInit, DeliveryTypeOK
<1>3. Read
  BY DEF Init, RecipeInit, DeliveryInit, Read, TaskRunning
<1>4. Sent
  BY DEF Init, DeliveryInit, Sent, Message
<1>5. Counted
  <2> SUFFICES ASSUME NEW n \in Request, NEW i \in Inbox
               PROVE  received[<<n, i>>] + run[n] <= Cardinality(Accepted(n, i)) + 1 + crashes + lost
    BY DEF Counted
  <2>1. Cardinality(Accepted(n, i)) \in Nat
    BY AcceptedFacts
  <2>2. received[<<n, i>>] = 0 /\ run[n] = 1 /\ crashes = 0 /\ lost = 0
    BY DEF Init, DeliveryInit
  <2> HIDE DEF Accepted
  <2>3. QED  BY <2>1, <2>2
<1>6. QED  BY <1>1, <1>2, <1>3, <1>4, <1>5 DEF DeliveryInv

\* The inductive invariant of the deliveries: each run's messages are for its audience, and
\* what an inbox was given is accounted for.
THEOREM DeliveryInvariant == Spec => []DeliveryInv
<1>1. Init => DeliveryInv
  BY DeliveryStarts
<1>2. ASSUME DeliveryInv, [Next]_vars
      PROVE  DeliveryInv'
  <2>1. ASSUME NEW n \in Request, TaskStep(n) \/ CrashTask(n)
        PROVE  DeliveryInv'
    BY <1>2, <2>1, FanReadKeeps, FanFollowersKeeps, FanSendKeeps, FanEndKeeps, CrashTaskKeeps
       DEF TaskStep
  <2>2. ASSUME NEW m \in Message, MessageStep(m) \/ CrashDelivery(m)
        PROVE  DeliveryInv'
    BY <1>2, <2>2, DeliveredKeeps, RetryKeeps, CrashDeliveryKeeps DEF MessageStep
  <2>3. QED  BY <1>2, <2>1, <2>2, RequestStepKeeps, StillKeeps DEF Next
<1>3. QED  BY <1>1, <1>2, PTL DEF Spec

\* The type invariant of the tables, the requests and the tasks they feed: no message is
\* retried more than the schedule has delays.
THEOREM DeliveryTypeCorrect == Spec => []SystemTypeOK
<1>1. DeliveryInv => SystemTypeOK
  BY DEF DeliveryInv, RecipeInv, SystemTypeOK
<1>2. QED  BY <1>1, DeliveryInvariant, PTL

LEMMA NobodyLeftOut ==
    ASSUME DeliveryInv
    PROVE  FanOutComplete
<1> SUFFICES ASSUME NEW n \in Request, task[n] = "done", NEW f \in audience[n]
             PROVE  \E m \in Message : m[1] = n /\ InboxOf[m[2]] = InboxOf[f] /\ message[m] # "none"
  BY DEF FanOutComplete
<1>1. audience[n] \in SUBSET Follower /\ run[n] \in Run
  BY DEF DeliveryInv, DeliveryTypeOK
<1>2. PICK u \in UniqueInboxes(audience[n]) : InboxOf[u] = InboxOf[f]
  BY <1>1, OneForEachInbox
<1>3. u \in Follower
  BY <1>1, <1>2, OneForEachInbox
<1>4. message[<<n, u, run[n]>>] # "none"
  BY <1>1, <1>2, <1>3 DEF DeliveryInv, Sent
<1>5. <<n, u, run[n]>> \in Message
  BY <1>1, <1>3 DEF Message
<1>6. QED  BY <1>2, <1>4, <1>5

\* When a fan-out is over, however many workers were lost on the way, every inbox of the
\* followers it read has a message of its own.
THEOREM FanOutsComplete == Spec => []FanOutComplete
<1>1. DeliveryInv => FanOutComplete
  BY NobodyLeftOut
<1>2. QED  BY <1>1, DeliveryInvariant, PTL

LEMMA EveryRepeatCounted ==
    ASSUME DeliveryInv
    PROVE  RepeatsExplained
<1> SUFFICES ASSUME NEW n \in Request, NEW i \in Inbox
             PROVE  received[<<n, i>>] <= 1 + crashes + lost
  BY DEF RepeatsExplained
<1>1. /\ received[<<n, i>>] + run[n] <= Cardinality(Accepted(n, i)) + 1 + crashes + lost
      /\ received[<<n, i>>] \in Nat /\ run[n] \in Nat /\ crashes \in Nat /\ lost \in Nat
  BY RunFacts, CrashesAssumption, LostAssumption DEF DeliveryInv, DeliveryTypeOK, Counted
<1>2. Accepted(n, i) \subseteq 1..run[n]
  <2> SUFFICES ASSUME NEW r \in Accepted(n, i) PROVE r \in 1..run[n]
    OBVIOUS
  <2>1. r \in Run /\ \E f \in Follower : message[<<n, f, r>>] = "done"
    BY DEF Accepted
  <2>2. r <= run[n]
    BY <2>1 DEF DeliveryInv, Sent
  <2>3. QED  BY <1>1, <2>1, <2>2, RunFacts
<1>3. Cardinality(1..run[n]) = run[n] /\ IsFiniteSet(1..run[n])
  <2>1. run[n] >= 1
    BY RunFacts DEF DeliveryInv, DeliveryTypeOK
  <2>2. PICK k \in Nat : k = run[n] /\ k >= 1
    BY <1>1, <2>1
  <2>3. IsFiniteSet(1..k) /\ Cardinality(1..k) = k
    <3>1. Cardinality(1..k) = IF 1 > k THEN 0 ELSE k - 1 + 1
      BY FS_Interval
    <3>2. QED  BY <2>2, <3>1, FS_Interval
  <2>4. QED  BY <2>2, <2>3
<1>4. Cardinality(Accepted(n, i)) <= run[n] /\ Cardinality(Accepted(n, i)) \in Nat
  BY <1>2, <1>3, AcceptedFacts, FS_Subset
<1> HIDE DEF Accepted
<1>5. QED  BY <1>1, <1>4

\* An inbox is given an activity once, and once more for each worker lost and each answer
\* lost: retries and followers who share an inbox never repeat it.
THEOREM RepeatsAreExplained == Spec => []RepeatsExplained
<1>1. DeliveryInv => RepeatsExplained
  BY EveryRepeatCounted
<1>2. QED  BY <1>1, DeliveryInvariant, PTL
=============================================================================
