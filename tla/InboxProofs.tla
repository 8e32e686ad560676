----------------------------- MODULE InboxProofs ------------------------------
(***************************************************************************)
(* Proofs about Inbox for every set of servers and recipes and every bound:*)
(* an activity that got past record_instance has its domain to itself, and *)
(* therefore what is stored is what serving the activities one after       *)
(* another would have stored.                                              *)
(***************************************************************************)
EXTENDS Inbox, TLAPS

(***************************************************************************)
(* Type correctness                                                        *)
(***************************************************************************)
ServingPC == {"admitted", "accept", "undo", "commit"}

\* What an activity carries while it is served.
Carries ==
    \A n \in Activity :
        /\ pc[n] # "idle" => sender[n] \in Domain
        /\ check[n] # "none" => sender[n] \in Domain
        /\ pc[n] \in Running => message[n] \in Message /\ message[n].key[1] = sender[n]
        /\ pc[n] = "undo" => found[n] \in Key \X Identity /\ message[n].verb = "Undo"
        /\ pc[n] = "accept" => message[n].verb = "Do"
        /\ n > arrived => pc[n] = "idle"

Typed == InboxTypeOK /\ Carries

LEMMA TxnFacts ==
    /\ Activity \subseteq Txn /\ Nobody \notin Txn
    /\ \A n \in Activity : n # Nobody /\ n \in Nat /\ Checker(n) \in Txn
    /\ \A m, n \in Activity : Checker(m) # n
  BY ActivitiesAssumption DEF Activity, Txn, Checker, Nobody

LEMMA KeyFacts ==
    /\ \A k \in Key : k[1] \in Domain /\ LookedUp(k) \subseteq Key /\ k \in LookedUp(k)
    /\ \A k \in Key : \A j \in LookedUp(k) : j[1] = k[1]
    /\ Absent \notin Identity /\ Activity \subseteq Identity
  BY ActivitiesAssumption DEF Key, LookedUp, Absent, Identity, Activity, Earlier

LEMMA WriteTyped ==
    ASSUME NEW V, NEW T, NEW K, NEW tbl \in [K -> Versions(V, T)],
           NEW k \in K, NEW v \in V, NEW t \in T
    PROVE  Write(tbl, k, v, t) \in [K -> Versions(V, T)]
  BY DEF Versions, Write

LEMMA SettledTyped ==
    ASSUME NEW V, NEW T, NEW K, NEW tbl \in [K -> Versions(V, T)], NEW t
    PROVE  /\ CommitRows(tbl, t) \in [K -> Versions(V, T)]
           /\ RollbackRows(tbl, t) \in [K -> Versions(V, T)]
  BY DEF Versions, CommitRows, RollbackRows, Committed

LEMMA KnownWriteTyped ==
    ASSUME Typed, NEW d \in Domain, NEW v \in Instance, NEW t \in Txn
    PROVE  Write(known, d, v, t) \in [Domain -> Versions(Instance, Txn)]
  BY WriteTyped DEF Typed, InboxTypeOK, KnownTypeOK

LEMMA RowWriteTyped ==
    ASSUME Typed, NEW k \in Key, NEW v \in Identity \cup {Absent}, NEW t \in Activity
    PROVE  Write(row, k, v, t) \in [Key -> Versions(Identity \cup {Absent}, Activity)]
  BY WriteTyped DEF Typed, InboxTypeOK

LEMMA ServeTyped ==
    ASSUME Typed, NEW n \in Activity, pc[n] \in Running, Serve(n)
    PROVE  due' \in [Key -> Identity \cup {Absent}] /\ crossed' \subseteq Key
<1>1. /\ due \in [Key -> Identity \cup {Absent}] /\ crossed \subseteq Key
      /\ message[n].key \in Key /\ n \in Identity
  BY KeyFacts DEF Typed, InboxTypeOK, Carries, Message
<1>2. due' \in [Key -> Identity \cup {Absent}]
  BY <1>1 DEF Serve, DueAfter
<1>3. crossed' \subseteq Key
  BY <1>1, KeyFacts DEF Serve
<1>4. QED  BY <1>2, <1>3

\* A step of activity n that stays in its own variables.
LEMMA LocalTyped ==
    ASSUME Typed, NEW n \in Activity, pc[n] \in Running,
           NEW there \in Running \cup Ended, Goto(n, there),
           known' \in [Domain -> Versions(Instance, Txn)],
           row' \in [Key -> Versions(Identity \cup {Absent}, Activity)],
           due' \in [Key -> Identity \cup {Absent}], crossed' \subseteq Key,
           UNCHANGED <<checkVars, arrived, faults, message>>,
           found' \in [Activity -> (Key \X Identity) \cup {Nothing}],
           \A m \in Activity \ {n} : found'[m] = found[m],
           there = "undo" => found'[n] \in Key \X Identity /\ message[n].verb = "Undo",
           there = "accept" => message[n].verb = "Do"
    PROVE  Typed'
<1>1. InboxTypeOK'
  BY DEF Typed, InboxTypeOK, KnownTypeOK, Goto, checkVars
<1>2. Carries'
  BY DEF Typed, InboxTypeOK, Carries, Goto, checkVars, Running, Ended, RecordPC
<1>3. QED  BY <1>1, <1>2 DEF Typed

LEMMA EndTyped ==
    ASSUME Typed, NEW n \in Activity, pc[n] \in Running,
           NEW there \in Ended, End(n, there),
           known' \in [Domain -> Versions(Instance, Txn)],
           row' \in [Key -> Versions(Identity \cup {Absent}, Activity)],
           due' \in [Key -> Identity \cup {Absent}], crossed' \subseteq Key, faults' \in 0..MaxFaults
    PROVE  Typed'
<1>1. InboxTypeOK'
  BY DEF Typed, InboxTypeOK, KnownTypeOK, End, Goto, checkVars
<1>2. Carries'
  BY DEF Typed, InboxTypeOK, Carries, End, Goto, checkVars, Running, Ended, RecordPC
<1>3. QED  BY <1>1, <1>2 DEF Typed

LEMMA RollbackTyped ==
    ASSUME Typed, NEW n \in Activity, pc[n] \in Running, NEW there \in Ended, Rollback(n, there),
           due' \in [Key -> Identity \cup {Absent}], crossed' \subseteq Key, faults' \in 0..MaxFaults
    PROVE  Typed'
<1>1. /\ known' \in [Domain -> Versions(Instance, Txn)]
      /\ row' \in [Key -> Versions(Identity \cup {Absent}, Activity)]
  BY SettledTyped DEF Rollback, Typed, InboxTypeOK, KnownTypeOK
<1>2. QED  BY <1>1, EndTyped DEF Rollback

LEMMA CheckTyped ==
    ASSUME Typed, NEW n \in Activity, TaskStep(n) \/ (CheckDie(n) /\ UNCHANGED inboxVars)
    PROVE  Typed'
<1>1. Checker(n) \in Txn
  BY TxnFacts
<1>2. check[n] # "none" => sender[n] \in Domain
  BY DEF Typed, Carries
<1>3. UNCHANGED <<pc, sender, arrived, inboxVars>> /\ check[n] # "none"
  BY DEF TaskStep, CheckStep, CheckRead, CheckInsert, CheckUpdate, CheckCommit, CheckDie, CheckPC
<1>4. known' \in [Domain -> Versions(Instance, Txn)]
  <2>1. known \in [Domain -> Versions(Instance, Txn)]
    BY DEF Typed, InboxTypeOK, KnownTypeOK
  <2>2. CASE CheckInsert(n) \/ CheckUpdate(n)
    <3>1. "seen" \in Instance /\ "checked" \in Instance /\ sender[n] \in Domain
      BY <1>2, <1>3 DEF Instance
    <3>2. Write(known, sender[n], "seen", Checker(n)) \in [Domain -> Versions(Instance, Txn)]
      BY <1>1, <3>1, KnownWriteTyped
    <3>3. Write(known, sender[n], "checked", Checker(n)) \in [Domain -> Versions(Instance, Txn)]
      BY <1>1, <3>1, KnownWriteTyped
    <3>4. QED  BY <2>1, <2>2, <3>2, <3>3 DEF CheckInsert, CheckUpdate
  <2>3. CASE CheckCommit(n) \/ CheckDie(n)
    BY <2>1, <2>3, SettledTyped DEF CheckCommit, CheckDie
  <2>4. CASE CheckRead(n)
    BY <2>1, <2>4 DEF CheckRead
  <2>5. QED  BY <2>2, <2>3, <2>4 DEF TaskStep, CheckStep
<1>5. check' \in [Activity -> {"none", "done"} \cup CheckPC] /\ \A m \in Activity \ {n} : check'[m] = check[m]
  BY DEF TaskStep, CheckStep, CheckRead, CheckInsert, CheckUpdate, CheckCommit, CheckDie, Typed,
         InboxTypeOK, KnownTypeOK, CheckPC
<1>6. faults' \in 0..MaxFaults
  BY FaultsAssumption DEF TaskStep, CheckStep, CheckRead, CheckInsert, CheckUpdate, CheckCommit,
     CheckDie, Typed, InboxTypeOK, KnownTypeOK
<1>7. InboxTypeOK'
  BY <1>3, <1>4, <1>5, <1>6 DEF Typed, InboxTypeOK, KnownTypeOK, inboxVars
<1>8. Carries'
  BY <1>2, <1>3, <1>5 DEF Typed, Carries, inboxVars
<1>9. QED  BY <1>7, <1>8 DEF Typed

LEMMA DeliverTyped ==
    ASSUME Typed, NEW n \in Activity, NEW m \in Message, Deliver(n, m)
    PROVE  Typed'
<1>1. m.key[1] \in Domain
  BY KeyFacts DEF Message
<1>2. /\ arrived' = n /\ n = arrived + 1 /\ arrived \in Nat /\ n \in Nat /\ arrived' \in 0..MaxActivities
  BY ActivitiesAssumption DEF Deliver, Receive, Activity, Typed, InboxTypeOK, KnownTypeOK
<1>3. InboxTypeOK'
  BY <1>1, <1>2
  DEF Deliver, Receive, Goto, Typed, InboxTypeOK, KnownTypeOK, Running, RecordPC, CheckPC
<1>4. Carries'
  BY <1>1, <1>2, TxnFacts
  DEF Deliver, Receive, Goto, Typed, InboxTypeOK, KnownTypeOK, Carries, Running, RecordPC
<1>5. QED  BY <1>3, <1>4 DEF Typed

LEMMA ServingTyped ==
    ASSUME Typed, NEW n \in Activity,
           InboxStep(n) \/ AcceptAnswered(n) \/ Refuse(n) \/ Die(n)
    PROVE  Typed'
<1>1. /\ n \in Txn
      /\ pc[n] \in Running => sender[n] \in Domain /\ message[n] \in Message /\ message[n].key \in Key
                              /\ message[n].verb \in {"Do", "Undo"}
  BY TxnFacts DEF Typed, Carries, Running, RecordPC, Message
<1>2. /\ known \in [Domain -> Versions(Instance, Txn)]
      /\ row \in [Key -> Versions(Identity \cup {Absent}, Activity)]
      /\ due \in [Key -> Identity \cup {Absent}] /\ crossed \subseteq Key /\ faults \in 0..MaxFaults
      /\ found \in [Activity -> (Key \X Identity) \cup {Nothing}]
  BY DEF Typed, InboxTypeOK, KnownTypeOK
<1> USE DEF Running, RecordPC, Ended
<1>3. CASE RecordStep(n) /\ UNCHANGED inboxVars
  <2>1. known' \in [Domain -> Versions(Instance, Txn)]
    <3>1. "seen" \in Instance /\ sender[n] \in Domain
      BY <1>1, <1>3 DEF Instance, RecordStep, RecordInsert, RecordUpdate
    <3>2. known[sender[n]].new \in Instance
      BY <1>2, <3>1 DEF Versions
    <3>3. Write(known, sender[n], "seen", n) \in [Domain -> Versions(Instance, Txn)]
      BY <1>1, <3>1, KnownWriteTyped
    <3>4. Write(known, sender[n], known[sender[n]].new, n) \in [Domain -> Versions(Instance, Txn)]
      BY <1>1, <3>1, <3>2, KnownWriteTyped
    <3>5. QED  BY <1>2, <1>3, <3>3, <3>4 DEF RecordStep, RecordInsert, RecordUpdate
  <2>2. PICK there \in {"admitted", "poisoned"} : Goto(n, there)
    BY <1>3 DEF RecordStep, RecordInsert, RecordUpdate
  <2>3. pc[n] \in Running /\ UNCHANGED <<checkVars, arrived, faults, inboxVars>>
    BY <1>3 DEF RecordStep, RecordInsert, RecordUpdate
  <2>4. QED  BY <1>2, <2>1, <2>2, <2>3, LocalTyped DEF inboxVars
<1>4. CASE Poisoned(n) \/ Refuse(n)
  BY <1>2, <1>4, RollbackTyped DEF Poisoned, Refuse
<1>5. CASE Die(n)
  BY <1>2, <1>5, RollbackTyped, FaultsAssumption DEF Die
<1>6. CASE Insert(n)
  <2>1. CASE row[message[n].key].new = Absent
    <3>1. row' \in [Key -> Versions(Identity \cup {Absent}, Activity)]
      <4>1. message[n].key \in Key /\ n \in Identity \cup {Absent}
        BY <1>1, <1>6, KeyFacts DEF Insert
      <4>2. Write(row, message[n].key, n, n) \in [Key -> Versions(Identity \cup {Absent}, Activity)]
        BY <4>1, RowWriteTyped
      <4>3. QED  BY <1>6, <2>1, <4>2 DEF Insert
    <3>2. QED  BY <1>2, <1>6, <2>1, <3>1, LocalTyped DEF Insert
  <2>2. CASE row[message[n].key].new # Absent
    <3>1. due' \in [Key -> Identity \cup {Absent}] /\ crossed' \subseteq Key
      BY <1>2, <1>6, <2>2, ServeTyped DEF Insert
    <3>2. QED  BY <1>2, <1>6, <2>2, <3>1, RollbackTyped DEF Insert
  <2>3. QED  BY <2>1, <2>2
<1>7. CASE AcceptAnswered(n) \/ AcceptTimeout(n)
  BY <1>2, <1>7, LocalTyped DEF AcceptAnswered, AcceptTimeout, inboxVars
<1>8. CASE UndoRead(n)
  <2>1. CASE Goto(n, "commit") /\ UNCHANGED <<known, checkVars, arrived, row, message, found>>
    BY <1>2, <1>8, <2>1, LocalTyped DEF UndoRead
  <2>2. ASSUME NEW k \in LookedUp(message[n].key), row[k].old # Absent, Goto(n, "undo"),
               found' = [found EXCEPT ![n] = <<k, row[k].old>>],
               UNCHANGED <<known, checkVars, arrived, row, message>>
        PROVE  Typed'
    <3>1. <<k, row[k].old>> \in Key \X Identity
      BY <1>1, <1>2, <1>8, <2>2, KeyFacts DEF UndoRead, Versions
    <3>2. QED  BY <1>2, <1>8, <2>2, <3>1, LocalTyped DEF UndoRead
  <2>3. CASE Rollback(n, "failed")
    BY <1>2, <1>8, <2>3, RollbackTyped DEF UndoRead
  <2>4. QED  BY <1>8, <2>1, <2>2, <2>3 DEF UndoRead
<1>9. CASE UndoDelete(n)
  <2>1. found[n][1] \in Key
    BY <1>9 DEF UndoDelete, Typed, Carries
  <2>2. row' \in [Key -> Versions(Identity \cup {Absent}, Activity)]
    <3>1. Write(row, found[n][1], Absent, n) \in [Key -> Versions(Identity \cup {Absent}, Activity)]
      BY <2>1, RowWriteTyped
    <3>2. QED  BY <1>2, <1>9, <3>1 DEF UndoDelete
  <2>3. QED  BY <1>2, <1>9, <2>2, LocalTyped DEF UndoDelete
<1>10. CASE Commit(n)
  <2>1. /\ known' \in [Domain -> Versions(Instance, Txn)]
        /\ row' \in [Key -> Versions(Identity \cup {Absent}, Activity)]
    BY <1>2, <1>10, SettledTyped DEF Commit
  <2>2. due' \in [Key -> Identity \cup {Absent}] /\ crossed' \subseteq Key
    BY <1>10, ServeTyped DEF Commit
  <2>3. QED  BY <1>2, <1>10, <2>1, <2>2, EndTyped DEF Commit
<1>11. QED
  BY <1>3, <1>4, <1>5, <1>6, <1>7, <1>8, <1>9, <1>10 DEF InboxStep

LEMMA TypedInvariant == Safety => []Typed
<1>1. Init => Typed
  <2>1. SUFFICES ASSUME Init
                 PROVE  Typed
    OBVIOUS
  <2>2. InboxTypeOK
    <3>1. known \in [Domain -> Versions(Instance, Txn)]
      <4>1. PICK was \in [Domain -> Instance] : known = [d \in Domain |-> Committed(was[d])]
        BY <2>1 DEF Init, KnownInit
      <4>2. \A d \in Domain : Committed(was[d]) \in Versions(Instance, Txn)
        BY DEF Committed, Versions
      <4>3. QED  BY <4>1, <4>2
    <3>2. /\ row \in [Key -> Versions(Identity \cup {Absent}, Activity)]
          /\ due \in [Key -> Identity \cup {Absent}] /\ crossed \subseteq Key
      <4>1. PICK there \in SUBSET Key :
              /\ row = [k \in Key |-> Committed(IF k \in there THEN Earlier ELSE Absent)]
              /\ due = [k \in Key |-> IF k \in there THEN Earlier ELSE Absent]
        BY <2>1 DEF Init
      <4>2. \A v \in Identity \cup {Absent} : Committed(v) \in Versions(Identity \cup {Absent}, Activity)
        BY DEF Committed, Versions
      <4>3. \A k \in Key : (IF k \in there THEN Earlier ELSE Absent) \in Identity \cup {Absent}
        BY DEF Identity
      <4>4. QED  BY <2>1, <4>1, <4>2, <4>3 DEF Init
    <3>3. KnownTypeOK
      BY <2>1, <3>1, ActivitiesAssumption, FaultsAssumption DEF Init, KnownInit, KnownTypeOK
    <3>4. /\ pc \in [Activity -> {"idle"} \cup Running \cup Ended]
          /\ message \in [Activity -> Message \cup {Nothing}]
          /\ found \in [Activity -> (Key \X Identity) \cup {Nothing}]
      BY <2>1 DEF Init, KnownInit
    <3>5. QED  BY <3>2, <3>3, <3>4 DEF InboxTypeOK
  <2>3. Carries
    BY <2>1 DEF Init, KnownInit, Carries, Running, RecordPC
  <2>4. QED  BY <2>2, <2>3 DEF Typed
<1>2. ASSUME Typed, [Next]_vars
      PROVE  Typed'
  <2>1. CASE UNCHANGED vars
    BY <1>2, <2>1
    DEF vars, knownVars, inboxVars, Typed, InboxTypeOK, KnownTypeOK, Carries
  <2>2. QED
    BY <1>2, <2>1, CheckTyped, DeliverTyped, ServingTyped DEF Next, Quiescent
<1>3. QED  BY <1>1, <1>2, PTL DEF Safety

\* Type correctness of the inbox, its tables and the NodeInfo tasks.
THEOREM InboxTypeCorrect == Spec => []InboxTypeOK
  BY TypedInvariant, PTL DEF Spec, Typed

(***************************************************************************)
(* One activity of a domain at a time.  The row of known_instances is the  *)
(* lock: whoever is past record_instance holds it until its transaction    *)
(* ends, and a NodeInfo task that wants to write it waits as well.         *)
(***************************************************************************)
Holding == \A n \in Activity : pc[n] \in ServingPC => known[sender[n]].by = n

LEMMA HeldAgainstWrites ==
    ASSUME Typed, Holding, NEW d \in Domain, NEW v, NEW t \in Txn,
           MayWrite(known, d, t), known' = Write(known, d, v, t),
           NEW m \in Activity, m # t, pc[m] \in ServingPC
    PROVE  known'[sender[m]].by = m
<1>1. sender[m] \in Domain /\ known[sender[m]].by = m
  BY DEF Typed, Carries, Holding, ServingPC
<1>2. sender[m] # d
  BY <1>1, TxnFacts DEF MayWrite
<1>3. QED  BY <1>1, <1>2 DEF Write, Typed, InboxTypeOK, KnownTypeOK

LEMMA HeldAgainstSettling ==
    ASSUME Typed, Holding, NEW t,
           known' = CommitRows(known, t) \/ known' = RollbackRows(known, t),
           NEW m \in Activity, m # t, pc[m] \in ServingPC
    PROVE  known'[sender[m]].by = m
<1>1. sender[m] \in DOMAIN known /\ known[sender[m]].by = m
  BY DEF Typed, Carries, Holding, ServingPC, InboxTypeOK, KnownTypeOK
<1>2. QED  BY <1>1 DEF CommitRows, RollbackRows

\* No step of another activity, and no task, takes the row from who holds it.
LEMMA OthersHold ==
    ASSUME Typed, Holding, NEW n \in Activity, NEW m \in Activity, pc[m] \in ServingPC,
           \/ m # n /\ (InboxStep(n) \/ AcceptAnswered(n) \/ Refuse(n) \/ Die(n))
           \/ TaskStep(n) \/ (CheckDie(n) /\ UNCHANGED inboxVars)
    PROVE  known'[sender[m]].by = m
<1>1. Checker(n) \in Txn /\ n \in Txn /\ m # Checker(n)
  BY TxnFacts
<1>2. known[sender[m]].by = m
  BY DEF Holding
<1>3. CASE m # n /\ RecordStep(n)
  <2>1. MayWrite(known, sender[n], n) /\ sender[n] \in Domain
    BY <1>3 DEF RecordStep, RecordInsert, RecordUpdate, Typed, Carries
  <2>2. \/ known' = known
        \/ known' = Write(known, sender[n], "seen", n)
        \/ known' = Write(known, sender[n], known[sender[n]].new, n)
    BY <1>3 DEF RecordStep, RecordInsert, RecordUpdate
  <2>3. QED  BY <1>1, <1>2, <1>3, <2>1, <2>2, HeldAgainstWrites
<1>4. CASE m # n /\ (Poisoned(n) \/ Refuse(n) \/ Die(n) \/ Commit(n))
  BY <1>4, HeldAgainstSettling DEF Poisoned, Refuse, Die, Commit, Rollback
<1>5. CASE m # n /\ (Insert(n) \/ UndoRead(n))
  <2>1. known' = known \/ known' = RollbackRows(known, n)
    BY <1>5 DEF Insert, UndoRead, Rollback
  <2>2. QED  BY <1>2, <1>5, <2>1, HeldAgainstSettling
<1>6. CASE AcceptTimeout(n) \/ AcceptAnswered(n) \/ UndoDelete(n)
  BY <1>2, <1>6 DEF AcceptTimeout, AcceptAnswered, UndoDelete
<1>7. CASE CheckInsert(n) \/ CheckUpdate(n)
  <2>1. MayWrite(known, sender[n], Checker(n)) /\ sender[n] \in Domain
    BY <1>7 DEF CheckInsert, CheckUpdate, Typed, Carries
  <2>2. \/ known' = known
        \/ known' = Write(known, sender[n], "seen", Checker(n))
        \/ known' = Write(known, sender[n], "checked", Checker(n))
    BY <1>7 DEF CheckInsert, CheckUpdate
  <2>3. QED  BY <1>1, <1>2, <2>1, <2>2, HeldAgainstWrites
<1>8. CASE CheckCommit(n) \/ CheckDie(n)
  BY <1>1, <1>8, HeldAgainstSettling DEF CheckCommit, CheckDie
<1>9. CASE CheckRead(n)
  BY <1>2, <1>9 DEF CheckRead
<1>10. QED
  BY <1>3, <1>4, <1>5, <1>6, <1>7, <1>8, <1>9 DEF InboxStep, TaskStep, CheckStep

LEMMA HoldingKept ==
    ASSUME Typed, Holding, [Next]_vars
    PROVE  Holding'
<1>1. CASE UNCHANGED vars
  BY <1>1 DEF vars, knownVars, Holding
<1>2. ASSUME NEW n \in Activity, NEW m \in Message, Deliver(n, m)
      PROVE  Holding'
  <2>1. pc[n] = "idle" /\ pc'[n] \notin ServingPC
    BY <1>2, TxnFacts
    DEF Deliver, Receive, Goto, Typed, Carries, InboxTypeOK, KnownTypeOK, ServingPC
  <2>2. \A j \in Activity \ {n} : pc'[j] = pc[j] /\ sender'[j] = sender[j]
    BY <1>2 DEF Deliver, Receive, Goto, Typed, InboxTypeOK, KnownTypeOK
  <2>3. QED  BY <1>2, <2>1, <2>2 DEF Deliver, Receive, Holding
<1>3. ASSUME NEW n \in Activity, TaskStep(n) \/ (CheckDie(n) /\ UNCHANGED inboxVars)
      PROVE  Holding'
  <2>1. UNCHANGED <<pc, sender>>
    BY <1>3 DEF TaskStep, CheckStep, CheckRead, CheckInsert, CheckUpdate, CheckCommit, CheckDie
  <2>2. QED  BY <1>3, <2>1, OthersHold DEF Holding
<1>4. ASSUME NEW n \in Activity, InboxStep(n) \/ AcceptAnswered(n) \/ Refuse(n) \/ Die(n)
      PROVE  Holding'
  <2>1. sender' = sender /\ \A j \in Activity \ {n} : pc'[j] = pc[j]
    BY <1>4
    DEF InboxStep, RecordStep, RecordInsert, RecordUpdate, Poisoned, Insert, AcceptTimeout,
        AcceptAnswered, UndoRead, UndoDelete, Commit, Refuse, Die, Rollback, End, Goto, checkVars,
        Typed, InboxTypeOK
  <2>2. pc'[n] \in ServingPC => known'[sender[n]].by = n
    <3>1. CASE RecordStep(n)
      BY <3>1
      DEF RecordStep, RecordInsert, RecordUpdate, Write, Goto, ServingPC, Typed, InboxTypeOK,
          KnownTypeOK, Carries
    <3>2. CASE Poisoned(n) \/ Refuse(n) \/ Die(n) \/ Commit(n)
      BY <3>2 DEF Poisoned, Refuse, Die, Commit, Rollback, End, Goto, ServingPC, Typed, InboxTypeOK
    <3>3. CASE Insert(n) \/ UndoRead(n)
      BY <3>3
      DEF Insert, UndoRead, Rollback, End, Goto, ServingPC, Typed, InboxTypeOK, Holding
    <3>4. CASE AcceptTimeout(n) \/ AcceptAnswered(n) \/ UndoDelete(n)
      BY <3>4 DEF AcceptTimeout, AcceptAnswered, UndoDelete, ServingPC, Holding
    <3>5. QED  BY <1>4, <3>1, <3>2, <3>3, <3>4 DEF InboxStep
  <2>3. \A j \in Activity \ {n} : pc[j] \in ServingPC => known'[sender[j]].by = j
    BY <1>4, OthersHold
  <2>4. QED  BY <2>1, <2>2, <2>3 DEF Holding
<1>5. QED  BY <1>1, <1>2, <1>3, <1>4 DEF Next, Quiescent

LEMMA Alone == Holding => ServedAlone
  BY TxnFacts DEF Holding, ServedAlone, ServingPC

\* Past record_instance an activity has its domain to itself, whatever the number
\* of servers, activities and deaths.
THEOREM DomainServedAlone == Spec => []ServedAlone
<1>1. Init => Holding
  BY DEF Init, KnownInit, Holding, ServingPC
<1>2. Typed /\ Holding /\ [Next]_vars => Holding'
  BY HoldingKept
<1>3. Safety => []Holding
  BY <1>1, <1>2, TypedInvariant, PTL DEF Safety
<1>4. QED  BY <1>3, Alone, PTL DEF Spec

(***************************************************************************)
(* Serving in order.  Owns: what a row someone has written shows of who    *)
(* wrote it.  Sees: what an activity that is being served may rely on.     *)
(***************************************************************************)
Owns(n, k) ==
    \/ /\ pc[n] \in {"accept", "commit"} /\ message[n].verb = "Do"
       /\ message[n].key = k /\ row[k].new = n
    \/ /\ pc[n] = "commit" /\ message[n].verb = "Undo"
       /\ k \in LookedUp(message[n].key) /\ row[k].new = Absent

RowOK(k) ==
    /\ row[k].by = Nobody => row[k].new = row[k].old
    /\ \A n \in Activity : row[k].by = n => Owns(n, k)
    /\ due[k] = Absent => row[k].old = Absent
    /\ row[k].old = Absent => due[k] = Absent \/ k \in crossed

Sees(n) ==
    /\ pc[n] \in {"accept", "commit"} /\ message[n].verb = "Do" => row[message[n].key].by = n
    /\ pc[n] = "commit" /\ message[n].verb = "Undo" =>
         \A k \in LookedUp(message[n].key) : row[k].new = Absent
    /\ pc[n] = "undo" =>
         /\ found[n][1] \in LookedUp(message[n].key) /\ found[n][2] = row[found[n][1]].old
         /\ \A k \in LookedUp(message[n].key) \ {found[n][1]} : row[k].old = Absent

Rows == \A k \in Key : RowOK(k)
Sights == \A n \in Activity : Sees(n)
Good == Typed /\ Holding /\ Rows /\ Sights

\* The rows of a sender's domain belong to no other activity while it is served.
LEMMA OwnRows ==
    ASSUME Good, NEW n \in Activity, pc[n] \in ServingPC, NEW k \in Key, k[1] = sender[n]
    PROVE  /\ row[k].by \in {Nobody, n}
           /\ pc[n] \in {"admitted", "undo"} => row[k].by = Nobody /\ row[k].new = row[k].old
<1>1. row[k].by \in Activity \cup {Nobody}
  BY DEF Good, Typed, InboxTypeOK, Versions
<1>2. ASSUME NEW m \in Activity, row[k].by = m
      PROVE  m = n /\ pc[n] \in {"accept", "commit"}
  <2>1. Owns(m, k)
    BY <1>2 DEF Good, Rows, RowOK
  <2>2. pc[m] \in {"accept", "commit"} /\ message[m] \in Message /\ message[m].key[1] = sender[m]
    BY <2>1 DEF Owns, Good, Typed, Carries, Running
  <2>3. k[1] = sender[m]
    BY <2>1, <2>2, KeyFacts DEF Owns, Message
  <2>4. QED  BY <2>2, <2>3 DEF Good, Holding, ServingPC
<1>3. QED  BY <1>1, <1>2 DEF Good, Rows, RowOK

\* Activity n touches the variables of no other.
Local(n) ==
    \A m \in Activity \ {n} :
        pc'[m] = pc[m] /\ message'[m] = message[m] /\ found'[m] = found[m] /\ sender'[m] = sender[m]

\* Outside the served domain every row stays what it was.
Frame(n) == \A k \in Key : (pc[n] \in ServingPC /\ k[1] = sender[n]) \/ row'[k] = row[k]

LEMMA OthersSee ==
    ASSUME Good, NEW n \in Activity, Local(n), Frame(n), NEW m \in Activity, m # n
    PROVE  Sees(m)'
<1>1. Sees(m) /\ pc'[m] = pc[m] /\ message'[m] = message[m] /\ found'[m] = found[m]
  BY DEF Good, Sights, Local
<1>2. CASE pc[m] \in ServingPC
  <2>1. message[m].key \in Key /\ message[m].key[1] = sender[m]
    BY <1>2 DEF Good, Typed, Carries, ServingPC, Running, RecordPC, Message
  <2>2. ASSUME NEW k \in Key, k[1] = sender[m]
        PROVE  row'[k] = row[k]
    BY <1>2, <2>2 DEF Frame, Good, Holding
  <2>3. \A k \in LookedUp(message[m].key) : row'[k] = row[k]
    BY <2>1, <2>2, KeyFacts
  <2>4. row'[message[m].key] = row[message[m].key]
    BY <2>1, <2>2
  <2>5. QED  BY <1>1, <2>3, <2>4 DEF Sees
<1>3. CASE pc[m] \notin ServingPC
  BY <1>1, <1>3 DEF Sees, ServingPC
<1>4. QED  BY <1>2, <1>3

\* A row that stays as it is, and is not held by n, stays as it should be.
LEMMA RowKept ==
    ASSUME Good, NEW n \in Activity, Local(n), NEW k \in Key,
           row'[k] = row[k], due'[k] = due[k], row[k].by # n,
           k \in crossed /\ row[k].old = Absent => k \in crossed'
    PROVE  RowOK(k)'
<1>1. RowOK(k)
  BY DEF Good, Rows
<1>2. ASSUME NEW m \in Activity, row'[k].by = m
      PROVE  Owns(m, k)'
  BY <1>1, <1>2 DEF RowOK, Owns, Local
<1>3. QED  BY <1>1, <1>2 DEF RowOK

LEMMA Together ==
    ASSUME Good, NEW n \in Activity, Local(n), Frame(n), Sees(n)', \A k \in Key : RowOK(k)'
    PROVE  Rows' /\ Sights'
<1>1. Sights'
  BY OthersSee DEF Sights
<1>2. QED  BY <1>1 DEF Rows

\* A step that touches no row, by an activity that holds none.
LEMMA QuietStep ==
    ASSUME Good, NEW n \in Activity, Local(n), row' = row, UNCHANGED <<due, crossed>>,
           \A k \in Key : row[k].by # n, Sees(n)'
    PROVE  Rows' /\ Sights'
<1>1. \A k \in Key : RowOK(k)'
  BY RowKept
<1>2. QED  BY <1>1, Together DEF Frame

\* Only an activity that is about to answer or to commit holds rows.
LEMMA HoldsNone ==
    ASSUME Good, NEW n \in Activity, pc[n] \notin {"accept", "commit"}, NEW k \in Key
    PROVE  row[k].by # n
  BY DEF Good, Rows, RowOK, Owns

LEMMA HolderServed ==
    ASSUME Good, NEW n \in Activity, NEW k \in Key, row[k].by = n
    PROVE  pc[n] \in ServingPC /\ k[1] = sender[n]
<1>1. Owns(n, k)
  BY DEF Good, Rows, RowOK
<1>2. pc[n] \in ServingPC /\ message[n] \in Message /\ message[n].key[1] = sender[n]
  BY <1>1 DEF Owns, Good, Typed, Carries, ServingPC, Running
<1>3. QED  BY <1>1, <1>2, KeyFacts DEF Owns, Message

\* A rollback, whatever is held: nothing more is due, and who was crossed stays crossed.
LEMMA RollbackKeeps ==
    ASSUME Good, NEW n \in Activity, pc[n] \in Running, NEW there \in Ended, Rollback(n, there),
           due' = due, \A k \in crossed : row[k].old = Absent => k \in crossed'
    PROVE  Rows' /\ Sights'
<1>1. /\ Local(n)
      /\ pc'[n] = there
  BY DEF Rollback, End, Goto, checkVars, Local, Good, Typed, InboxTypeOK
<1>2. DOMAIN row = Key
  BY DEF Good, Typed, InboxTypeOK
<1>3. \A k \in Key : row'[k] = IF row[k].by = n THEN Committed(row[k].old) ELSE row[k]
  BY <1>2 DEF Rollback, RollbackRows
<1>4. Frame(n)
  BY <1>3, HolderServed DEF Frame
<1>5. Sees(n)'
  BY <1>1 DEF Sees, Ended
<1>6. ASSUME NEW k \in Key
      PROVE  RowOK(k)'
  <2>1. CASE row[k].by = n
    <3>1. row'[k] = Committed(row[k].old) /\ RowOK(k)
      BY <1>3, <2>1 DEF Good, Rows
    <3>2. QED  BY <3>1, TxnFacts DEF RowOK, Committed
  <2>2. CASE row[k].by # n
    BY <1>1, <1>3, <2>2, RowKept
  <2>3. QED  BY <2>1, <2>2
<1>7. QED  BY <1>1, <1>4, <1>5, <1>6, Together

LEMMA InsertKeeps ==
    ASSUME Good, NEW n \in Activity, Insert(n)
    PROVE  Rows' /\ Sights'
<1>0. PICK k : k = message[n].key
  OBVIOUS
<1> USE <1>0
<1>1. /\ pc[n] = "admitted" /\ pc[n] \in ServingPC /\ pc[n] \in Running
      /\ message[n].verb = "Do" /\ k \in Key /\ k[1] = sender[n]
  BY DEF Insert, Good, Typed, Carries, ServingPC, Running, RecordPC, Message
<1>2. row[k].by = Nobody /\ row[k].new = row[k].old
  BY <1>1, OwnRows
<1>3. row \in [Key -> Versions(Identity \cup {Absent}, Activity)] /\ pc \in [Activity -> {"idle"} \cup Running \cup Ended]
  BY DEF Good, Typed, InboxTypeOK
<1>4. CASE row[k].new = Absent
  <2>1. row' = Write(row, k, n, n) /\ due' = due /\ crossed' = crossed
    BY <1>4 DEF Insert
  <2>2. Local(n) /\ pc'[n] \in {"accept", "commit"} /\ message' = message
    BY <1>3, <1>4 DEF Insert, Goto, Local, checkVars
  <2>3. /\ \A j \in Key \ {k} : row'[j] = row[j]
        /\ row'[k].by = n /\ row'[k].new = n /\ row'[k].old = row[k].old
    BY <1>1, <1>3, <2>1 DEF Write
  <2>4. Frame(n)
    BY <1>1, <2>3 DEF Frame
  <2>5. Sees(n)'
    BY <1>1, <2>2, <2>3 DEF Sees
  <2>6. RowOK(k)'
    <3>1. Owns(n, k)'
      BY <1>1, <2>2, <2>3 DEF Owns
    <3>2. (due[k] = Absent => row[k].old = Absent) /\ (row[k].old = Absent => due[k] = Absent \/ k \in crossed)
      BY <1>1 DEF Good, Rows, RowOK
    <3>3. QED  BY <2>1, <2>3, <3>1, <3>2, TxnFacts DEF RowOK
  <2>7. \A j \in Key \ {k} : RowOK(j)'
    BY <1>1, <2>1, <2>2, <2>3, HoldsNone, RowKept
  <2>8. QED  BY <2>2, <2>4, <2>5, <2>6, <2>7, Together
<1>5. CASE row[k].new # Absent
  <2>1. PICK there \in Ended : Rollback(n, there)
    BY <1>5 DEF Insert, Ended
  <2>2. CASE UNCHANGED <<due, crossed>>
    BY <1>1, <2>1, <2>2, RollbackKeeps
  <2>3. CASE Serve(n)
    <3>1. due[k] # Absent /\ row[k].old # Absent
      BY <1>1, <1>2, <1>5 DEF Good, Rows, RowOK
    <3>2. due' = due
      BY <1>1, <2>3, <3>1 DEF Serve, DueAfter, Good, Typed, InboxTypeOK
    <3>3. \A j \in crossed : row[j].old = Absent => j \in crossed'
      BY <1>1, <2>3, <3>1 DEF Serve
    <3>4. QED  BY <1>1, <2>1, <3>2, <3>3, RollbackKeeps
  <2>4. QED  BY <1>5, <2>2, <2>3 DEF Insert
<1>6. QED  BY <1>4, <1>5

LEMMA UndoReadKeeps ==
    ASSUME Good, NEW n \in Activity, UndoRead(n)
    PROVE  Rows' /\ Sights'
<1>0. PICK k : k = message[n].key
  OBVIOUS
<1> USE <1>0
<1>1. /\ pc[n] = "admitted" /\ pc[n] \in ServingPC /\ pc[n] \in Running
      /\ message[n].verb = "Undo" /\ k \in Key /\ k[1] = sender[n]
  BY DEF UndoRead, Good, Typed, Carries, ServingPC, Running, RecordPC, Message
<1>2. \A j \in LookedUp(k) : j \in Key /\ row[j].by = Nobody /\ row[j].new = row[j].old
  BY <1>1, KeyFacts, OwnRows
<1>3. pc \in [Activity -> {"idle"} \cup Running \cup Ended] /\ found \in [Activity -> (Key \X Identity) \cup {Nothing}]
  BY DEF Good, Typed, InboxTypeOK
<1>4. ASSUME {j \in LookedUp(k) : row[j].old # Absent} = {}, Goto(n, "commit"),
             UNCHANGED <<known, checkVars, arrived, row, message, found>>, UNCHANGED <<due, crossed>>
      PROVE  Rows' /\ Sights'
  <2>1. Local(n) /\ pc'[n] = "commit"
    BY <1>3, <1>4 DEF Goto, Local, checkVars
  <2>2. Sees(n)'
    BY <1>1, <1>2, <1>4, <2>1 DEF Sees
  <2>3. QED  BY <1>1, <1>4, <2>1, <2>2, HoldsNone, QuietStep
<1>5. ASSUME NEW j \in LookedUp(k), {i \in LookedUp(k) : row[i].old # Absent} = {j}, Goto(n, "undo"),
             found' = [found EXCEPT ![n] = <<j, row[j].old>>],
             UNCHANGED <<known, checkVars, arrived, row, message>>, UNCHANGED <<due, crossed>>
      PROVE  Rows' /\ Sights'
  <2>1. Local(n) /\ pc'[n] = "undo" /\ found'[n] = <<j, row[j].old>>
    BY <1>3, <1>5 DEF Goto, Local, checkVars
  <2>2. Sees(n)'
    BY <1>1, <1>5, <2>1 DEF Sees
  <2>3. QED  BY <1>1, <1>5, <2>1, <2>2, HoldsNone, QuietStep
<1>6. CASE Rollback(n, "failed")
  BY <1>1, <1>6, RollbackKeeps DEF UndoRead, Ended
<1>7. QED  BY <1>4, <1>5, <1>6 DEF UndoRead

LEMMA UndoDeleteKeeps ==
    ASSUME Good, NEW n \in Activity, UndoDelete(n)
    PROVE  Rows' /\ Sights'
<1>0. PICK k : k = found[n][1]
  OBVIOUS
<1> USE <1>0
<1>1. /\ pc[n] = "undo" /\ pc[n] \in ServingPC
      /\ message[n].verb = "Undo" /\ message[n].key \in Key /\ message[n].key[1] = sender[n]
  BY DEF UndoDelete, Good, Typed, Carries, ServingPC, Running, RecordPC, Message
<1>2. /\ k \in LookedUp(message[n].key) /\ found[n][2] = row[k].old
      /\ \A j \in LookedUp(message[n].key) \ {k} : row[j].old = Absent
  BY <1>1 DEF Good, Sights, Sees
<1>3. \A j \in LookedUp(message[n].key) :
        j \in Key /\ j[1] = sender[n] /\ row[j].by = Nobody /\ row[j].new = row[j].old
  BY <1>1, KeyFacts, OwnRows
<1>4. row \in [Key -> Versions(Identity \cup {Absent}, Activity)] /\ pc \in [Activity -> {"idle"} \cup Running \cup Ended]
  BY DEF Good, Typed, InboxTypeOK
<1>5. row' = Write(row, k, Absent, n) /\ due' = due /\ crossed' = crossed
  BY <1>2, <1>3 DEF UndoDelete
<1>6. Local(n) /\ pc'[n] = "commit" /\ message' = message
  BY <1>4 DEF UndoDelete, Goto, Local, checkVars
<1>7. /\ \A j \in Key \ {k} : row'[j] = row[j]
      /\ row'[k].by = n /\ row'[k].new = Absent /\ row'[k].old = row[k].old
  BY <1>2, <1>3, <1>4, <1>5 DEF Write
<1>8. Frame(n)
  BY <1>1, <1>2, <1>3, <1>7 DEF Frame
<1>9. Sees(n)'
  BY <1>1, <1>2, <1>3, <1>6, <1>7 DEF Sees
<1>10. RowOK(k)'
  <2>1. Owns(n, k)'
    BY <1>1, <1>2, <1>6, <1>7 DEF Owns
  <2>2. (due[k] = Absent => row[k].old = Absent) /\ (row[k].old = Absent => due[k] = Absent \/ k \in crossed)
    BY <1>2, <1>3 DEF Good, Rows, RowOK
  <2>3. QED  BY <1>5, <1>7, <2>1, <2>2, TxnFacts DEF RowOK
<1>11. \A j \in Key \ {k} : RowOK(j)'
  BY <1>1, <1>5, <1>6, <1>7, HoldsNone, RowKept
<1>12. QED  BY <1>6, <1>8, <1>9, <1>10, <1>11, Together

LEMMA CommitKeeps ==
    ASSUME Good, NEW n \in Activity, Commit(n)
    PROVE  Rows' /\ Sights'
<1>0. PICK k : k = message[n].key
  OBVIOUS
<1> USE <1>0
<1>1. /\ pc[n] = "commit" /\ pc[n] \in ServingPC
      /\ message[n].verb \in {"Do", "Undo"} /\ k \in Key /\ k[1] = sender[n]
  BY DEF Commit, Good, Typed, Carries, ServingPC, Running, RecordPC, Message
<1>2. Local(n) /\ pc'[n] = "done"
  BY DEF Commit, End, Goto, checkVars, Local, Good, Typed, InboxTypeOK
<1>3. \A j \in Key : row'[j] = IF row[j].by = n THEN Committed(row[j].new) ELSE row[j]
  BY DEF Commit, CommitRows, Good, Typed, InboxTypeOK
<1>4. Frame(n)
  BY <1>3, HolderServed DEF Frame
<1>5. Sees(n)'
  BY <1>2 DEF Sees
<1>6. Sees(n)
  BY DEF Good, Sights
<1>7. CASE message[n].verb = "Do"
  <2>1. row[k].by = n
    BY <1>1, <1>6, <1>7 DEF Sees
  <2>2. \A j \in Key : row[j].by = n => j = k /\ row[j].new = n
    BY <1>7 DEF Good, Rows, RowOK, Owns
  <2>3. /\ due' = [j \in Key |-> IF j = k /\ due[j] = Absent THEN n ELSE due[j]]
        /\ crossed' = crossed \ {k}
    BY <1>7 DEF Commit, Serve, DueAfter
  <2>4. RowOK(k)'
    <3>1. row'[k].old = n /\ row'[k].new = n /\ row'[k].by = Nobody /\ due'[k] # Absent
      <4>1. row'[k] = Committed(row[k].new) /\ row[k].new = n
        BY <1>1, <1>3, <2>1, <2>2
      <4>2. due'[k] # Absent
        BY <1>1, <2>3, TxnFacts DEF Absent, Nobody
      <4>3. QED  BY <4>1, <4>2 DEF Committed
    <3>2. n # Absent /\ \A m \in Activity : m # Nobody
      BY TxnFacts, KeyFacts
    <3>3. QED  BY <3>1, <3>2 DEF RowOK
  <2>5. \A j \in Key \ {k} : RowOK(j)'
    BY <1>2, <1>3, <2>2, <2>3, RowKept
  <2>6. QED  BY <1>2, <1>4, <1>5, <2>4, <2>5, Together
<1>8. CASE message[n].verb = "Undo"
  <2>1. \A j \in Key : row[j].by = n => j \in LookedUp(k)
    BY <1>8 DEF Good, Rows, RowOK, Owns
  <2>2. \A j \in LookedUp(k) : j \in Key /\ row[j].new = Absent /\ row[j].by \in {Nobody, n}
    BY <1>1, <1>6, <1>8, KeyFacts, OwnRows DEF Sees
  <2>3. /\ \A j \in Key : due'[j] = IF Names(message[n], j) THEN Absent ELSE due[j]
        /\ crossed' = crossed \cup {j \in LookedUp(k) : ~Names(message[n], j)}
    BY <1>8 DEF Commit, Serve, DueAfter
  <2>4. ASSUME NEW j \in LookedUp(k)
        PROVE  RowOK(j)'
    <3>1. row'[j].old = Absent /\ row'[j].new = Absent /\ row'[j].by = Nobody
      <4>1. j \in Key /\ row[j].new = Absent /\ RowOK(j)
        BY <2>2 DEF Good, Rows
      <4>2. CASE row[j].by = n
        <5>1. row'[j] = Committed(Absent)
          BY <1>3, <4>1, <4>2
        <5>2. QED  BY <5>1 DEF Committed
      <4>3. CASE row[j].by = Nobody
        BY <1>3, <4>1, <4>3, TxnFacts DEF RowOK
      <4>4. QED  BY <2>2, <4>2, <4>3
    <3>2. due'[j] = Absent \/ j \in crossed'
      BY <2>2, <2>3
    <3>3. QED  BY <3>1, <3>2, TxnFacts DEF RowOK
  <2>5. ASSUME NEW j \in Key \ LookedUp(k)
        PROVE  RowOK(j)'
    <3>1. due'[j] = due[j]
      BY <2>3 DEF Names
    <3>2. QED  BY <1>2, <1>3, <2>1, <2>3, <2>5, <3>1, RowKept
  <2>6. QED  BY <1>2, <1>4, <1>5, <2>4, <2>5, Together
<1>9. QED  BY <1>1, <1>7, <1>8

LEMMA GoodKept ==
    ASSUME Good, [Next]_vars
    PROVE  Rows' /\ Sights'
<1>1. CASE UNCHANGED vars
  BY <1>1 DEF vars, knownVars, inboxVars, Good, Rows, Sights, RowOK, Owns, Sees
<1>2. ASSUME NEW n \in Activity, NEW m \in Message, Deliver(n, m)
      PROVE  Rows' /\ Sights'
  <2>1. Local(n) /\ pc'[n] \in {"record_insert", "record_update"}
    BY <1>2 DEF Deliver, Receive, Goto, Local, Good, Typed, InboxTypeOK, KnownTypeOK
  <2>2. pc[n] = "idle"
    BY <1>2, TxnFacts
    DEF Deliver, Receive, Good, Typed, Carries, InboxTypeOK, KnownTypeOK
  <2>3. Sees(n)'
    BY <2>1 DEF Sees
  <2>4. QED  BY <1>2, <2>1, <2>2, <2>3, HoldsNone, QuietStep DEF Deliver
<1>3. ASSUME NEW n \in Activity, TaskStep(n) \/ (CheckDie(n) /\ UNCHANGED inboxVars)
      PROVE  Rows' /\ Sights'
  <2>1. UNCHANGED <<pc, inboxVars>>
    BY <1>3 DEF TaskStep, CheckStep, CheckRead, CheckInsert, CheckUpdate, CheckCommit, CheckDie
  <2>2. QED  BY <2>1 DEF inboxVars, Good, Rows, Sights, RowOK, Owns, Sees
<1>4. ASSUME NEW n \in Activity, InboxStep(n) \/ AcceptAnswered(n) \/ Refuse(n) \/ Die(n)
      PROVE  Rows' /\ Sights'
  <2>1. CASE RecordStep(n) /\ UNCHANGED inboxVars
    <3>1. Local(n) /\ pc'[n] \in {"admitted", "poisoned"}
      BY <2>1
      DEF RecordStep, RecordInsert, RecordUpdate, Goto, Local, checkVars, inboxVars, Good, Typed,
          InboxTypeOK
    <3>2. pc[n] \in {"record_insert", "record_update"}
      BY <2>1 DEF RecordStep, RecordInsert, RecordUpdate
    <3>3. Sees(n)'
      BY <3>1 DEF Sees
    <3>4. QED  BY <2>1, <3>1, <3>2, <3>3, HoldsNone, QuietStep DEF inboxVars
  <2>2. CASE Poisoned(n) \/ Refuse(n) \/ Die(n)
    BY <2>2, RollbackKeeps DEF Poisoned, Refuse, Die, Running, RecordPC, Ended
  <2>3. CASE AcceptTimeout(n) \/ AcceptAnswered(n)
    <3>1. /\ pc[n] = "accept" /\ pc'[n] = "commit" /\ Local(n)
          /\ UNCHANGED inboxVars
      BY <2>3
      DEF AcceptTimeout, AcceptAnswered, Goto, Local, checkVars, inboxVars, Good, Typed, InboxTypeOK
    <3>2. message[n].verb = "Do"
      BY <3>1 DEF Good, Typed, Carries
    <3>3. Sees(n)'
      BY <3>1, <3>2 DEF Sees, Good, Sights, inboxVars
    <3>4. \A k \in Key : RowOK(k)'
      BY <3>1, <3>2 DEF RowOK, Owns, Good, Rows, inboxVars, Local
    <3>5. QED  BY <3>1, <3>3, <3>4, Together DEF Frame, inboxVars
  <2>4. QED
    BY <1>4, <2>1, <2>2, <2>3, InsertKeeps, UndoReadKeeps, UndoDeleteKeeps, CommitKeeps
    DEF InboxStep
<1>5. QED  BY <1>1, <1>2, <1>3, <1>4 DEF Next, Quiescent

\* The stored rows are those of the documented rule applied to one activity after
\* another, in the order of their commits: overlaps, duplicates, refusals and deaths
\* make no difference, and the handler's lookup makes one only where an Undo names
\* another reaction of the same sender and type.
THEOREM StoredAsServed == Spec => []ServedInOrder
<1>1. Init => Holding /\ Rows /\ Sights
  <2>1. SUFFICES ASSUME Init
                 PROVE  Rows /\ Holding /\ Sights
    OBVIOUS
  <2>2. PICK there \in SUBSET Key :
          /\ row = [k \in Key |-> Committed(IF k \in there THEN Earlier ELSE Absent)]
          /\ due = [k \in Key |-> IF k \in there THEN Earlier ELSE Absent]
    BY <2>1 DEF Init
  <2>3. Earlier # Absent
    BY ActivitiesAssumption DEF Earlier, Absent
  <2>4. Rows
    BY <2>2, <2>3, TxnFacts DEF Rows, RowOK, Committed
  <2>5. QED  BY <2>1, <2>4 DEF Init, KnownInit, Holding, Sights, Sees, ServingPC
<1>2. Typed /\ Holding /\ Rows /\ Sights /\ [Next]_vars => Holding' /\ Rows' /\ Sights'
  BY HoldingKept, GoodKept DEF Good
<1>3. Rows => ServedInOrder
  BY DEF Rows, RowOK, ServedInOrder
<1>4. QED  BY <1>1, <1>2, <1>3, TypedInvariant, PTL DEF Safety, Spec

(***************************************************************************)
(* What NodeInfo told.  Nobody writes over a row it has told about.        *)
(***************************************************************************)
Learned == \A d \in Domain : known[d].old = "checked" => known[d].new = "checked"

\* What a step may do to the rows of known_instances.
LEMMA KnownChanges ==
    ASSUME Typed, [Next]_vars
    PROVE  \/ known' = known
           \/ \E t : known' = CommitRows(known, t) \/ known' = RollbackRows(known, t)
           \/ \E d \in Domain : \E v, t :
                 /\ known' = Write(known, d, v, t)
                 /\ v = known[d].new \/ v = "checked" \/ known[d].new = "absent"
<1>1. CASE UNCHANGED vars
  BY <1>1 DEF vars, knownVars
<1>2. ASSUME NEW n \in Activity, NEW m \in Message, Deliver(n, m)
      PROVE  known' = known
  BY <1>2 DEF Deliver, Receive
<1>3. ASSUME NEW n \in Activity, RecordStep(n)
      PROVE  \/ known' = known
             \/ \E d \in Domain : \E v, t :
                   /\ known' = Write(known, d, v, t)
                   /\ v = known[d].new \/ v = "checked" \/ known[d].new = "absent"
  <2>1. sender[n] \in Domain
    BY <1>3 DEF RecordStep, RecordInsert, RecordUpdate, Typed, Carries
  <2>2. QED  BY <1>3, <2>1 DEF RecordStep, RecordInsert, RecordUpdate
<1>4. ASSUME NEW n \in Activity, CheckStep(n) \/ CheckDie(n)
      PROVE  \/ known' = known
             \/ \E t : known' = CommitRows(known, t) \/ known' = RollbackRows(known, t)
             \/ \E d \in Domain : \E v, t :
                   /\ known' = Write(known, d, v, t)
                   /\ v = known[d].new \/ v = "checked" \/ known[d].new = "absent"
  <2>1. CASE CheckInsert(n) \/ CheckUpdate(n)
    <3>1. sender[n] \in Domain
      BY <2>1 DEF CheckInsert, CheckUpdate, Typed, Carries
    <3>2. QED  BY <2>1, <3>1 DEF CheckInsert, CheckUpdate
  <2>2. CASE CheckRead(n) \/ CheckCommit(n) \/ CheckDie(n)
    BY <2>2 DEF CheckRead, CheckCommit, CheckDie
  <2>3. QED  BY <1>4, <2>1, <2>2 DEF CheckStep
<1>5. ASSUME NEW n \in Activity,
             \/ Poisoned(n) \/ Insert(n) \/ AcceptTimeout(n) \/ UndoRead(n) \/ UndoDelete(n)
             \/ Commit(n) \/ AcceptAnswered(n) \/ Refuse(n) \/ Die(n)
      PROVE  \/ known' = known
             \/ \E t : known' = CommitRows(known, t) \/ known' = RollbackRows(known, t)
  BY <1>5
  DEF Poisoned, Insert, AcceptTimeout, AcceptAnswered, UndoRead, UndoDelete, Commit, Refuse, Die,
      Rollback
<1>6. QED  BY <1>1, <1>2, <1>3, <1>4, <1>5 DEF Next, Quiescent, InboxStep, TaskStep

LEMMA LearnedStep ==
    ASSUME Typed, Learned, [Next]_vars, NEW d \in Domain, known[d].old = "checked"
    PROVE  known'[d].old = "checked" /\ known'[d].new = "checked"
<1>1. known \in [Domain -> Versions(Instance, Txn)] /\ known[d].new = "checked"
  BY DEF Typed, InboxTypeOK, KnownTypeOK, Learned
<1>2. CASE known' = known
  BY <1>1, <1>2
<1>3. ASSUME NEW t, known' = CommitRows(known, t) \/ known' = RollbackRows(known, t)
      PROVE  known'[d].old = "checked" /\ known'[d].new = "checked"
  <2>1. known'[d] = Committed("checked") \/ known'[d] = known[d]
    BY <1>1, <1>3 DEF CommitRows, RollbackRows
  <2>2. QED  BY <1>1, <2>1 DEF Committed
<1>4. ASSUME NEW e \in Domain, NEW v, NEW t, known' = Write(known, e, v, t),
             v = known[e].new \/ v = "checked" \/ known[e].new = "absent"
      PROVE  known'[d].old = "checked" /\ known'[d].new = "checked"
  BY <1>1, <1>4 DEF Write, Versions
<1>5. QED  BY <1>2, <1>3, <1>4, KnownChanges

LEMMA LearnedKept ==
    ASSUME Typed, Learned, [Next]_vars
    PROVE  Learned'
<1>1. SUFFICES ASSUME NEW d \in Domain, known'[d].old = "checked"
               PROVE  known'[d].new = "checked"
  BY DEF Learned
<1>2. CASE known[d].old = "checked"
  BY <1>2, LearnedStep
<1>3. CASE known[d].old # "checked"
  <2>1. known \in [Domain -> Versions(Instance, Txn)]
    BY DEF Typed, InboxTypeOK, KnownTypeOK
  <2>2. CASE known' = known
    BY <1>1, <1>3, <2>2
  <2>3. ASSUME NEW t, known' = CommitRows(known, t) \/ known' = RollbackRows(known, t)
        PROVE  known'[d].new = "checked"
    <3>1. known'[d] = known[d] \/ \E v : known'[d] = Committed(v)
      BY <2>1, <2>3 DEF CommitRows, RollbackRows
    <3>2. ASSUME NEW v, known'[d] = Committed(v)
          PROVE  known'[d].new = known'[d].old
      BY <3>2 DEF Committed
    <3>3. QED  BY <1>1, <1>3, <3>1, <3>2
  <2>4. ASSUME NEW e \in Domain, NEW v, NEW t, known' = Write(known, e, v, t)
        PROVE  known'[d].old = known[d].old
    BY <2>1, <2>4 DEF Write, Versions
  <2>5. QED  BY <1>1, <1>3, <2>2, <2>3, <2>4, KnownChanges
<1>4. QED  BY <1>2, <1>3

\* What NodeInfo has told of a server is never lost again to an activity that was
\* recorded from an older reading of the row.
THEOREM NodeInfoIsKept == Spec => InfoIsKept
<1>1. Init => Learned
  <2>1. SUFFICES ASSUME Init
                 PROVE  Learned
    OBVIOUS
  <2>2. PICK was \in [Domain -> Instance] : known = [d \in Domain |-> Committed(was[d])]
    BY <2>1 DEF Init, KnownInit
  <2>3. QED  BY <2>2 DEF Learned, Committed
<1>2. Typed /\ Learned /\ [Next]_vars => Learned'
  BY LearnedKept
<1>3. Typed /\ Learned /\ [Next]_vars =>
        [\A d \in Domain : known[d].old = "checked" => known'[d].old = "checked"]_knownVars
  BY LearnedStep
<1>4. QED  BY <1>1, <1>2, <1>3, TypedInvariant, PTL DEF Safety, Spec, InfoIsKept
=============================================================================
