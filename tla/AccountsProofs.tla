---------------------------- MODULE AccountsProofs ----------------------------
(***************************************************************************)
(* Proofs about Accounts for every set of names and every bound: a ban     *)
(* holds unless it left a way back in, and a confirmation link that was    *)
(* followed to its end has activated its account.                          *)
(***************************************************************************)
EXTENDS Accounts, TLAPS

(***************************************************************************)
(* The inductive invariant                                                 *)
(***************************************************************************)
Deciding == {"verify", "ban", "unban"}

\* What a request asks for, where its program counter is.
Asked ==
    \A n \in Request :
        /\ pc[n] # "idle" => n <= arrived
        /\ pc[n] \in Running => ask[n] \in Ask
        /\ pc[n] \in {"get", "delete"} => Kind(n) = "verify"
        /\ pc[n] \in {"insert", "link"} => Kind(n) = "register"
        /\ pc[n] = "write" => Kind(n) \in Deciding
        /\ pc[n] = "work" => Kind(n) = "act"

\* A row is held by the request that inserts it, and is there when that has ended; or by
\* one that has set is_active.
Inserts(n, a) == n = a /\ Kind(n) = "register"
Decides(n, a) == /\ Kind(n) \in Deciding /\ ask[n].who = a /\ pc[n] = "commit"
                 /\ There(a) /\ account[a].new.active = (Kind(n) # "ban")

Rows ==
    \A a \in Account :
        /\ There(a) => account[a].new \in User
        /\ There(a) /\ a \in Request => pc[a] \in Ended
        /\ account[a].by # Nobody => account[a].new \in User
        /\ \A n \in Request : account[a].by = n =>
              pc[n] \in {"link", "commit"} /\ (Inserts(n, a) \/ Decides(n, a))

\* A decision is about an account there is, and has been written if it was to be.
Decided ==
    \A n \in Request :
        /\ pc[n] \in {"write", "commit"} /\ Kind(n) \in Deciding => There(ask[n].who)
        /\ pc[n] = "write" /\ Kind(n) = "ban" => was[n]
        /\ pc[n] = "commit" /\ (Kind(n) = "verify" \/ (Kind(n) = "ban" /\ was[n])) =>
              account[ask[n].who].by = n

\* What makes a ban hold: nothing is left that could activate the account.
Verifies(n, a) == pc[n] \in Following /\ Kind(n) = "verify" /\ ask[n].who = a

Banned ==
    \A a \in Account : banned[a] # Never /\ ~open[a] =>
        /\ There(a) /\ ~account[a].old.active
        /\ link[a] # "live"
        /\ \A n \in Request : ~Verifies(n, a)
        /\ \A n \in Request : pc[n] = "work" /\ ask[n].who = a => n <= banned[a]

\* A request has deleted the link and is on its way to the account.
Spends(n, a) == pc[n] \in Following \ {"delete"} /\ Kind(n) = "verify" /\ ask[n].who = a

Activated ==
    \A a \in Account :
        link[a] = "used" /\ banned[a] = Never /\ ~missed[a] /\ (\A n \in Request : ~Spends(n, a))
        => account[a].old.active

AccountsInv == AccountsTypeOK /\ Asked /\ Rows /\ Decided /\ Banned /\ Activated

(***************************************************************************)
(* Types                                                                   *)
(***************************************************************************)
LEMMA RequestFacts ==
    /\ \A n \in Request : n \in Nat /\ n # Nobody /\ n \in Account /\ n # First /\ n <= MaxRequests
    /\ First \in Account /\ First = Nobody /\ \A a \in Account : a # First => a \in Request
    /\ Gone \notin User /\ Gone.active = FALSE
  BY RequestsAssumption, NameAssumption DEF Request, Account, First, Nobody, Gone, User

LEMMA AskFacts ==
    \A a \in Ask :
        /\ a.kind \in {"register", "login", "act"} \cup Deciding
        /\ a.kind \in {"act"} \cup Deciding => a.who \in Account
        /\ a.kind = "register" => a.name \in Name
  BY DEF Ask, Deciding

\* What the versions of a row are.
LEMMA RowFacts ==
    ASSUME AccountsTypeOK, NEW a \in Account
    PROVE  /\ account[a].old \in User \cup {Gone} /\ account[a].new \in User \cup {Gone}
           /\ account[a].by = Nobody \/ account[a].by \in Request
           /\ ~There(a) => ~account[a].old.active
           /\ There(a) => account[a].old \in User
  BY RequestFacts DEF AccountsTypeOK, Versions, There

LEMMA SettledRows ==
    ASSUME AccountsTypeOK, NEW n \in Request, NEW rows,
           rows = RollbackRows(account, n) \/ rows = CommitRows(account, n)
    PROVE  rows \in [Account -> Versions(User \cup {Gone}, Request)]
  BY DEF AccountsTypeOK, Versions, RollbackRows, CommitRows, Committed

LEMMA RolledBack ==
    ASSUME AccountsTypeOK, NEW n \in Request, account' = RollbackRows(account, n), NEW a \in Account
    PROVE  /\ account'[a].old = account[a].old
           /\ account[a].by # n => account'[a] = account[a]
           /\ account[a].by = n => account'[a].new = account[a].old /\ account'[a].by = Nobody
  BY DEF AccountsTypeOK, Versions, RollbackRows, Committed

LEMMA CommittedRow ==
    ASSUME AccountsTypeOK, NEW n \in Request, account' = CommitRows(account, n), NEW a \in Account
    PROVE  /\ account[a].by # n => account'[a] = account[a]
           /\ account[a].by = n => /\ account'[a].old = account[a].new
                                   /\ account'[a].new = account[a].new
                                   /\ account'[a].by = Nobody
  BY DEF AccountsTypeOK, Versions, CommitRows, Committed

LEMMA WrittenRow ==
    ASSUME AccountsTypeOK, NEW n \in Request, NEW b \in Account, NEW row \in User,
           account' = Write(account, b, row, n)
    PROVE  /\ account' \in [Account -> Versions(User \cup {Gone}, Request)]
           /\ \A a \in Account : /\ account'[a].old = account[a].old
                                 /\ a # b => account'[a] = account[a]
           /\ account'[b].new = row /\ account'[b].by = n
  BY DEF AccountsTypeOK, Versions, Write

\* A step of request n, which goes to there.
Steps(n, there) ==
    /\ pc' = [pc EXCEPT ![n] = there]
    /\ there \in Running \cup Ended
    /\ \A m \in Request \ {n} : ask'[m] = ask[m] /\ was'[m] = was[m]
    /\ ask' \in [Request -> Ask \cup {Nothing}] /\ was' \in [Request -> BOOLEAN]

LEMMA EndSteps ==
    ASSUME AccountsTypeOK, NEW n \in Request, NEW there \in Ended, End(n, there)
    PROVE  Steps(n, there)
  BY DEF AccountsTypeOK, End, Goto, Steps

LEMMA GotoSteps ==
    ASSUME AccountsTypeOK, NEW n \in Request, NEW there \in Running, Goto(n, there),
           ask' = ask,
           was' = was \/ \E b \in BOOLEAN : was' = [was EXCEPT ![n] = b]
    PROVE  Steps(n, there)
  BY DEF AccountsTypeOK, Goto, Steps

LEMMA StepsTyped ==
    ASSUME AccountsTypeOK, NEW n \in Request, NEW there, Steps(n, there), arrived' \in 0..MaxRequests,
           account' \in [Account -> Versions(User \cup {Gone}, Request)],
           link' \in [Account -> {"none", "live", "used", "expired"}], token' \subseteq Account,
           faults' \in 0..MaxFaults, banned' \in [Account -> 0..MaxRequests],
           open' \in [Account -> BOOLEAN], missed' \in [Account -> BOOLEAN]
    PROVE  AccountsTypeOK'
  BY DEF AccountsTypeOK, Steps

LEMMA StepsAsked ==
    ASSUME AccountsTypeOK, Asked, NEW n \in Request, pc[n] \in Running, NEW there, Steps(n, there),
           arrived' = arrived,
           there \in Running => /\ ask'[n] = ask[n]
                                /\ there # "get"
                                /\ there = "delete" => Kind(n) = "verify"
                                /\ there \in {"insert", "link"} => Kind(n) = "register"
                                /\ there = "write" => Kind(n) \in Deciding
                                /\ there = "work" => Kind(n) = "act"
    PROVE  Asked'
<1> SUFFICES ASSUME NEW m \in Request
             PROVE  /\ pc'[m] # "idle" => m <= arrived'
                    /\ pc'[m] \in Running => ask'[m] \in Ask
                    /\ pc'[m] \in {"get", "delete"} => Kind(m)' = "verify"
                    /\ pc'[m] \in {"insert", "link"} => Kind(m)' = "register"
                    /\ pc'[m] = "write" => Kind(m)' \in Deciding
                    /\ pc'[m] = "work" => Kind(m)' = "act"
  BY DEF Asked
<1>1. CASE m # n
  BY <1>1 DEF AccountsTypeOK, Asked, Steps, Kind
<1>2. CASE m = n
  <2>1. pc'[n] = there /\ pc[n] # "idle" /\ ask[n] \in Ask
    BY DEF AccountsTypeOK, Asked, Steps, Running, Following, Ended
  <2>2. CASE there \in Running
    BY <1>2, <2>1, <2>2 DEF AccountsTypeOK, Asked, Steps, Kind
  <2>3. CASE there \in Ended
    BY <1>2, <2>1, <2>3 DEF AccountsTypeOK, Asked, Steps, Running, Following, Ended
  <2>4. QED  BY <2>2, <2>3 DEF Steps
<1>3. QED  BY <1>1, <1>2

(***************************************************************************)
(* What a step leaves of the invariant                                     *)
(***************************************************************************)
LEMMA StepPC ==
    ASSUME AccountsTypeOK, NEW n \in Request, NEW there, Steps(n, there)
    PROVE  /\ pc'[n] = there
           /\ \A m \in Request \ {n} : pc'[m] = pc[m] /\ ask'[m] = ask[m] /\ was'[m] = was[m]
  BY DEF AccountsTypeOK, Steps

\* A request holds rows only from its write to its end.
LEMMA HoldsNothing ==
    ASSUME Rows, NEW n \in Request, pc[n] \notin {"link", "commit"}
    PROVE  \A a \in Account : account[a].by # n
  BY DEF Rows

\* The rows of other requests stay as they are.
LEMMA OthersHold ==
    ASSUME AccountsTypeOK, NEW n \in Request, NEW there, Steps(n, there),
           NEW a \in Account, NEW m \in Request \ {n},
           account'[a] = account[a],
           pc[m] \in {"link", "commit"} /\ (Inserts(m, a) \/ Decides(m, a))
    PROVE  pc'[m] \in {"link", "commit"} /\ (Inserts(m, a)' \/ Decides(m, a)')
  BY StepPC DEF Inserts, Decides, Kind, There

LEMMA RowsStay ==
    ASSUME AccountsTypeOK, Rows, NEW n \in Request, NEW there, Steps(n, there),
           pc[n] \notin Ended, account' = account,
           pc[n] \in {"link", "commit"} => there = "commit" /\ ask'[n] = ask[n]
    PROVE  Rows'
<1> SUFFICES ASSUME NEW a \in Account
             PROVE  /\ There(a)' => account'[a].new \in User
                    /\ There(a)' /\ a \in Request => pc'[a] \in Ended
                    /\ account'[a].by # Nobody => account'[a].new \in User
                    /\ \A m \in Request : account'[a].by = m =>
                          pc'[m] \in {"link", "commit"} /\ (Inserts(m, a)' \/ Decides(m, a)')
  BY DEF Rows
<1>1. account'[a] = account[a] /\ (There(a)' <=> There(a))
  BY DEF There
<1>2. There(a)' /\ a \in Request => pc'[a] \in Ended
  BY <1>1, StepPC DEF Rows
<1>3. ASSUME NEW m \in Request, account'[a].by = m
      PROVE  pc'[m] \in {"link", "commit"} /\ (Inserts(m, a)' \/ Decides(m, a)')
  <2>1. pc[m] \in {"link", "commit"} /\ (Inserts(m, a) \/ Decides(m, a))
    BY <1>1, <1>3 DEF Rows
  <2>2. CASE m # n
    BY <1>1, <2>1, <2>2, OthersHold
  <2>3. CASE m = n
    BY <1>1, <2>1, <2>3, StepPC DEF Inserts, Decides, Kind, There
  <2>4. QED  BY <2>2, <2>3
<1>4. QED  BY <1>1, <1>2, <1>3 DEF Rows

LEMMA RowsRolledBack ==
    ASSUME AccountsTypeOK, Rows, NEW n \in Request, NEW there \in Ended, Steps(n, there),
           account' = RollbackRows(account, n)
    PROVE  Rows'
<1> SUFFICES ASSUME NEW a \in Account
             PROVE  /\ There(a)' => account'[a].new \in User
                    /\ There(a)' /\ a \in Request => pc'[a] \in Ended
                    /\ account'[a].by # Nobody => account'[a].new \in User
                    /\ \A m \in Request : account'[a].by = m =>
                          pc'[m] \in {"link", "commit"} /\ (Inserts(m, a)' \/ Decides(m, a)')
  BY DEF Rows
<1>1. /\ account'[a].old = account[a].old /\ (There(a)' <=> There(a))
      /\ account[a].by # n => account'[a] = account[a]
      /\ account[a].by = n => account'[a].new = account[a].old /\ account'[a].by = Nobody
  BY RolledBack DEF There
<1>2. There(a)' => account'[a].new \in User
  BY <1>1, RowFacts DEF Rows
<1>3. There(a)' /\ a \in Request => pc'[a] \in Ended
  BY <1>1, StepPC DEF Rows
<1>4. ASSUME NEW m \in Request, account'[a].by = m
      PROVE  pc'[m] \in {"link", "commit"} /\ (Inserts(m, a)' \/ Decides(m, a)')
  <2>1. account'[a] = account[a] /\ account[a].by = m /\ m # n
    BY <1>1, <1>4, RequestFacts
  <2>2. pc[m] \in {"link", "commit"} /\ (Inserts(m, a) \/ Decides(m, a))
    BY <2>1 DEF Rows
  <2>3. QED  BY <2>1, <2>2, OthersHold
<1>5. account'[a].by # Nobody => account'[a].new \in User
  BY <1>1 DEF Rows
<1>6. QED  BY <1>2, <1>3, <1>4, <1>5

\* The part of Decided about one request.
DecidedBy(n) ==
    /\ pc[n] \in {"write", "commit"} /\ Kind(n) \in Deciding => There(ask[n].who)
    /\ pc[n] = "write" /\ Kind(n) = "ban" => was[n]
    /\ pc[n] = "commit" /\ (Kind(n) = "verify" \/ (Kind(n) = "ban" /\ was[n])) =>
          account[ask[n].who].by = n

LEMMA DecidedStays ==
    ASSUME AccountsTypeOK, Asked, Decided, NEW n \in Request, NEW there, Steps(n, there),
           \A a \in Account : There(a) => There(a)',
           \A a \in Account : \A m \in Request \ {n} : account[a].by = m => account'[a].by = m,
           DecidedBy(n)'
    PROVE  Decided'
<1> SUFFICES ASSUME NEW m \in Request \ {n} PROVE DecidedBy(m)'
  BY DEF Decided, DecidedBy
<1>1. pc'[m] = pc[m] /\ ask'[m] = ask[m] /\ was'[m] = was[m] /\ (Kind(m)' = Kind(m))
  BY StepPC DEF Kind
<1>2. pc[m] \in {"write", "commit"} /\ Kind(m) \in Deciding => ask[m].who \in Account
  BY AskFacts DEF Asked, Running, Following, Kind
<1>3. DecidedBy(m)
  BY DEF Decided, DecidedBy
<1>4. QED  BY <1>1, <1>2, <1>3 DEF DecidedBy, Deciding

LEMMA BannedStays ==
    ASSUME AccountsTypeOK, Banned, NEW n \in Request, NEW there, Steps(n, there),
           \A a \in Account : account'[a].old = account[a].old,
           banned' = banned, open' = open,
           \A a \in Account : link'[a] = "live" /\ There(a) => link[a] = "live",
           there \in Following /\ ask'[n].kind = "verify" =>
              ask'[n] = ask[n] /\ (pc[n] \in Following \/ link[ask[n].who] = "live"),
           there = "work" => account[ask'[n].who].old.active
    PROVE  Banned'
<1> SUFFICES ASSUME NEW a \in Account, banned[a] # Never, ~open[a]
             PROVE  /\ There(a)' /\ ~account'[a].old.active
                    /\ link'[a] # "live"
                    /\ \A m \in Request : ~Verifies(m, a)'
                    /\ \A m \in Request : pc'[m] = "work" /\ ask'[m].who = a => m <= banned[a]
  BY DEF Banned
<1>1. /\ There(a) /\ ~account[a].old.active /\ link[a] # "live"
      /\ \A m \in Request : ~Verifies(m, a)
      /\ \A m \in Request : pc[m] = "work" /\ ask[m].who = a => m <= banned[a]
  BY DEF Banned
<1>2. There(a)' /\ ~account'[a].old.active /\ link'[a] # "live"
  BY <1>1 DEF There
<1>3. \A m \in Request : ~Verifies(m, a)'
  BY <1>1, StepPC DEF Verifies, Kind
<1>4. \A m \in Request : pc'[m] = "work" /\ ask'[m].who = a => m <= banned[a]
  BY <1>1, StepPC
<1>5. QED  BY <1>2, <1>3, <1>4

LEMMA ActivatedStays ==
    ASSUME AccountsTypeOK, Activated, NEW n \in Request, NEW there, Steps(n, there),
           \A a \in Account : account'[a].old = account[a].old,
           banned' = banned,
           \A a \in Account : link'[a] = "used" => link[a] = "used" \/ Spends(n, a)',
           \A a \in Account : missed[a] => missed'[a],
           \A a \in Account : Spends(n, a) => Spends(n, a)' \/ missed'[a] \/ account[a].old.active
    PROVE  Activated'
<1> SUFFICES ASSUME NEW a \in Account, link'[a] = "used", banned[a] = Never, ~missed'[a],
                    \A m \in Request : ~Spends(m, a)'
             PROVE  account'[a].old.active
  BY DEF Activated
<1>1. \A m \in Request \ {n} : ~Spends(m, a)
  BY StepPC DEF Spends, Kind
<1>2. CASE Spends(n, a)
  BY <1>2
<1>3. CASE ~Spends(n, a)
  BY <1>1, <1>3 DEF Activated
<1>4. QED  BY <1>2, <1>3

(***************************************************************************)
(* Steps that write no row                                                 *)
(***************************************************************************)
LEMMA QuietKeeps ==
    ASSUME AccountsInv, NEW n \in Request, pc[n] \in Running, NEW there, Steps(n, there),
           UNCHANGED <<account, bounds, banned, open>>, token' \subseteq Account,
           link' \in [Account -> {"none", "live", "used", "expired"}],
           missed' \in [Account -> BOOLEAN],
           pc[n] \in {"link", "commit"} => there = "commit" /\ ask'[n] = ask[n],
           there \in Running => /\ ask'[n] = ask[n]
                                /\ there # "get"
                                /\ there = "delete" => Kind(n) = "verify"
                                /\ there \in {"insert", "link"} => Kind(n) = "register"
                                /\ there = "write" => Kind(n) \in Deciding
                                /\ there = "work" => Kind(n) = "act",
           DecidedBy(n)',
           \A a \in Account : link'[a] = "live" /\ There(a) => link[a] = "live",
           there \in Following /\ ask'[n].kind = "verify" =>
              pc[n] \in Following \/ link[ask[n].who] = "live",
           there = "work" => account[ask'[n].who].old.active,
           \A a \in Account : link'[a] = "used" => link[a] = "used" \/ Spends(n, a)',
           \A a \in Account : missed[a] => missed'[a],
           \A a \in Account : Spends(n, a) => Spends(n, a)' \/ missed'[a] \/ account[a].old.active
    PROVE  AccountsInv'
<1>1. /\ account' = account /\ arrived' = arrived /\ faults' = faults
      /\ banned' = banned /\ open' = open
  BY DEF bounds
<1>2. AccountsTypeOK'
  BY <1>1, StepsTyped DEF AccountsInv, AccountsTypeOK
<1>3. Asked'
  BY <1>1, StepsAsked DEF AccountsInv
<1>4. Rows'
  BY <1>1, RowsStay DEF AccountsInv, Running, Following, Ended
<1>5. Decided'
  BY <1>1, DecidedStays DEF AccountsInv, There
<1>6. there \in Following => ask'[n] = ask[n]
  BY DEF Running
<1>7. Banned'
  BY <1>1, <1>6, BannedStays DEF AccountsInv
<1>8. Activated'
  BY <1>1, ActivatedStays DEF AccountsInv
<1>9. QED  BY <1>2, <1>3, <1>4, <1>5, <1>7, <1>8 DEF AccountsInv

\* A request that is rolled back; if it was on the way with a link, that was spent on
\* nothing.
LEMMA RollbackKeeps ==
    ASSUME AccountsInv, NEW n \in Request, pc[n] \in Running, Rollback(n),
           UNCHANGED <<link, token, arrived, banned, open>>, faults' \in 0..MaxFaults,
           missed' \in [Account -> BOOLEAN],
           \A a \in Account : missed[a] \/ Spends(n, a) => missed'[a]
    PROVE  AccountsInv'
<1>1. Steps(n, "failed") /\ account' = RollbackRows(account, n)
  BY EndSteps DEF AccountsInv, Rollback, Ended
<1>2. AccountsTypeOK'
  BY <1>1, StepsTyped, SettledRows DEF AccountsInv, AccountsTypeOK
<1>3. Asked'
  BY <1>1, StepsAsked DEF AccountsInv, Running, Following
<1>4. Rows'
  BY <1>1, RowsRolledBack DEF AccountsInv, Ended
<1>5. \A a \in Account : /\ account'[a].old = account[a].old
                         /\ account[a].by # n => account'[a] = account[a]
  BY <1>1, RolledBack DEF AccountsInv
<1>6. Decided'
  <2>1. DecidedBy(n)'
    BY <1>1, StepPC DEF AccountsInv, DecidedBy
  <2>2. \A a \in Account : There(a) => There(a)'
    BY <1>5 DEF There
  <2>3. QED  BY <1>1, <1>5, <2>1, <2>2, DecidedStays DEF AccountsInv
<1>7. Banned'
  BY <1>1, <1>5, BannedStays DEF AccountsInv, Following
<1>8. Activated'
  BY <1>1, <1>5, ActivatedStays DEF AccountsInv
<1>9. QED  BY <1>2, <1>3, <1>4, <1>6, <1>7, <1>8 DEF AccountsInv

\* A refusal of a request that follows no link.
LEMMA RefusalKeeps ==
    ASSUME AccountsInv, NEW n \in Request, pc[n] \in Running, Rollback(n),
           UNCHANGED <<link, token, bounds, history>>, pc[n] \notin Following \/ Kind(n) # "verify"
    PROVE  AccountsInv'
<1>1. \A a \in Account : ~Spends(n, a)
  BY DEF Spends
<1>2. QED  BY <1>1, RollbackKeeps DEF AccountsInv, AccountsTypeOK, bounds, history

LEMMA RegisterReadKeeps ==
    ASSUME AccountsInv, NEW n \in Request, RegisterRead(n)
    PROVE  AccountsInv'
<1>1. pc[n] = "read" /\ pc[n] \in Running /\ Kind(n) = "register"
  BY DEF RegisterRead, Running, Following
<1>2. CASE Rollback(n)
  BY <1>1, <1>2, RefusalKeeps DEF RegisterRead
<1>3. CASE Goto(n, "insert") /\ UNCHANGED <<account, local>>
  <2>1. Steps(n, "insert") /\ ask' = ask /\ UNCHANGED <<account, link, token, bounds, history>>
    BY <1>3, GotoSteps DEF AccountsInv, RegisterRead, local, Running, bounds
  <2>2. pc'[n] = "insert" /\ \A a \in Account : ~Spends(n, a)
    BY <1>1, <2>1, StepPC DEF AccountsInv, Spends
  <2>3. DecidedBy(n)'
    BY <2>2 DEF DecidedBy
  <2>4. QED
    BY <1>1, <2>1, <2>2, <2>3, QuietKeeps
       DEF AccountsInv, AccountsTypeOK, history, Running, Following
<1>4. QED  BY <1>2, <1>3 DEF RegisterRead

\* The link of a new account, which nobody could ban so far.
LEMMA LinkKeeps ==
    ASSUME AccountsInv, NEW n \in Request, Link(n)
    PROVE  AccountsInv'
<1>1. pc[n] = "link" /\ pc[n] \in Running /\ Kind(n) = "register" /\ n \in Account /\ ~There(n)
  BY RequestFacts DEF AccountsInv, Asked, Rows, Link, Running, Ended
<1>2. CASE Rollback(n) /\ UNCHANGED link
  BY <1>1, <1>2, RefusalKeeps DEF Link, Following
<1>3. CASE link' = [link EXCEPT ![n] = "live"] /\ Goto(n, "commit") /\ UNCHANGED <<account, local>>
  <2>1. Steps(n, "commit") /\ ask' = ask /\ UNCHANGED <<account, token, bounds, history>>
    BY <1>3, GotoSteps DEF AccountsInv, Link, local, Running, Following, bounds
  <2>2. pc'[n] = "commit" /\ Kind(n)' = "register" /\ \A a \in Account : ~Spends(n, a)
    BY <1>1, <2>1, StepPC DEF AccountsInv, Spends, Kind
  <2>3. DecidedBy(n)'
    BY <2>2 DEF DecidedBy, Deciding
  <2>4. /\ link' \in [Account -> {"none", "live", "used", "expired"}]
        /\ \A a \in Account : link'[a] = "live" /\ There(a) => link[a] = "live"
        /\ \A a \in Account : link'[a] = "used" => link[a] = "used"
    BY <1>1, <1>3 DEF AccountsInv, AccountsTypeOK
  <2>5. QED
    BY <1>1, <2>1, <2>2, <2>3, <2>4, QuietKeeps
       DEF AccountsInv, AccountsTypeOK, history, Kind, Running, Following
<1>4. QED  BY <1>2, <1>3 DEF Link

\* A link that is found live is not one of a banned account.
LEMMA VerifyGetKeeps ==
    ASSUME AccountsInv, NEW n \in Request, VerifyGet(n)
    PROVE  AccountsInv'
<1>1. /\ pc[n] = "get" /\ pc[n] \in Running /\ Kind(n) = "verify"
      /\ UNCHANGED <<account, link, token, bounds, history>>
  BY DEF AccountsInv, Asked, VerifyGet, Running
<1>2. \A a \in Account : ~Spends(n, a)
  BY <1>1 DEF Spends, Following
<1>3. CASE link[ask[n].who] = "live" /\ Goto(n, "delete") /\ UNCHANGED local
  <2>1. Steps(n, "delete") /\ ask' = ask
    BY <1>3, GotoSteps DEF AccountsInv, local, Running, Following
  <2>2. DecidedBy(n)'
    BY <2>1, StepPC DEF AccountsInv, DecidedBy
  <2>3. QED
    BY <1>1, <1>2, <1>3, <2>1, <2>2, QuietKeeps
       DEF AccountsInv, AccountsTypeOK, history, Running, Following
<1>4. CASE End(n, "done")
  <2>1. Steps(n, "done")
    BY <1>4, EndSteps DEF AccountsInv, Ended
  <2>2. DecidedBy(n)'
    BY <2>1, StepPC DEF AccountsInv, DecidedBy
  <2>3. QED
    BY <1>1, <1>2, <2>1, <2>2, QuietKeeps
       DEF AccountsInv, AccountsTypeOK, history, Running, Following
<1>5. QED  BY <1>3, <1>4 DEF VerifyGet

LEMMA VerifyDeleteKeeps ==
    ASSUME AccountsInv, NEW n \in Request, VerifyDelete(n)
    PROVE  AccountsInv'
<1>1. /\ pc[n] = "delete" /\ pc[n] \in Running /\ Kind(n) = "verify" /\ ask[n].who \in Account
      /\ link' = [link EXCEPT ![ask[n].who] = "used"]
      /\ UNCHANGED <<account, token, bounds, history>>
  BY AskFacts DEF AccountsInv, Asked, VerifyDelete, Running, Following, Kind, Deciding
<1>2. Steps(n, "read") /\ ask' = ask
  BY GotoSteps DEF AccountsInv, VerifyDelete, local, Running, Following
<1>3. /\ pc'[n] = "read" /\ \A a \in Account : ~Spends(n, a)
      /\ \A a \in Account : a = ask[n].who => Spends(n, a)'
  BY <1>1, <1>2, StepPC DEF AccountsInv, Spends, Following, Kind
<1>4. DecidedBy(n)'
  BY <1>3 DEF DecidedBy
<1>5. /\ link' \in [Account -> {"none", "live", "used", "expired"}]
      /\ \A a \in Account : link'[a] = "live" => link[a] = "live"
      /\ \A a \in Account : link'[a] = "used" => link[a] = "used" \/ Spends(n, a)'
  BY <1>1, <1>3 DEF AccountsInv, AccountsTypeOK
<1>6. QED
  BY <1>1, <1>2, <1>3, <1>4, <1>5, QuietKeeps
     DEF AccountsInv, AccountsTypeOK, history, Running, Following

\* The link is spent on nothing, or the account is active already, or will be.
LEMMA VerifyReadKeeps ==
    ASSUME AccountsInv, NEW n \in Request, VerifyRead(n)
    PROVE  AccountsInv'
<1> DEFINE a == ask[n].who
<1>1. /\ pc[n] = "read" /\ pc[n] \in Running /\ Kind(n) = "verify" /\ a \in Account
      /\ UNCHANGED <<link, token, bounds, banned, open, account>>
  BY AskFacts DEF AccountsInv, Asked, VerifyRead, Running, Following, Kind, Deciding
<1>2. \A b \in Account : Spends(n, b) => b = a
  BY DEF Spends
<1>3. CASE There(a) /\ ~account[a].old.active
  <2>1. Goto(n, "write") /\ ask' = ask /\ was' = was /\ missed' = missed
    BY <1>3 DEF VerifyRead, local
  <2>2. Steps(n, "write")
    BY <2>1, GotoSteps DEF AccountsInv, Running, Following
  <2>3. pc'[n] = "write" /\ Kind(n)' = "verify" /\ There(a)'
    BY <1>1, <1>3, <2>1, <2>2, StepPC DEF AccountsInv, Kind, There
  <2>4. DecidedBy(n)'
    BY <2>1, <2>3 DEF DecidedBy
  <2>5. \A b \in Account : Spends(n, b) => Spends(n, b)'
    BY <2>1, <2>3 DEF Spends, Following, Kind
  <2>6. QED
    BY <1>1, <2>1, <2>2, <2>3, <2>4, <2>5, QuietKeeps
       DEF AccountsInv, AccountsTypeOK, Running, Following, Deciding
<1>4. CASE ~(There(a) /\ ~account[a].old.active)
  <2>1. End(n, "done") /\ missed' = [missed EXCEPT ![a] = @ \/ ~There(a)]
    BY <1>4 DEF VerifyRead
  <2>2. Steps(n, "done")
    BY <2>1, EndSteps DEF AccountsInv, Ended
  <2>3. DecidedBy(n)'
    BY <2>2, StepPC DEF AccountsInv, DecidedBy
  <2>4. /\ missed' \in [Account -> BOOLEAN]
        /\ \A b \in Account : missed[b] => missed'[b]
        /\ missed'[a] \/ account[a].old.active
    <3>1. missed \in [Account -> BOOLEAN]
      BY DEF AccountsInv, AccountsTypeOK
    <3>2. CASE There(a)
      BY <1>1, <1>4, <2>1, <3>1, <3>2
    <3>3. CASE ~There(a)
      BY <1>1, <2>1, <3>1, <3>3
    <3>4. QED  BY <3>2, <3>3
  <2>5. QED
    BY <1>1, <1>2, <2>2, <2>3, <2>4, QuietKeeps
       DEF AccountsInv, AccountsTypeOK, Running, Following
<1>5. QED  BY <1>3, <1>4

LEMMA DecideReadKeeps ==
    ASSUME AccountsInv, NEW n \in Request, DecideRead(n)
    PROVE  AccountsInv'
<1> DEFINE a == ask[n].who
           there == IF account[a].old.active = (Kind(n) = "unban") THEN "commit" ELSE "write"
<1>1. /\ pc[n] = "read" /\ pc[n] \in Running /\ Kind(n) \in {"ban", "unban"} /\ a \in Account
      /\ UNCHANGED <<link, token, bounds, history>>
  BY AskFacts DEF AccountsInv, Asked, DecideRead, Running, Following, Kind, Deciding
<1>2. CASE Rollback(n)
  BY <1>1, <1>2, RefusalKeeps
<1>3. CASE There(a) /\ was' = [was EXCEPT ![n] = account[a].old.active] /\ Goto(n, there)
           /\ UNCHANGED <<account, ask>>
  <2>1. there \in {"commit", "write"} /\ account[a].old.active \in BOOLEAN
    BY <1>1, RowFacts, RequestFacts DEF AccountsInv, User
  <2>2. Steps(n, there)
    BY <1>3, <2>1, GotoSteps DEF AccountsInv, Running, Following
  <2>3. /\ pc'[n] = there /\ Kind(n)' = Kind(n) /\ There(a)'
        /\ was'[n] = account[a].old.active
    BY <1>1, <1>3, <2>2, StepPC DEF AccountsInv, AccountsTypeOK, Kind, There
  <2>4. DecidedBy(n)'
    BY <1>1, <1>3, <2>1, <2>3 DEF DecidedBy, Deciding
  <2>5. \A b \in Account : ~Spends(n, b)
    BY <1>1 DEF Spends
  <2>6. QED
    BY <1>1, <1>3, <2>1, <2>2, <2>3, <2>4, <2>5, QuietKeeps
       DEF AccountsInv, AccountsTypeOK, history, Running, Following, Deciding, Kind
<1>4. QED  BY <1>2, <1>3 DEF DecideRead

LEMMA LoginKeeps ==
    ASSUME AccountsInv, NEW n \in Request, Login(n)
    PROVE  AccountsInv'
<1>1. /\ pc[n] = "read" /\ pc[n] \in Running /\ Kind(n) = "login"
      /\ UNCHANGED <<account, link, bounds, history>> /\ token' \subseteq Account
  BY DEF AccountsInv, AccountsTypeOK, Login, Running, Following
<1>2. PICK there \in Ended : End(n, there)
  BY DEF Login, Ended
<1>3. Steps(n, there)
  BY <1>2, EndSteps DEF AccountsInv
<1>4. DecidedBy(n)' /\ \A a \in Account : ~Spends(n, a)
  BY <1>1, <1>3, StepPC DEF AccountsInv, DecidedBy, Spends, Ended
<1>5. QED
  BY <1>1, <1>2, <1>3, <1>4, QuietKeeps
     DEF AccountsInv, AccountsTypeOK, history, Running, Following, Ended

\* Only a request that has found its account active gets past the check.
LEMMA CheckKeeps ==
    ASSUME AccountsInv, NEW n \in Request, Check(n)
    PROVE  AccountsInv'
<1>1. /\ pc[n] = "read" /\ pc[n] \in Running /\ Kind(n) = "act"
      /\ UNCHANGED <<link, token, bounds, history>>
  BY DEF Check, Running, Following
<1>2. CASE account[ask[n].who].old.active /\ Goto(n, "work") /\ UNCHANGED <<account, local>>
  <2>1. Steps(n, "work") /\ ask' = ask
    BY <1>2, GotoSteps DEF AccountsInv, local, Running
  <2>2. DecidedBy(n)' /\ \A a \in Account : ~Spends(n, a)
    BY <1>1, <2>1, StepPC DEF AccountsInv, DecidedBy, Spends
  <2>3. QED
    BY <1>1, <1>2, <2>1, <2>2, QuietKeeps
       DEF AccountsInv, AccountsTypeOK, history, Running, Following
<1>3. CASE Rollback(n)
  BY <1>1, <1>3, RefusalKeeps
<1>4. QED  BY <1>2, <1>3 DEF Check

LEMMA WorkKeeps ==
    ASSUME AccountsInv, NEW n \in Request, Work(n)
    PROVE  AccountsInv'
<1>1. /\ pc[n] = "work" /\ pc[n] \in Running /\ Kind(n) = "act"
      /\ UNCHANGED <<account, link, token, bounds, history>>
  BY DEF AccountsInv, Asked, Work, Running
<1>2. Steps(n, "commit") /\ ask' = ask
  BY GotoSteps DEF AccountsInv, Work, local, Running, Following
<1>3. DecidedBy(n)' /\ \A a \in Account : ~Spends(n, a)
  BY <1>1, <1>2, StepPC DEF AccountsInv, DecidedBy, Spends, Kind, Deciding
<1>4. QED
  BY <1>1, <1>2, <1>3, QuietKeeps
     DEF AccountsInv, AccountsTypeOK, history, Running, Following, Kind

(***************************************************************************)
(* Steps that write rows                                                   *)
(***************************************************************************)
LEMMA ArriveKeeps ==
    ASSUME AccountsInv, NEW n \in Request, NEW q \in Ask, Arrive(n, q)
    PROVE  AccountsInv'
<1> DEFINE there == IF q.kind = "verify" THEN "get" ELSE "read"
<1>1. /\ n = arrived + 1 /\ arrived' = n /\ pc[n] = "idle"
      /\ UNCHANGED <<account, link, token, was, faults, history>>
  <2>1. n = arrived + 1 /\ arrived' = n /\ UNCHANGED <<account, link, token, was, faults, history>>
    BY DEF Arrive
  <2>2. ~(n <= arrived)
    BY <2>1, RequestFacts DEF AccountsInv, AccountsTypeOK
  <2>3. pc[n] = "idle"
    BY <2>2 DEF AccountsInv, Asked
  <2>4. QED  BY <2>1, <2>3
<1>2. /\ Steps(n, there) /\ ask'[n] = q /\ pc'[n] = there
      /\ there \in {"get", "read"} /\ (q.kind = "verify" => there = "get")
      /\ there = "get" => q.kind = "verify"
  BY DEF AccountsInv, AccountsTypeOK, Arrive, Goto, Steps, Running, Following
<1> HIDE DEF there
<1>3. AccountsTypeOK'
  <2>1. arrived' \in 0..MaxRequests
    BY <1>1 DEF Request
  <2>2. UNCHANGED <<account, link, token, faults, banned, open, missed>>
    BY <1>1 DEF history
  <2>3. QED  BY <1>2, <2>1, <2>2, StepsTyped DEF AccountsInv, AccountsTypeOK
<1>4. Asked'
  <2> SUFFICES ASSUME NEW m \in Request
               PROVE  /\ pc'[m] # "idle" => m <= arrived'
                      /\ pc'[m] \in Running => ask'[m] \in Ask
                      /\ pc'[m] \in {"get", "delete"} => Kind(m)' = "verify"
                      /\ pc'[m] \in {"insert", "link"} => Kind(m)' = "register"
                      /\ pc'[m] = "write" => Kind(m)' \in Deciding
                      /\ pc'[m] = "work" => Kind(m)' = "act"
    BY DEF Asked
  <2>1. CASE m = n
    BY <1>1, <1>2, <2>1, RequestFacts DEF Kind
  <2>2. CASE m # n
    <3>1. pc'[m] = pc[m] /\ ask'[m] = ask[m] /\ Kind(m)' = Kind(m)
      BY <1>2, <2>2, StepPC DEF AccountsInv, Kind
    <3>2. m <= arrived => m <= arrived'
      BY <1>1, RequestFacts DEF AccountsInv, AccountsTypeOK
    <3>3. QED  BY <3>1, <3>2 DEF AccountsInv, Asked
  <2>3. QED  BY <2>1, <2>2
<1>5. Rows'
  BY <1>1, <1>2, RowsStay DEF AccountsInv, Ended
<1>6. Decided'
  <2>1. DecidedBy(n)'
    BY <1>2 DEF DecidedBy
  <2>2. QED  BY <1>1, <1>2, <2>1, DecidedStays DEF AccountsInv, There
<1>7. Banned'
  BY <1>1, <1>2, BannedStays DEF AccountsInv, history, Following
<1>8. Activated'
  <2>1. \A a \in Account : ~Spends(n, a)
    BY <1>1 DEF Spends, Following
  <2>2. QED
    BY <1>1, <1>2, <2>1, ActivatedStays DEF AccountsInv, AccountsTypeOK, history
<1>9. QED  BY <1>3, <1>4, <1>5, <1>6, <1>7, <1>8 DEF AccountsInv

\* The unique index lets a name in if no row has it, so the row is nobody's.
LEMMA InsertKeeps ==
    ASSUME AccountsInv, NEW n \in Request, Insert(n)
    PROVE  AccountsInv'
<1> DEFINE there == IF ask[n].via = "api" THEN "commit" ELSE "link"
<1>1. /\ pc[n] = "insert" /\ pc[n] \in Running /\ Kind(n) = "register" /\ ask[n] \in Ask
      /\ UNCHANGED <<link, token, bounds, history>> /\ n \in Account /\ ~There(n)
  BY RequestFacts DEF AccountsInv, Asked, Rows, Insert, Running, Ended
<1>2. CASE Rollback(n)
  BY <1>1, <1>2, RefusalKeeps DEF Following
<1>3. CASE ~Taken(ask[n].name)
  <2>1. PICK row \in User : account' = Write(account, n, row, n)
    <3>1. ask[n].name \in Name
      BY <1>1, AskFacts DEF Kind
    <3>2. [name |-> ask[n].name, active |-> ask[n].via = "api"] \in User
      BY <3>1 DEF User
    <3>3. QED  BY <1>3, <3>2 DEF Insert
  <2>2. /\ account' \in [Account -> Versions(User \cup {Gone}, Request)]
        /\ \A a \in Account : /\ account'[a].old = account[a].old
                              /\ a # n => account'[a] = account[a]
        /\ account'[n].new = row /\ account'[n].by = n
    BY <1>1, <1>3, <2>1, WrittenRow DEF AccountsInv
  <2>3. Steps(n, there) /\ ask' = ask /\ was' = was
    <3>1. Goto(n, there) /\ UNCHANGED local /\ there \in Running
      BY <1>3 DEF Insert, Running, Following
    <3>2. QED  BY <3>1, GotoSteps DEF AccountsInv, local
  <2>4. pc'[n] = there /\ Kind(n)' = "register" /\ \A a \in Account : ~Spends(n, a)
    BY <1>1, <2>3, StepPC DEF AccountsInv, Spends, Kind
  <2>5. AccountsTypeOK'
    BY <1>1, <2>2, <2>3, StepsTyped DEF AccountsInv, AccountsTypeOK, bounds, history
  <2>6. Asked'
    BY <1>1, <2>3, StepsAsked DEF AccountsInv, bounds
  <2>7. Rows'
    <3> SUFFICES ASSUME NEW a \in Account
                 PROVE  /\ There(a)' => account'[a].new \in User
                        /\ There(a)' /\ a \in Request => pc'[a] \in Ended
                        /\ account'[a].by # Nobody => account'[a].new \in User
                        /\ \A m \in Request : account'[a].by = m =>
                              pc'[m] \in {"link", "commit"} /\ (Inserts(m, a)' \/ Decides(m, a)')
      BY DEF Rows
    <3>1. CASE a = n
      BY <1>1, <2>1, <2>2, <2>4, <3>1 DEF Inserts, There
    <3>2. CASE a # n
      <4>1. account'[a] = account[a] /\ (There(a)' <=> There(a)) /\ account[a].by # n
        BY <1>1, <2>2, <3>2, HoldsNothing DEF AccountsInv, There
      <4>2. a \in Request => pc'[a] = pc[a]
        BY <2>3, <3>2, StepPC DEF AccountsInv
      <4>3. ASSUME NEW m \in Request, account'[a].by = m
            PROVE  pc'[m] \in {"link", "commit"} /\ (Inserts(m, a)' \/ Decides(m, a)')
        BY <2>3, <4>1, <4>3, OthersHold DEF AccountsInv, Rows
      <4>4. QED  BY <4>1, <4>2, <4>3 DEF AccountsInv, Rows
    <3>3. QED  BY <3>1, <3>2
  <2>8. Decided'
    <3>1. DecidedBy(n)'
      BY <2>4 DEF DecidedBy, Deciding
    <3>2. /\ \A a \in Account : There(a) => There(a)'
          /\ \A a \in Account : \A m \in Request \ {n} : account[a].by = m => account'[a].by = m
      <4>1. account[n].by = Nobody
        <5>1. ASSUME NEW m \in Request, account[n].by = m PROVE FALSE
          <6>1. pc[m] \in {"link", "commit"} /\ (Inserts(m, n) \/ Decides(m, n))
            BY <1>1, <5>1 DEF AccountsInv, Rows
          <6>2. QED  BY <1>1, <6>1 DEF Inserts, Decides
        <5>2. QED  BY <1>1, <5>1, RowFacts DEF AccountsInv
      <4>2. QED  BY <2>2, <4>1, RequestFacts DEF There
    <3>3. QED  BY <2>3, <3>1, <3>2, DecidedStays DEF AccountsInv
  <2>9. Banned'
    BY <1>1, <2>2, <2>3, <2>4, BannedStays DEF AccountsInv, history, Kind
  <2>10. Activated'
    BY <1>1, <2>2, <2>3, <2>4, ActivatedStays DEF AccountsInv, history
  <2>11. QED  BY <2>5, <2>6, <2>7, <2>8, <2>9, <2>10 DEF AccountsInv
<1>4. CASE Taken(ask[n].name)
  BY <1>2, <1>4 DEF Insert
<1>5. QED  BY <1>3, <1>4

\* is_active is written to a row there is, and committed with the request.
LEMMA SetActiveKeeps ==
    ASSUME AccountsInv, NEW n \in Request, SetActive(n)
    PROVE  AccountsInv'
<1>1. /\ pc[n] = "write" /\ pc[n] \in Running /\ Kind(n) \in Deciding /\ ask[n].who \in Account
      /\ There(ask[n].who) /\ UNCHANGED <<link, token, bounds, history>>
  BY AskFacts DEF AccountsInv, Asked, Decided, SetActive, Running, Following, Kind
<1>a. PICK a \in Account : a = ask[n].who
  BY <1>1
<1>b. There(a)
  BY <1>1, <1>a
<1>2. PICK row \in User : account' = Write(account, a, row, n) /\ row.active = (Kind(n) # "ban")
  <2>1. PICK active \in BOOLEAN : active = (Kind(n) # "ban")
    OBVIOUS
  <2>2. account' = Write(account, a, [account[a].new EXCEPT !.active = active], n)
    BY <1>a, <2>1, Zenon DEF SetActive
  <2>3. /\ [account[a].new EXCEPT !.active = active] \in User
        /\ [account[a].new EXCEPT !.active = active].active = active
    BY <1>b DEF AccountsInv, Rows, User
  <2>4. QED  BY <2>1, <2>2, <2>3, Zenon
<1>3. /\ account' \in [Account -> Versions(User \cup {Gone}, Request)]
      /\ \A b \in Account : /\ account'[b].old = account[b].old
                            /\ b # a => account'[b] = account[b]
      /\ account'[a].new = row /\ account'[a].by = n
  BY <1>2, WrittenRow DEF AccountsInv
<1>4. Steps(n, "commit") /\ ask' = ask /\ was' = was
  BY GotoSteps DEF AccountsInv, SetActive, local, Running, Following
<1>5. pc'[n] = "commit" /\ Kind(n)' = Kind(n)
  BY <1>4, StepPC DEF AccountsInv, Kind
<1>6. AccountsTypeOK'
  BY <1>1, <1>3, <1>4, StepsTyped DEF AccountsInv, AccountsTypeOK, bounds, history
<1>7. Asked'
  BY <1>1, <1>4, StepsAsked DEF AccountsInv, bounds
<1>8. Rows'
  <2> SUFFICES ASSUME NEW b \in Account
               PROVE  /\ There(b)' => account'[b].new \in User
                      /\ There(b)' /\ b \in Request => pc'[b] \in Ended
                      /\ account'[b].by # Nobody => account'[b].new \in User
                      /\ \A m \in Request : account'[b].by = m =>
                            pc'[m] \in {"link", "commit"} /\ (Inserts(m, b)' \/ Decides(m, b)')
    BY DEF Rows
  <2>1. (There(b)' <=> There(b)) /\ (There(b)' /\ b \in Request => pc'[b] \in Ended)
    <3>1. There(b)' <=> There(b)
      BY <1>3 DEF There
    <3>2. There(b) /\ b \in Request => pc[b] \in Ended /\ b # n
      BY <1>1 DEF AccountsInv, Rows, Ended
    <3>3. QED  BY <1>4, <3>1, <3>2, StepPC DEF AccountsInv
  <2>2. CASE b = a
    <3>1. account'[b].new = row /\ account'[b].by = n /\ There(b)'
      BY <1>b, <1>3, <2>1, <2>2
    <3>2. Decides(n, b)'
      BY <1>1, <1>2, <1>a, <1>4, <1>5, <2>2, <3>1 DEF Decides
    <3>3. QED  BY <1>2, <1>5, <2>1, <3>1, <3>2
  <2>3. CASE b # a
    <3>1. account'[b] = account[b] /\ account[b].by # n
      BY <1>1, <1>3, <2>3, HoldsNothing DEF AccountsInv
    <3>2. ASSUME NEW m \in Request, account'[b].by = m
          PROVE  pc'[m] \in {"link", "commit"} /\ (Inserts(m, b)' \/ Decides(m, b)')
      BY <1>4, <3>1, <3>2, OthersHold DEF AccountsInv, Rows
    <3>3. QED  BY <2>1, <3>1, <3>2 DEF AccountsInv, Rows
  <2>4. QED  BY <2>2, <2>3
<1>9. Decided'
  <2>1. DecidedBy(n)'
    <3>1. \A b \in Account : b = ask'[n].who => There(b)' /\ account'[b].by = n
      BY <1>a, <1>b, <1>3, <1>4 DEF There
    <3>2. ask'[n].who \in Account
      BY <1>1, <1>4
    <3>3. QED  BY <1>5, <3>1, <3>2 DEF DecidedBy, There
  <2>2. /\ \A b \in Account : There(b) => There(b)'
        /\ \A b \in Account : \A m \in Request \ {n} : account[b].by = m => account'[b].by = m
    <3>1. account[a].by \in {Nobody, n}
      BY <1>a DEF SetActive, MayWrite
    <3>2. QED  BY <1>3, <3>1, RequestFacts DEF There
  <2>3. QED  BY <1>4, <2>1, <2>2, DecidedStays DEF AccountsInv
<1>10. Banned'
  BY <1>1, <1>3, <1>4, BannedStays DEF AccountsInv, history, Following
<1>11. Activated'
  <2>1. \A b \in Account : Spends(n, b) => Spends(n, b)'
    BY <1>4, <1>5 DEF Spends, Following, Kind
  <2>2. QED  BY <1>1, <1>3, <1>4, <2>1, ActivatedStays DEF AccountsInv, history
<1>12. QED  BY <1>6, <1>7, <1>8, <1>9, <1>10, <1>11 DEF AccountsInv

\* What a ban or an unban notes when it is committed.
LEMMA CommitNotes ==
    ASSUME AccountsInv, NEW n \in Request, Commit(n)
    PROVE  /\ banned' \in [Account -> 0..MaxRequests] /\ open' \in [Account -> BOOLEAN]
           /\ Kind(n) = "ban" => \A a \in Account : a = ask[n].who =>
                 /\ banned'[a] = arrived
                 /\ ~open'[a] => /\ link[a] # "live" /\ ~Followed(a, n)
                                 /\ ~(account[a].old.active /\ ~was[n])
           /\ \A a \in Account :
                 \/ Kind(n) = "ban" /\ a = ask[n].who
                 \/ Kind(n) = "unban" /\ a = ask[n].who /\ account[a].by = n
                 \/ banned'[a] = banned[a] /\ open'[a] = open[a]
           /\ Kind(n) = "unban" => \A a \in Account : a = ask[n].who /\ account[a].by = n =>
                 banned'[a] = Never
<1>1. /\ banned \in [Account -> 0..MaxRequests] /\ open \in [Account -> BOOLEAN]
      /\ arrived \in 0..MaxRequests /\ Never \in 0..MaxRequests
  BY RequestsAssumption DEF AccountsInv, AccountsTypeOK, Never
<1>2. CASE Kind(n) = "ban"
  <2>1. PICK way \in BOOLEAN : way = WayBack(ask[n].who, n)
    BY DEF WayBack
  <2>2. /\ banned' = [banned EXCEPT ![ask[n].who] = arrived]
        /\ open' = [open EXCEPT ![ask[n].who] = way]
    BY <1>2, <2>1, Zenon DEF Commit
  <2>3. ~way => /\ link[ask[n].who] # "live" /\ ~Followed(ask[n].who, n)
                /\ ~(account[ask[n].who].old.active /\ ~was[n])
    BY <2>1 DEF WayBack
  <2>4. QED  BY <1>1, <1>2, <2>2, <2>3
<1>3. CASE Kind(n) = "unban" /\ account[ask[n].who].by = n
  BY <1>1, <1>3 DEF Commit
<1>4. CASE Kind(n) # "ban" /\ ~(Kind(n) = "unban" /\ account[ask[n].who].by = n)
  <2>1. banned' = banned /\ open' = open
    BY <1>4 DEF Commit
  <2>2. QED  BY <1>1, <1>4, <2>1
<1>5. QED  BY <1>2, <1>3, <1>4

\* What a request that commits has written.
LEMMA CommitWrites ==
    ASSUME AccountsInv, NEW n \in Request, pc[n] = "commit", NEW a \in Account, account[a].by = n
    PROVE  /\ account[a].new \in User
           /\ There(a) => Kind(n) \in Deciding /\ ask[n].who = a
           /\ Kind(n) = "ban" => ~account[a].new.active
           /\ Kind(n) \in {"verify", "unban"} => account[a].new.active
           /\ a \in Request => a = n \/ pc[a] \in Ended
<1>1. account[a].new \in User /\ (Inserts(n, a) \/ Decides(n, a))
  BY RequestFacts DEF AccountsInv, Rows
<1>2. a = n => ~There(a)
  BY DEF AccountsInv, Rows, Ended
<1>3. Decides(n, a) => (account[a].new.active <=> Kind(n) # "ban")
  BY DEF Decides
<1>4. QED  BY <1>1, <1>2, <1>3 DEF Inserts, Decides, Deciding, AccountsInv, Rows

LEMMA CommitKeeps ==
    ASSUME AccountsInv, NEW n \in Request, Commit(n)
    PROVE  AccountsInv'
<1>1. /\ pc[n] = "commit" /\ pc[n] \in Running /\ account' = CommitRows(account, n)
      /\ link' = link /\ token' = token /\ arrived' = arrived /\ faults' = faults /\ missed' = missed
  BY DEF Commit, Running, Following, bounds
<1>2. Steps(n, "done") /\ pc'[n] = "done"
  BY EndSteps, StepPC DEF AccountsInv, Commit, Ended
<1>3. \A a \in Account :
        /\ account[a].by # n => account'[a] = account[a]
        /\ account[a].by = n => /\ account'[a].old = account[a].new
                                /\ account'[a].new = account[a].new
                                /\ account'[a].by = Nobody
  BY <1>1, CommittedRow DEF AccountsInv
<1>4. AccountsTypeOK'
  BY <1>1, <1>2, SettledRows, CommitNotes, StepsTyped DEF AccountsInv, AccountsTypeOK
<1>5. Asked'
  BY <1>1, <1>2, StepsAsked DEF AccountsInv, Running, Following
<1>6. \A a \in Account : There(a) => There(a)'
  BY <1>1, <1>3, CommitWrites, RequestFacts DEF There
<1>7. Rows'
  <2> SUFFICES ASSUME NEW a \in Account
               PROVE  /\ There(a)' => account'[a].new \in User
                      /\ There(a)' /\ a \in Request => pc'[a] \in Ended
                      /\ account'[a].by # Nobody => account'[a].new \in User
                      /\ \A m \in Request : account'[a].by = m =>
                            pc'[m] \in {"link", "commit"} /\ (Inserts(m, a)' \/ Decides(m, a)')
    BY DEF Rows
  <2>1. CASE account[a].by = n
    <3>1. account[a].new \in User /\ (a \in Request => a = n \/ pc[a] \in Ended)
      BY <1>1, <2>1, CommitWrites
    <3>2. a \in Request => pc'[a] \in Ended
      BY <1>2, <3>1, StepPC DEF AccountsInv, Ended
    <3>3. QED  BY <1>3, <2>1, <3>1, <3>2, RequestFacts
  <2>2. CASE account[a].by # n
    <3>1. account'[a] = account[a] /\ (There(a)' <=> There(a))
      BY <1>3, <2>2 DEF There
    <3>2. There(a)' /\ a \in Request => pc'[a] \in Ended
      BY <1>2, <3>1, StepPC DEF AccountsInv, Rows, Ended
    <3>3. ASSUME NEW m \in Request, account'[a].by = m
          PROVE  pc'[m] \in {"link", "commit"} /\ (Inserts(m, a)' \/ Decides(m, a)')
      BY <1>2, <2>2, <3>1, <3>3, OthersHold DEF AccountsInv, Rows
    <3>4. QED  BY <3>1, <3>2, <3>3 DEF AccountsInv, Rows
  <2>3. QED  BY <2>1, <2>2
<1>8. Decided'
  <2>1. DecidedBy(n)'
    BY <1>2 DEF DecidedBy
  <2>2. \A a \in Account : \A m \in Request \ {n} : account[a].by = m => account'[a].by = m
    BY <1>3
  <2>3. QED  BY <1>2, <1>6, <2>1, <2>2, DecidedStays DEF AccountsInv
<1>9. Banned'
  <2> SUFFICES ASSUME NEW a \in Account, banned'[a] # Never, ~open'[a]
               PROVE  /\ There(a)' /\ ~account'[a].old.active
                      /\ link'[a] # "live"
                      /\ \A m \in Request : ~Verifies(m, a)'
                      /\ \A m \in Request : pc'[m] = "work" /\ ask'[m].who = a => m <= banned'[a]
    BY DEF Banned
  <2>1. \A m \in Request : Verifies(m, a)' => m # n /\ Verifies(m, a)
    BY <1>2, StepPC DEF AccountsInv, Verifies, Following, Kind
  <2>2. \A m \in Request : pc'[m] = "work" /\ ask'[m].who = a =>
           m # n /\ pc[m] = "work" /\ ask[m].who = a
    BY <1>2, StepPC DEF AccountsInv
  <2>3. CASE Kind(n) = "ban" /\ a = ask[n].who
    <3>1. /\ banned'[a] = arrived /\ link[a] # "live" /\ ~Followed(a, n)
          /\ ~(account[a].old.active /\ ~was[n])
      BY <2>3, CommitNotes
    <3>2. There(a) /\ (was[n] => account[a].by = n)
      BY <1>1, <2>3 DEF AccountsInv, Decided, Deciding
    <3>3. ~account'[a].old.active
      BY <1>1, <1>3, <2>3, <3>1, <3>2, CommitWrites
    <3>4. \A m \in Request : ~Verifies(m, a)'
      BY <2>1, <3>1 DEF Followed, Verifies
    <3>5. \A m \in Request : pc[m] = "work" => m <= arrived
      BY DEF AccountsInv, Asked
    <3>6. QED  BY <1>1, <1>6, <2>2, <3>1, <3>2, <3>3, <3>4, <3>5
  <2>4. CASE Kind(n) = "unban" /\ a = ask[n].who /\ account[a].by = n
    BY <2>4, CommitNotes
  <2>5. CASE /\ ~(Kind(n) = "ban" /\ a = ask[n].who)
             /\ ~(Kind(n) = "unban" /\ a = ask[n].who /\ account[a].by = n)
    <3>1. banned'[a] = banned[a] /\ open'[a] = open[a]
      BY <2>5, CommitNotes
    <3>2. /\ There(a) /\ ~account[a].old.active /\ link[a] # "live"
          /\ \A m \in Request : ~Verifies(m, a)
          /\ \A m \in Request : pc[m] = "work" /\ ask[m].who = a => m <= banned[a]
      BY <3>1 DEF AccountsInv, Banned
    <3>3. account[a].by # n
      <4>1. SUFFICES ASSUME account[a].by = n PROVE FALSE
        OBVIOUS
      <4>2. Kind(n) \in Deciding /\ ask[n].who = a
        BY <1>1, <3>2, <4>1, CommitWrites
      <4>3. Kind(n) = "verify"
        BY <2>5, <4>1, <4>2 DEF Deciding
      <4>4. QED  BY <1>1, <3>2, <4>2, <4>3 DEF Verifies, Following
    <3>4. QED  BY <1>1, <1>3, <1>6, <2>1, <2>2, <3>1, <3>2, <3>3
  <2>6. QED  BY <2>3, <2>4, <2>5
<1>10. Activated'
  <2> SUFFICES ASSUME NEW a \in Account, link[a] = "used", banned'[a] = Never, ~missed[a],
                      \A m \in Request : ~Spends(m, a)'
               PROVE  account'[a].old.active
    BY <1>1 DEF Activated
  <2>1. Kind(n) = "ban" => ask[n].who # a
    <3>1. arrived # Never
      BY <1>1, RequestFacts DEF AccountsInv, AccountsTypeOK, Asked, Never, Request
    <3>2. QED  BY <3>1, CommitNotes
  <2>2. CASE Spends(n, a)
    <3>1. Kind(n) = "verify" /\ account[a].by = n
      BY <1>1, <2>2 DEF AccountsInv, Decided, Spends
    <3>2. QED  BY <1>1, <1>3, <3>1, CommitWrites
  <2>3. CASE Kind(n) = "unban" /\ a = ask[n].who /\ account[a].by = n
    BY <1>1, <1>3, <2>3, CommitWrites
  <2>4. CASE ~Spends(n, a) /\ ~(Kind(n) = "unban" /\ a = ask[n].who /\ account[a].by = n)
    <3>1. \A m \in Request : ~Spends(m, a)
      BY <1>2, <2>4, StepPC DEF AccountsInv, Spends, Kind
    <3>2. banned[a] = Never
      BY <2>1, <2>4, CommitNotes
    <3>3. account[a].old.active /\ There(a)
      BY <3>1, <3>2, RowFacts DEF AccountsInv, Activated
    <3>4. account[a].by = n => account[a].new.active
      BY <1>1, <2>1, <3>3, CommitWrites DEF Deciding
    <3>5. QED  BY <1>3, <3>3, <3>4
  <2>5. QED  BY <2>2, <2>3, <2>4
<1>11. QED  BY <1>4, <1>5, <1>7, <1>8, <1>9, <1>10 DEF AccountsInv

LEMMA DieKeeps ==
    ASSUME AccountsInv, NEW n \in Request, Die(n)
    PROVE  AccountsInv'
<1>1. /\ pc[n] \in Running /\ Rollback(n) /\ UNCHANGED <<link, token, arrived, banned, open>>
      /\ faults' \in 0..MaxFaults
  BY FaultsAssumption DEF AccountsInv, AccountsTypeOK, Die
<1>2. /\ missed' \in [Account -> BOOLEAN]
      /\ \A a \in Account : missed[a] \/ Spends(n, a) => missed'[a]
  BY DEF AccountsInv, AccountsTypeOK, Die, Spends
<1>3. QED  BY <1>1, <1>2, RollbackKeeps

\* What the links have no part in.
LEMMA AllButLinks ==
    ASSUME Asked, Rows, Decided, UNCHANGED <<account, pc, ask, was, arrived>>
    PROVE  Asked' /\ Rows' /\ Decided'
<1>1. Asked'
  BY DEF Asked, Kind
<1>2. Rows'
  BY DEF Rows, Inserts, Decides, There, Kind
<1>3. Decided'
  BY DEF Decided, There, Kind
<1>4. QED  BY <1>1, <1>2, <1>3

LEMMA ExpireKeeps ==
    ASSUME AccountsInv, NEW a \in Account, Expire(a)
    PROVE  AccountsInv'
<1>1. /\ UNCHANGED <<account, token, pc, ask, was, arrived, faults, banned, open, missed>>
      /\ link' = [link EXCEPT ![a] = "expired"]
  BY DEF Expire, local, bounds, history
<1>2. AccountsTypeOK'
  BY <1>1 DEF AccountsInv, AccountsTypeOK
<1>3. Asked' /\ Rows' /\ Decided'
  BY <1>1, AllButLinks DEF AccountsInv
<1>4. \A b \in Account : /\ link'[b] = "live" => link[b] = "live"
                         /\ link'[b] = "used" => link[b] = "used"
  BY <1>1 DEF AccountsInv, AccountsTypeOK
<1>5. Banned'
  BY <1>1, <1>4 DEF AccountsInv, Banned, Verifies, There, Kind
<1>6. Activated'
  BY <1>1, <1>4 DEF AccountsInv, Activated, Spends, Kind
<1>7. QED  BY <1>2, <1>3, <1>5, <1>6 DEF AccountsInv

LEMMA NothingKeeps ==
    ASSUME AccountsInv, UNCHANGED vars
    PROVE  AccountsInv'
<1>1. UNCHANGED <<account, link, token, pc, ask, was, arrived, faults, banned, open, missed>>
  BY DEF vars, local, bounds, history
<1>2. AccountsTypeOK'
  BY <1>1 DEF AccountsInv, AccountsTypeOK
<1>3. Asked' /\ Rows' /\ Decided'
  BY <1>1, AllButLinks DEF AccountsInv
<1>4. Banned'
  BY <1>1 DEF AccountsInv, Banned, Verifies, There, Kind
<1>5. Activated'
  BY <1>1 DEF AccountsInv, Activated, Spends, Kind
<1>6. QED  BY <1>2, <1>3, <1>4, <1>5 DEF AccountsInv

(***************************************************************************)
(* The theorems                                                            *)
(***************************************************************************)
LEMMA InitEstablishes == Init => AccountsInv
<1> SUFFICES ASSUME Init PROVE AccountsInv
  OBVIOUS
<1>1. PICK name \in Name, l \in {"none", "live", "used"} :
         /\ account = [a \in Account |->
                         Committed(IF a = First THEN [name |-> name, active |-> l # "live"] ELSE Gone)]
         /\ link = [a \in Account |-> IF a = First THEN l ELSE "none"]
         /\ token \in SUBSET (IF l = "live" THEN {} ELSE {First})
  BY DEF Init
<1>2. PICK active \in BOOLEAN : active = (l # "live")
  OBVIOUS
<1>3. [name |-> name, active |-> active] \in User
  BY DEF User
<1>4. account = [a \in Account |->
                   Committed(IF a = First THEN [name |-> name, active |-> active] ELSE Gone)]
  BY <1>1, <1>2, Zenon
<1>5. /\ pc = [n \in Request |-> "idle"] /\ ask = [n \in Request |-> Nothing]
      /\ was = [n \in Request |-> FALSE] /\ arrived = 0 /\ faults = 0
      /\ banned = [a \in Account |-> Never] /\ open = [a \in Account |-> FALSE]
      /\ missed = [a \in Account |-> FALSE]
  BY DEF Init
<1>6. AccountsTypeOK
  <2>1. account \in [Account -> Versions(User \cup {Gone}, Request)]
    BY <1>3, <1>4 DEF Committed, Versions
  <2>2. token \subseteq Account
    BY <1>1, RequestFacts
  <2>3. link \in [Account -> {"none", "live", "used", "expired"}]
    <3>1. link = [a \in Account |-> IF a = First THEN l ELSE "none"]
      BY <1>1
    <3>2. QED  BY <3>1
  <2>4. /\ pc \in [Request -> {"idle"} \cup Running \cup Ended]
        /\ ask \in [Request -> Ask \cup {Nothing}] /\ was \in [Request -> BOOLEAN]
    BY <1>5
  <2>5. /\ arrived \in 0..MaxRequests /\ faults \in 0..MaxFaults
        /\ banned \in [Account -> 0..MaxRequests]
        /\ open \in [Account -> BOOLEAN] /\ missed \in [Account -> BOOLEAN]
    BY <1>5, RequestsAssumption, FaultsAssumption DEF Never
  <2>6. QED  BY <2>1, <2>2, <2>3, <2>4, <2>5 DEF AccountsTypeOK
<1>7. Asked /\ Decided
  BY <1>5 DEF Asked, Decided, Running, Following
<1>8. \A a \in Account : /\ There(a) => a = First /\ account[a].new \in User
                         /\ account[a].by = Nobody
                         /\ a = First => account[a].old.active = active
  BY <1>3, <1>4 DEF There, Committed
<1>9. Rows
  BY <1>8, RequestFacts DEF Rows
<1>10. Banned
  BY <1>5 DEF Banned
<1>11. Activated
  BY <1>1, <1>2, <1>5, <1>8 DEF Activated
<1>12. QED  BY <1>6, <1>7, <1>9, <1>10, <1>11 DEF AccountsInv

LEMMA StepKeeps == AccountsInv /\ [Next]_vars => AccountsInv'
<1> SUFFICES ASSUME AccountsInv, [Next]_vars PROVE AccountsInv'
  OBVIOUS
<1>1. ASSUME NEW n \in Request, NEW a \in Ask, Arrive(n, a) PROVE AccountsInv'
  BY <1>1, ArriveKeeps
<1>2. ASSUME NEW n \in Request, RegisterRead(n) \/ Insert(n) \/ Link(n) PROVE AccountsInv'
  BY <1>2, RegisterReadKeeps, InsertKeeps, LinkKeeps
<1>3. ASSUME NEW n \in Request, VerifyGet(n) \/ VerifyDelete(n) \/ VerifyRead(n) PROVE AccountsInv'
  BY <1>3, VerifyGetKeeps, VerifyDeleteKeeps, VerifyReadKeeps
<1>4. ASSUME NEW n \in Request, DecideRead(n) \/ SetActive(n) PROVE AccountsInv'
  BY <1>4, DecideReadKeeps, SetActiveKeeps
<1>5. ASSUME NEW n \in Request, Login(n) \/ Check(n) \/ Work(n) PROVE AccountsInv'
  BY <1>5, LoginKeeps, CheckKeeps, WorkKeeps
<1>6. ASSUME NEW n \in Request, Commit(n) \/ Die(n) PROVE AccountsInv'
  BY <1>6, CommitKeeps, DieKeeps
<1>7. ASSUME NEW a \in Account, Expire(a) PROVE AccountsInv'
  BY <1>7, ExpireKeeps
<1>8. CASE Quiescent \/ UNCHANGED vars
  BY <1>8, NothingKeeps DEF Quiescent
<1>9. QED  BY <1>1, <1>2, <1>3, <1>4, <1>5, <1>6, <1>7, <1>8 DEF Next

LEMMA AccountsKept == Spec => []AccountsInv
  BY InitEstablishes, StepKeeps, PTL DEF Spec

\* The rows, the links and the program counters of the requests have their types.
THEOREM AccountsTypeCorrect == Spec => []AccountsTypeOK
<1>1. AccountsInv => AccountsTypeOK
  BY DEF AccountsInv
<1>2. QED  BY <1>1, AccountsKept, PTL

\* Once ban_user has answered, the account stays inactive and no later request gets past
\* get_current_user with a token signed before, until unban_user commits; unless the ban
\* left a way back in: a confirmation link not yet followed to its end.
THEOREM BansHold == Spec => []BanHolds
<1>1. AccountsInv => BanHolds
  BY DEF AccountsInv, Banned, BanHolds
<1>2. QED  BY <1>1, AccountsKept, PTL

\* verify_email deletes the link before it reads the account: when it is through, the
\* account is active, or the link was spent on nothing.
THEOREM FollowedLinksActivate == Spec => []FollowedLinkActivates
<1>1. AccountsInv => FollowedLinkActivates
  BY DEF AccountsInv, Activated, FollowedLinkActivates, Spends
<1>2. QED  BY <1>1, AccountsKept, PTL
=============================================================================
