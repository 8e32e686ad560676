----------------------------- MODULE MembersProofs -----------------------------
(***************************************************************************)
(* Proofs about Members for every set of reasons, page size and number of  *)
(* requests: an answer is untrue, or a request fails on a constraint, only *)
(* if the row was changed after the request had looked at it, but for the  *)
(* block of a muted user; and what was marked read was shown, or came late *)
(* for a page, or was more than a page holds.                              *)
(***************************************************************************)
EXTENDS Members, FiniteSetTheorems, TLAPS

(***************************************************************************)
(* The inductive invariant                                                 *)
(***************************************************************************)
Hand(n) ==
    /\ pc[n] = "idle" <=> n > arrived
    /\ pc[n] \in Running => ask[n] \in Ask
    /\ pc[n] = "mark" => ask[n].kind = "page"

\* A notification request n holds: one it marks, or its own.
HeldNote(n, x) ==
    \/ /\ ask[n].kind = "page" /\ x \in loaded[n] \cup late[n]
       /\ notification[x].new = "read" /\ notification[x].old # Gone
    \/ /\ ask[n].kind = "notify" /\ x = n
       /\ notification[x].new = "unread" /\ notification[x].old = Gone

\* What request n holds is of the table it asks about, until it ends.
Holds(n) ==
    /\ user_block["it"].by = n => pc[n] = "commit" /\ ask[n].on = "pair"
    /\ bookmark["it"].by = n => pc[n] = "commit" /\ ask[n].on = "mark"
    /\ rule["it"].by = n => pc[n] = "commit" /\ ask[n].on = "rule"
    /\ \A x \in Notification : notification[x].by = n => pc[n] = "commit" /\ HeldNote(n, x)

\* A row nobody holds has one version.
Settled ==
    /\ user_block["it"].by = Nobody => user_block["it"].new = user_block["it"].old
    /\ bookmark["it"].by = Nobody => bookmark["it"].new = bookmark["it"].old
    /\ rule["it"].by = Nobody => rule["it"].new = rule["it"].old
    /\ \A x \in Notification : notification[x].by = Nobody => notification[x].new = notification[x].old

\* A notification is not there before its request has inserted it.
Fresh == \A x \in Request : pc[x] \in {"idle", "read", "write", "mark"} => notification[x].old = Gone

\* What is on its way to a page, and what the page is going to have marked.
Page(n) ==
    /\ loaded[n] # {} => pc[n] \in {"write", "mark", "commit"} /\ ask[n].kind = "page"
    /\ BetweenTwo(n) => Unread \subseteq loaded[n] \cup late[n]
    /\ pc[n] = "mark" => \A x \in targets[n] : x \in loaded[n] \cup late[n] /\ notification[x].old # Gone
    /\ \A x \in loaded[n] :
          /\ notification[x].old # Gone
          /\ pc[n] = "mark" => notification[x].old = "read" \/ x \in targets[n]
          /\ pc[n] = "commit" =>
                notification[x].old = "read" \/ (notification[x].by = n /\ notification[x].new = "read")

\* What request n leaves of a row when it commits.
Left(row, n) == IF row.by = n THEN row.new ELSE row.old

\* What a request will answer is true once it has committed.
WillKeep(n) ==
    LET a == ask[n] IN
    /\ a.on = "pair" /\ a.kind = "add"  => Left(user_block["it"], n) # Gone
    /\ a.on = "pair" /\ a.kind = "drop" => Left(user_block["it"], n) # a.type
    /\ a.on = "mark" /\ a.kind = "add"  => Left(bookmark["it"], n) # NoBookmark
    /\ a.on = "mark" /\ a.kind = "drop" => Left(bookmark["it"], n) # a.id
    /\ a.on = "rule" /\ a.kind = "add"  => Left(rule["it"], n) = a.new
    /\ a.on = "rule" /\ a.kind = "drop" => Left(rule["it"], n) = NoRule

\* What request n relies on while the row it has looked at is as it was.
Relies(n) ==
    /\ pc[n] # "clash"
    /\ pc[n] = "write" /\ Asks(n, "add", "mark") => bookmark["it"].old = NoBookmark
    /\ pc[n] = "write" /\ Asks(n, "add", "rule") => rule["it"].old = old[n]
    /\ pc[n] = "commit" => WillKeep(n)

Hands == \A n \in Request : Hand(n)
Held == \A n \in Request : Holds(n)
Pages == \A n \in Request : Page(n)
Undisturbed == \A n \in Request : overtaken[n] \/ Relies(n)
Answered ==
    \A t \in Table : settled[t] \in Ask =>
        settled[t].on = t /\ (Keeps(settled[t]) \/ OtherEntry(settled[t]))

MembersInv ==
    /\ MembersTypeOK
    /\ Hands /\ Held /\ Settled /\ Fresh /\ Pages /\ Undisturbed /\ Answered
    /\ ReadIsAccountedFor

(***************************************************************************)
(* Types                                                                   *)
(***************************************************************************)
LEMMA RequestFacts ==
    /\ \A n \in Request : n \in Nat /\ n # Nobody /\ n # NoBookmark /\ n \in Id /\ n \in Notification
    /\ NoBookmark \notin Id /\ Earlier \in Id /\ Nobody \notin Request /\ "it" \in Row
  BY RequestsAssumption DEF Request, Nobody, NoBookmark, Id, Earlier, Notification, Row

LEMMA AskFacts ==
    ASSUME NEW a \in Ask
    PROVE  /\ a.on \in Table \cup {"none"} /\ a # Nothing
           /\ a.on = "none" <=> a.kind \in {"notify", "page"}
           /\ a.on \in Table => a.kind \in {"add", "drop"}
           /\ a.on = "pair" => a.type \in BlockType
           /\ a.on = "mark" /\ a.kind = "drop" => a.id \in Id
           /\ a.on = "rule" /\ a.kind = "add" => a.new \in InstanceRule
<1>1. a # Nothing
  BY DEF Ask, Nothing
<1>2. QED  BY <1>1 DEF Ask, Table

\* Before its write a request holds nothing.
LEMMA HoldsNothing ==
    ASSUME MembersInv, NEW n \in Request, pc[n] # "commit"
    PROVE  /\ user_block["it"].by # n /\ bookmark["it"].by # n /\ rule["it"].by # n
           /\ \A x \in Notification : notification[x].by # n
  BY DEF MembersInv, Held, Holds

\* A row request n may write, and has not written, has one version.
LEMMA FreeRow ==
    ASSUME MembersInv, NEW n \in Request, pc[n] # "commit"
    PROVE  /\ MayWrite(user_block, "it", n) =>
                 user_block["it"].by = Nobody /\ user_block["it"].new = user_block["it"].old
           /\ MayWrite(bookmark, "it", n) =>
                 bookmark["it"].by = Nobody /\ bookmark["it"].new = bookmark["it"].old
           /\ MayWrite(rule, "it", n) => rule["it"].by = Nobody /\ rule["it"].new = rule["it"].old
           /\ \A x \in Notification : MayWrite(notification, x, n) =>
                 notification[x].by = Nobody /\ notification[x].new = notification[x].old
  BY HoldsNothing DEF MayWrite, MembersInv, Settled

(***************************************************************************)
(* What a step of one request leaves to the others                         *)
(***************************************************************************)
RowFrame(was, is, n) == is = was \/ (was.by \in {n, Nobody} /\ is.by \in {n, Nobody})

\* A notification stays what it is to all, or is marked read, or comes.
NoteFrame(x, n) ==
    \/ notification'[x].old = notification[x].old
    \/ notification[x].old # Gone /\ notification'[x].old = "read"
    \/ /\ x = n /\ notification[x].old = Gone /\ notification'[x].old = "unread"
       /\ \A m \in Request \ {n} : BetweenTwo(m) => n \in late'[m]

\* What has looked at a row still finds it as it was, or is overtaken.
LookFrame(m) ==
    overtaken'[m] \/ pc[m] \notin Running \/ pc[m] = Start(ask[m]) \/
    /\ ask[m].on = "pair" => user_block'["it"].old = user_block["it"].old
    /\ ask[m].on = "mark" => bookmark'["it"].old = bookmark["it"].old
    /\ ask[m].on = "rule" => rule'["it"].old = rule["it"].old

\* Request n arrives, goes on or ends.
Frame(n) ==
    /\ \A m \in Request \ {n} :
          /\ pc'[m] = pc[m] /\ ask'[m] = ask[m] /\ old'[m] = old[m]
          /\ loaded'[m] = loaded[m] /\ targets'[m] = targets[m]
          /\ overtaken[m] => overtaken'[m]
          /\ late[m] \subseteq late'[m]
          /\ m > arrived' <=> m > arrived
          /\ LookFrame(m)
    /\ RowFrame(user_block["it"], user_block'["it"], n)
    /\ RowFrame(bookmark["it"], bookmark'["it"], n)
    /\ RowFrame(rule["it"], rule'["it"], n)
    /\ \A x \in Notification : RowFrame(notification[x], notification'[x], n) /\ NoteFrame(x, n)

LEMMA OthersKeep ==
    ASSUME MembersInv, NEW n \in Request, Frame(n), NEW m \in Request \ {n}
    PROVE  Hand(m)' /\ Holds(m)' /\ Page(m)' /\ (overtaken'[m] \/ Relies(m)')
<1>1. /\ pc'[m] = pc[m] /\ ask'[m] = ask[m] /\ old'[m] = old[m]
      /\ loaded'[m] = loaded[m] /\ targets'[m] = targets[m]
      /\ overtaken[m] => overtaken'[m]
      /\ late[m] \subseteq late'[m]
      /\ m > arrived' <=> m > arrived
      /\ LookFrame(m)
  BY DEF Frame
<1>2. Hand(m)'
  BY <1>1 DEF MembersInv, Hands, Hand
<1>3. /\ user_block["it"].by = m <=> user_block'["it"].by = m
      /\ bookmark["it"].by = m <=> bookmark'["it"].by = m
      /\ rule["it"].by = m <=> rule'["it"].by = m
      /\ user_block["it"].by = m => user_block'["it"] = user_block["it"]
      /\ bookmark["it"].by = m => bookmark'["it"] = bookmark["it"]
      /\ rule["it"].by = m => rule'["it"] = rule["it"]
  BY RequestFacts DEF Frame, RowFrame
<1>4. \A x \in Notification :
         notification[x].by = m \/ notification'[x].by = m => notification'[x] = notification[x]
  BY RequestFacts DEF Frame, RowFrame
<1>5. Holds(m)'
  <2>1. Holds(m)
    BY DEF MembersInv, Held
  <2>2. ASSUME NEW x \in Notification, notification'[x].by = m
        PROVE  pc'[m] = "commit" /\ HeldNote(m, x)'
    <3>1. notification'[x] = notification[x] /\ pc[m] = "commit" /\ HeldNote(m, x)
      BY <1>4, <2>1, <2>2 DEF Holds
    <3>2. QED  BY <1>1, <3>1 DEF HeldNote
  <2>3. QED  BY <1>1, <1>3, <2>1, <2>2 DEF Holds
<1>6. Page(m)'
  <2>1. Page(m)
    BY DEF MembersInv, Pages
  <2>2. loaded[m] \subseteq Notification /\ targets[m] \subseteq Notification
    BY DEF MembersInv, MembersTypeOK
  <2>3. ASSUME NEW x \in Notification
        PROVE  /\ notification[x].old # Gone => notification'[x].old # Gone
               /\ notification[x].old = "read" => notification'[x].old = "read"
               /\ notification[x].by = m => notification'[x] = notification[x]
               /\ BetweenTwo(m) /\ notification'[x].old = "unread" =>
                     notification[x].old = "unread" \/ x \in late'[m]
    BY <1>4 DEF Frame, NoteFrame, Gone
  <2>4. BetweenTwo(m)' <=> BetweenTwo(m)
    BY <1>1 DEF BetweenTwo
  <2>5. BetweenTwo(m) => Unread' \subseteq loaded'[m] \cup late'[m]
    BY <1>1, <2>1, <2>3 DEF Page, Unread
  <2>6. pc[m] = "mark" => \A x \in targets[m] : x \in loaded'[m] \cup late'[m] /\ notification'[x].old # Gone
    BY <1>1, <2>1, <2>2, <2>3 DEF Page
  <2>7. ASSUME NEW x \in loaded[m]
        PROVE  /\ notification'[x].old # Gone
               /\ pc[m] = "mark" => notification'[x].old = "read" \/ x \in targets[m]
               /\ pc[m] = "commit" =>
                     notification'[x].old = "read" \/ (notification'[x].by = m /\ notification'[x].new = "read")
    BY <2>1, <2>2, <2>3 DEF Page
  <2>8. QED  BY <1>1, <2>1, <2>4, <2>5, <2>6, <2>7 DEF Page
<1>7. ASSUME ~overtaken'[m] PROVE Relies(m)'
  <2>1. Relies(m) /\ ~overtaken[m]
    BY <1>1, <1>7 DEF MembersInv, Undisturbed
  <2>2. /\ Asks(m, "add", "mark")' <=> Asks(m, "add", "mark")
        /\ Asks(m, "add", "rule")' <=> Asks(m, "add", "rule")
    BY <1>1 DEF Asks
  <2>3. pc[m] = "write" /\ (Asks(m, "add", "mark") \/ Asks(m, "add", "rule")) => pc[m] # Start(ask[m])
    BY DEF Asks, Start
  <2>4. pc[m] = "commit" => pc[m] # Start(ask[m])
    BY DEF Start
  <2>5. pc[m] \in Running /\ pc[m] # Start(ask[m]) =>
           /\ ask[m].on = "pair" => user_block'["it"].old = user_block["it"].old
           /\ ask[m].on = "mark" => bookmark'["it"].old = bookmark["it"].old
           /\ ask[m].on = "rule" => rule'["it"].old = rule["it"].old
    BY <1>1, <1>7 DEF LookFrame
  <2>6. pc[m] = "write" /\ Asks(m, "add", "mark") => bookmark'["it"].old = NoBookmark
    BY <2>1, <2>3, <2>5 DEF Relies, Asks, Running
  <2>7. pc[m] = "write" /\ Asks(m, "add", "rule") => rule'["it"].old = old'[m]
    BY <1>1, <2>1, <2>3, <2>5 DEF Relies, Asks, Running
  <2>8. pc[m] = "commit" => WillKeep(m)'
    <3> SUFFICES ASSUME pc[m] = "commit" PROVE WillKeep(m)'
      OBVIOUS
    <3>1. WillKeep(m)
      BY <2>1 DEF Relies
    <3>2. /\ ask[m].on = "pair" => Left(user_block'["it"], m) = Left(user_block["it"], m)
          /\ ask[m].on = "mark" => Left(bookmark'["it"], m) = Left(bookmark["it"], m)
          /\ ask[m].on = "rule" => Left(rule'["it"], m) = Left(rule["it"], m)
      BY <1>3, <2>4, <2>5 DEF Left, Running
    <3>3. QED  BY <1>1, <3>1, <3>2 DEF WillKeep
  <2>9. QED  BY <1>1, <2>1, <2>2, <2>6, <2>7, <2>8 DEF Relies
<1>8. QED  BY <1>2, <1>5, <1>6, <1>7

\* What is left to show of a step of request n.
LEMMA StepKeeps ==
    ASSUME MembersInv, MembersTypeOK', NEW n \in Request, Frame(n),
           Hand(n)', Holds(n)', Page(n)', overtaken'[n] \/ Relies(n)',
           Settled', pc'[n] \in {"idle", "read", "write", "mark"} => notification'[n].old = Gone,
           Answered', ReadIsAccountedFor'
    PROVE  MembersInv'
<1>1. \A m \in Request : Hand(m)' /\ Holds(m)' /\ Page(m)' /\ (overtaken'[m] \/ Relies(m)')
  BY OthersKeep
<1>2. Hands' /\ Held' /\ Pages' /\ Undisturbed'
  BY <1>1 DEF Hands, Held, Pages, Undisturbed
<1>3. Fresh'
  <2> SUFFICES ASSUME NEW x \in Request \ {n}, pc'[x] \in {"idle", "read", "write", "mark"}
               PROVE  notification'[x].old = Gone
    BY DEF Fresh
  <2>1. notification[x].old = Gone
    BY DEF Frame, MembersInv, Fresh
  <2>2. QED  BY <2>1, RequestFacts DEF Frame, NoteFrame
<1>4. QED  BY <1>2, <1>3 DEF MembersInv

(***************************************************************************)
(* Steps that commit nothing                                               *)
(***************************************************************************)
LEMMA KeepsStay ==
    ASSUME NEW a \in Ask, a.on \in Table,
           a.on = "pair" => user_block'["it"].old = user_block["it"].old,
           a.on = "mark" => bookmark'["it"].old = bookmark["it"].old,
           a.on = "rule" => rule'["it"].old = rule["it"].old
    PROVE  (Keeps(a) \/ OtherEntry(a))' <=> (Keeps(a) \/ OtherEntry(a))
<1>1. a.on \in {"pair", "mark", "rule"} /\ a.kind \in {"add", "drop"}
  BY AskFacts DEF Table
<1>2. QED  BY <1>1 DEF Keeps, OtherEntry

LEMMA AnswersStay ==
    ASSUME MembersInv,
           user_block'["it"].old = user_block["it"].old, bookmark'["it"].old = bookmark["it"].old,
           rule'["it"].old = rule["it"].old,
           \A x \in Notification : notification'[x].old = notification[x].old,
           settled' = settled, shown' = shown, passed' = passed
    PROVE  Answered' /\ ReadIsAccountedFor'
<1>1. Answered'
  <2> SUFFICES ASSUME NEW t \in Table, settled[t] \in Ask
               PROVE  \A a \in Ask : a = settled[t] => a.on = t /\ (Keeps(a) \/ OtherEntry(a))'
    BY DEF Answered
  <2> SUFFICES ASSUME NEW a \in Ask, a = settled[t] PROVE a.on = t /\ (Keeps(a) \/ OtherEntry(a))'
    OBVIOUS
  <2>1. a.on = t /\ (Keeps(a) \/ OtherEntry(a))
    BY DEF MembersInv, Answered
  <2>2. QED  BY <2>1, KeepsStay
<1>2. ReadIsAccountedFor'
  BY DEF MembersInv, ReadIsAccountedFor
<1>3. QED  BY <1>1, <1>2

\* A request has written a row that was free, or not.
Touched(was, is, n) == is = was \/ (was.by = Nobody /\ is.old = was.old /\ is.by = n)

LEMMA GoKeeps ==
    ASSUME MembersInv, MembersTypeOK', NEW n \in Request, NEW there \in {"write", "mark", "commit"},
           pc[n] \in {"read", "write", "mark"}, Goto(n, there), UNCHANGED <<ask, bounds, history>>,
           there = "mark" => ask[n].kind = "page",
           \A m \in Request \ {n} : old'[m] = old[m] /\ loaded'[m] = loaded[m] /\ targets'[m] = targets[m],
           Touched(user_block["it"], user_block'["it"], n),
           Touched(bookmark["it"], bookmark'["it"], n),
           Touched(rule["it"], rule'["it"], n),
           user_block'["it"] # user_block["it"] => there = "commit" /\ ask[n].on = "pair",
           bookmark'["it"] # bookmark["it"] => there = "commit" /\ ask[n].on = "mark",
           rule'["it"] # rule["it"] => there = "commit" /\ ask[n].on = "rule",
           \A x \in Notification :
              /\ Touched(notification[x], notification'[x], n)
              /\ notification'[x] # notification[x] => there = "commit" /\ HeldNote(n, x)',
           Page(n)', overtaken[n] \/ Relies(n)'
    PROVE  MembersInv'
<1>1. /\ ask' = ask /\ arrived' = arrived /\ faults' = faults /\ overtaken' = overtaken
      /\ settled' = settled /\ late' = late /\ shown' = shown /\ passed' = passed
  BY DEF bounds, history
<1>2. /\ pc'[n] = there /\ \A m \in Request \ {n} : pc'[m] = pc[m]
  BY DEF MembersInv, MembersTypeOK, Goto
<1>3. pc[n] \in Running /\ pc'[n] \in Running /\ pc'[n] # "idle" /\ pc[n] # "idle"
  BY <1>2 DEF Running
<1>4. Frame(n)
  <2>1. \A m \in Request \ {n} : LookFrame(m)
    BY DEF LookFrame, Touched
  <2>2. \A x \in Notification : RowFrame(notification[x], notification'[x], n) /\ NoteFrame(x, n)
    BY DEF RowFrame, NoteFrame, Touched
  <2>3. QED  BY <1>1, <1>2, <2>1, <2>2 DEF Frame, RowFrame, Touched
<1>5. Hand(n)'
  BY <1>1, <1>2, <1>3 DEF MembersInv, Hands, Hand
<1>6. Holds(n)'
  <2>1. /\ user_block["it"].by # n /\ bookmark["it"].by # n /\ rule["it"].by # n
        /\ \A x \in Notification : notification[x].by # n
    BY HoldsNothing
  <2>2. \A x \in Notification : notification'[x].by = n => notification'[x] # notification[x]
    BY <2>1
  <2>3. QED  BY <1>1, <1>2, <2>1, <2>2 DEF Holds
<1>7. Settled'
  BY RequestFacts DEF MembersInv, Settled, Touched
<1>8. Answered' /\ ReadIsAccountedFor'
  BY <1>1, AnswersStay DEF Touched
<1>9. notification'[n].old = Gone
  <2>1. notification[n].old = Gone
    BY DEF MembersInv, Fresh
  <2>2. QED  BY <2>1, RequestFacts DEF Touched
<1>10. QED  BY <1>1, <1>4, <1>5, <1>6, <1>7, <1>8, <1>9, StepKeeps

\* What a request that ends leaves in its variables.
LEMMA EndTyped ==
    ASSUME MembersTypeOK, NEW n \in Request, NEW there \in Ended, End(n, there)
    PROVE  /\ pc' \in [Request -> {"idle"} \cup Running \cup Ended] /\ pc'[n] = there
           /\ ask' \in [Request -> Ask \cup {Nothing}]
           /\ old' \in [Request -> InstanceRule \cup {NoRule}]
           /\ loaded' \in [Request -> SUBSET Notification] /\ loaded'[n] = {}
           /\ targets' \in [Request -> SUBSET Notification] /\ targets'[n] = {}
           /\ \A m \in Request \ {n} :
                 /\ pc'[m] = pc[m] /\ ask'[m] = ask[m] /\ old'[m] = old[m]
                 /\ loaded'[m] = loaded[m] /\ targets'[m] = targets[m]
           /\ there \notin Running /\ there \notin {"idle", "read", "write", "mark", "commit"}
  BY DEF MembersTypeOK, End, Goto, Ended, Running

\* Who has ended has nothing under way.
LEMMA EndedKeeps ==
    ASSUME MembersInv, NEW n \in Request, NEW there \in Ended, End(n, there), pc[n] \in Running,
           arrived' = arrived,
           user_block'["it"].by # n, bookmark'["it"].by # n, rule'["it"].by # n,
           \A x \in Notification : notification'[x].by # n
    PROVE  Hand(n)' /\ Holds(n)' /\ Page(n)' /\ (there # "clash" => Relies(n)')
<1>1. /\ pc'[n] = there /\ loaded'[n] = {} /\ there \notin Running
      /\ there \notin {"idle", "read", "write", "mark", "commit"}
  BY EndTyped DEF MembersInv
<1>2. Hand(n)'
  BY <1>1 DEF MembersInv, Hands, Hand, Running
<1>3. Holds(n)'
  BY DEF Holds
<1>4. Page(n)'
  BY <1>1 DEF Page, BetweenTwo
<1>5. there # "clash" => Relies(n)'
  BY <1>1 DEF Relies
<1>6. QED  BY <1>2, <1>3, <1>4, <1>5

LEMMA FailKeeps ==
    ASSUME MembersInv, NEW n \in Request, NEW how \in {"failed", "clash"}, Fail(n, how),
           pc[n] \in Running, how = "clash" => overtaken[n],
           arrived' = arrived, faults' \in 0..MaxFaults
    PROVE  MembersInv'
<1>1. /\ End(n, how) /\ overtaken' = overtaken /\ settled' = settled /\ late' = late
      /\ shown' = shown /\ passed' = passed
      /\ user_block' = RollbackRows(user_block, n) /\ bookmark' = RollbackRows(bookmark, n)
      /\ rule' = RollbackRows(rule, n) /\ notification' = RollbackRows(notification, n)
  BY DEF Fail, RollbackAll, history
<1>2. how \in Ended
  BY DEF Ended
<1>3. /\ user_block' \in [Row -> Versions(BlockType \cup {Gone}, Request)]
      /\ user_block'["it"] = IF user_block["it"].by = n THEN Committed(user_block["it"].old)
                             ELSE user_block["it"]
  BY <1>1, RequestFacts DEF MembersInv, MembersTypeOK, RollbackRows, Committed, Versions
<1>4. /\ bookmark' \in [Row -> Versions(Id \cup {NoBookmark}, Request)]
      /\ bookmark'["it"] = IF bookmark["it"].by = n THEN Committed(bookmark["it"].old)
                           ELSE bookmark["it"]
  BY <1>1, RequestFacts DEF MembersInv, MembersTypeOK, RollbackRows, Committed, Versions
<1>5. /\ rule' \in [Row -> Versions(InstanceRule \cup {NoRule}, Request)]
      /\ rule'["it"] = IF rule["it"].by = n THEN Committed(rule["it"].old) ELSE rule["it"]
  BY <1>1, RequestFacts DEF MembersInv, MembersTypeOK, RollbackRows, Committed, Versions
<1>6. /\ notification' \in [Notification -> Versions({"unread", "read", Gone}, Request)]
      /\ \A x \in Notification :
            notification'[x] = IF notification[x].by = n THEN Committed(notification[x].old)
                               ELSE notification[x]
  BY <1>1 DEF MembersInv, MembersTypeOK, RollbackRows, Committed, Versions
<1>7. MembersTypeOK'
  BY <1>1, <1>2, <1>3, <1>4, <1>5, <1>6, EndTyped DEF MembersInv, MembersTypeOK
<1>8. /\ user_block'["it"].by # n /\ bookmark'["it"].by # n /\ rule'["it"].by # n
      /\ user_block'["it"].old = user_block["it"].old /\ bookmark'["it"].old = bookmark["it"].old
      /\ rule'["it"].old = rule["it"].old
      /\ RowFrame(user_block["it"], user_block'["it"], n) /\ RowFrame(bookmark["it"], bookmark'["it"], n)
      /\ RowFrame(rule["it"], rule'["it"], n)
  BY <1>3, <1>4, <1>5, RequestFacts DEF RowFrame, Committed
<1>9. \A x \in Notification :
         /\ notification'[x].by # n /\ notification'[x].old = notification[x].old
         /\ RowFrame(notification[x], notification'[x], n)
  BY <1>6, RequestFacts DEF RowFrame, Committed
<1>10. Frame(n)
  <2>1. \A m \in Request \ {n} : LookFrame(m)
    BY <1>8 DEF LookFrame
  <2>2. \A m \in Request \ {n} :
          /\ pc'[m] = pc[m] /\ ask'[m] = ask[m] /\ old'[m] = old[m]
          /\ loaded'[m] = loaded[m] /\ targets'[m] = targets[m]
    BY <1>1, <1>2, EndTyped DEF MembersInv
  <2>3. QED  BY <1>1, <1>8, <1>9, <2>1, <2>2 DEF Frame, NoteFrame
<1>11. Hand(n)' /\ Holds(n)' /\ Page(n)' /\ (overtaken'[n] \/ Relies(n)')
  BY <1>1, <1>2, <1>8, <1>9, EndedKeeps
<1>12. Settled'
  BY <1>3, <1>4, <1>5, <1>6 DEF MembersInv, Settled, Committed
<1>13. Answered' /\ ReadIsAccountedFor'
  BY <1>1, <1>8, <1>9, AnswersStay
<1>14. pc'[n] \notin {"idle", "read", "write", "mark"}
  BY <1>1, <1>2, EndTyped DEF MembersInv
<1>15. QED  BY <1>7, <1>10, <1>11, <1>12, <1>13, <1>14, StepKeeps

(***************************************************************************)
(* The handlers                                                            *)
(***************************************************************************)
\* Who asks for no page loads none.
LEMMA NoPageKeeps ==
    ASSUME MembersInv, NEW n \in Request, ask[n].kind # "page", ask' = ask, loaded'[n] = loaded[n],
           pc'[n] # "mark"
    PROVE  Page(n)'
<1>1. loaded'[n] = {} /\ ~BetweenTwo(n)'
  BY DEF MembersInv, Pages, Page, BetweenTwo
<1>2. QED  BY <1>1 DEF Page

\* A handler goes on without writing.
LEMMA LookKeeps ==
    ASSUME MembersInv, NEW n \in Request, NEW there \in {"write", "mark", "commit"},
           pc[n] \in {"read", "write"}, Goto(n, there), UNCHANGED <<ask, rows, bounds, history>>,
           there = "mark" => ask[n].kind = "page",
           old' \in [Request -> InstanceRule \cup {NoRule}],
           loaded' \in [Request -> SUBSET Notification],
           targets' \in [Request -> SUBSET Notification],
           \A m \in Request \ {n} : old'[m] = old[m] /\ loaded'[m] = loaded[m] /\ targets'[m] = targets[m],
           Page(n)',
           overtaken[n] \/
              /\ there = "write" /\ Asks(n, "add", "mark") => bookmark["it"].old = NoBookmark
              /\ there = "write" /\ Asks(n, "add", "rule") => rule["it"].old = old'[n]
              /\ there = "commit" => WillKeep(n)
    PROVE  MembersInv'
<1>1. /\ ask' = ask /\ user_block' = user_block /\ bookmark' = bookmark /\ rule' = rule
      /\ notification' = notification /\ arrived' = arrived /\ faults' = faults /\ overtaken' = overtaken
      /\ settled' = settled /\ late' = late /\ shown' = shown /\ passed' = passed
  BY DEF rows, bounds, history
<1>2. pc' \in [Request -> {"idle"} \cup Running \cup Ended] /\ pc'[n] = there
  BY DEF MembersInv, MembersTypeOK, Goto, Running
<1>3. MembersTypeOK'
  BY <1>1, <1>2 DEF MembersInv, MembersTypeOK
<1>4. overtaken[n] \/ Relies(n)'
  <2>1. WillKeep(n)' <=> WillKeep(n)
    BY <1>1 DEF WillKeep
  <2>2. QED  BY <1>1, <1>2, <2>1 DEF Relies, Asks
<1>5. QED  BY <1>1, <1>3, <1>4, GoKeeps DEF Touched

\* A handler writes its row of one of the tables, which it may write.
LEMMA WriteKeeps ==
    ASSUME MembersInv, MembersTypeOK', NEW n \in Request, pc[n] \in {"read", "write"},
           ask[n].kind # "page",
           Goto(n, "commit"), UNCHANGED <<local, bounds, history, notification>>,
           Touched(user_block["it"], user_block'["it"], n),
           Touched(bookmark["it"], bookmark'["it"], n),
           Touched(rule["it"], rule'["it"], n),
           user_block'["it"] # user_block["it"] => ask[n].on = "pair",
           bookmark'["it"] # bookmark["it"] => ask[n].on = "mark",
           rule'["it"] # rule["it"] => ask[n].on = "rule",
           overtaken[n] \/ WillKeep(n)'
    PROVE  MembersInv'
<1>1. ask' = ask /\ old' = old /\ loaded' = loaded /\ targets' = targets
  BY DEF local
<1>2. pc'[n] = "commit"
  BY DEF MembersInv, MembersTypeOK, Goto
<1>3. overtaken[n] \/ Relies(n)'
  BY <1>1, <1>2 DEF Relies
<1>4. Page(n)'
  BY <1>1, <1>2, NoPageKeeps
<1>5. QED  BY <1>1, <1>3, <1>4, GoKeeps DEF Touched

\* The type of what a handler that writes one table leaves.
LEMMA WriteTyped ==
    ASSUME MembersTypeOK, NEW n \in Request, Goto(n, "commit"), UNCHANGED <<local, bounds, history>>,
           user_block' \in [Row -> Versions(BlockType \cup {Gone}, Request)],
           bookmark' \in [Row -> Versions(Id \cup {NoBookmark}, Request)],
           rule' \in [Row -> Versions(InstanceRule \cup {NoRule}, Request)],
           notification' \in [Notification -> Versions({"unread", "read", Gone}, Request)]
    PROVE  MembersTypeOK'
<1>1. pc' \in [Request -> {"idle"} \cup Running \cup Ended]
  BY DEF MembersTypeOK, Goto, Running
<1>2. QED  BY <1>1 DEF MembersTypeOK, local, bounds, history

LEMMA BlockKeeps ==
    ASSUME MembersInv, NEW n \in Request, BlockInsert(n) \/ BlockDelete(n)
    PROVE  MembersInv'
<1>1. /\ pc[n] = "write" /\ ask[n].on = "pair" /\ ask[n].kind \in {"add", "drop"} /\ Goto(n, "commit")
      /\ bookmark' = bookmark /\ rule' = rule /\ notification' = notification
      /\ UNCHANGED <<local, bounds, history>> /\ ask' = ask
  BY DEF BlockInsert, BlockDelete, Asks, local
<1>2. ask[n] \in Ask /\ ask[n].type \in BlockType /\ pc[n] \in Running
  BY <1>1, AskFacts DEF MembersInv, Hands, Hand, Running
<1>3. user_block \in [Row -> Versions(BlockType \cup {Gone}, Request)] /\ Gone \notin BlockType
  BY DEF MembersInv, MembersTypeOK, Gone, BlockType
<1>4. /\ user_block["it"].by # n
      /\ MayWrite(user_block, "it", n) =>
            user_block["it"].by = Nobody /\ user_block["it"].new = user_block["it"].old
  BY <1>1, HoldsNothing, FreeRow
<1>5. PICK v \in BlockType \cup {Gone} :
         /\ (user_block' = Write(user_block, "it", v, n) /\ MayWrite(user_block, "it", n))
               \/ user_block' = user_block
         /\ ask[n].kind = "add" => Left(user_block'["it"], n) # Gone
         /\ ask[n].kind = "drop" => Left(user_block'["it"], n) # ask[n].type
  <2>1. CASE BlockInsert(n)
    <3>1. /\ user_block' = IF user_block["it"].new = Gone THEN Write(user_block, "it", ask[n].type, n)
                           ELSE user_block
          /\ MayWrite(user_block, "it", n)
      BY <2>1 DEF BlockInsert
    <3>2. /\ ask[n].kind = "add" /\ Write(user_block, "it", ask[n].type, n)["it"].new = ask[n].type
          /\ Write(user_block, "it", ask[n].type, n)["it"].by = n
      BY <1>3, <2>1, RequestFacts DEF BlockInsert, Asks, Write
    <3>3. Left(user_block'["it"], n) # Gone
      BY <1>2, <1>3, <1>4, <3>1, <3>2 DEF Left
    <3>4. QED  BY <1>2, <3>1, <3>2, <3>3
  <2>2. CASE BlockDelete(n)
    <3>1. IF user_block["it"].old = ask[n].type
          THEN MayWrite(user_block, "it", n) /\ user_block' = Write(user_block, "it", Gone, n)
          ELSE user_block' = user_block
      BY <2>2 DEF BlockDelete
    <3>2. /\ ask[n].kind = "drop" /\ Write(user_block, "it", Gone, n)["it"].new = Gone
          /\ Write(user_block, "it", Gone, n)["it"].by = n
      BY <1>3, <2>2, RequestFacts DEF BlockDelete, Asks, Write
    <3>3. Left(user_block'["it"], n) # ask[n].type
      BY <1>2, <1>3, <1>4, <3>1, <3>2 DEF Left
    <3>4. QED  BY <3>1, <3>2, <3>3
  <2>3. QED  BY <2>1, <2>2
<1>6. /\ user_block' \in [Row -> Versions(BlockType \cup {Gone}, Request)]
      /\ Touched(user_block["it"], user_block'["it"], n)
  BY <1>3, <1>4, <1>5, RequestFacts DEF Write, Versions, Touched
<1>7. MembersTypeOK'
  <2>1. /\ bookmark \in [Row -> Versions(Id \cup {NoBookmark}, Request)]
        /\ rule \in [Row -> Versions(InstanceRule \cup {NoRule}, Request)]
        /\ notification \in [Notification -> Versions({"unread", "read", Gone}, Request)]
    BY DEF MembersInv, MembersTypeOK
  <2>2. QED  BY <1>1, <1>6, <2>1, WriteTyped DEF MembersInv
<1>8. WillKeep(n)'
  BY <1>1, <1>5 DEF WillKeep
<1>9. ask[n].kind # "page"
  BY <1>1
<1>10. QED  BY <1>1, <1>6, <1>7, <1>8, <1>9, WriteKeeps DEF Touched

LEMMA MarkReadKeeps ==
    ASSUME MembersInv, NEW n \in Request, MarkRead(n)
    PROVE  MembersInv'
<1>1. PICK there \in {"write", "commit"} :
         /\ pc[n] = "read" /\ ask[n].on = "mark" /\ Goto(n, there)
         /\ UNCHANGED <<rows, local, bounds, history>>
         /\ there = IF (IF ask[n].kind = "add" THEN bookmark["it"].old # NoBookmark
                        ELSE bookmark["it"].old = ask[n].id) = (ask[n].kind = "drop")
                    THEN "write" ELSE "commit"
  BY DEF MarkRead
<1>2. ask[n] \in Ask /\ ask[n].kind \in {"add", "drop"} /\ pc[n] \in Running
  BY <1>1, AskFacts DEF MembersInv, Hands, Hand, Running, Table
<1>3. /\ ask[n].kind = "add" => (there = "commit" <=> bookmark["it"].old # NoBookmark)
      /\ ask[n].kind = "drop" => (there = "commit" <=> bookmark["it"].old # ask[n].id)
  BY <1>1, <1>2
<1>4. bookmark["it"].by # n
  BY <1>1, HoldsNothing
<1>5. there = "commit" => WillKeep(n)
  BY <1>1, <1>2, <1>3, <1>4 DEF WillKeep, Left
<1>6. /\ ask' = ask /\ old' = old /\ loaded' = loaded /\ targets' = targets
      /\ old \in [Request -> InstanceRule \cup {NoRule}] /\ loaded \in [Request -> SUBSET Notification]
      /\ targets \in [Request -> SUBSET Notification]
  BY <1>1 DEF local, MembersInv, MembersTypeOK
<1>7. there = "write" /\ Asks(n, "add", "mark") => bookmark["it"].old = NoBookmark
  BY <1>3 DEF Asks
<1>8. Page(n)'
  <2>1. pc'[n] # "mark" /\ ask[n].kind # "page"
    BY <1>1, <1>2 DEF MembersInv, MembersTypeOK, Goto
  <2>2. QED  BY <1>6, <2>1, NoPageKeeps
<1>9. ~Asks(n, "add", "rule") /\ there # "mark"
  BY <1>1 DEF Asks
<1>10. QED  BY <1>1, <1>5, <1>6, <1>7, <1>8, <1>9, LookKeeps

LEMMA MarkWriteKeeps ==
    ASSUME MembersInv, NEW n \in Request, MarkInsert(n) \/ MarkDelete(n)
    PROVE  MembersInv'
<1>1. /\ pc[n] = "write" /\ ask[n].on = "mark" /\ ask[n].kind \in {"add", "drop"}
      /\ MayWrite(bookmark, "it", n) /\ UNCHANGED bounds
  BY DEF MarkInsert, MarkDelete, Asks
<1>2. ask[n] \in Ask /\ pc[n] \in Running /\ (ask[n].kind = "drop" => ask[n].id \in Id)
  BY <1>1, AskFacts DEF MembersInv, Hands, Hand, Running
<1>3. bookmark \in [Row -> Versions(Id \cup {NoBookmark}, Request)]
  BY DEF MembersInv, MembersTypeOK
<1>4. bookmark["it"].by = Nobody /\ bookmark["it"].new = bookmark["it"].old
  BY <1>1, FreeRow
<1>5. CASE MarkInsert(n) /\ bookmark["it"].new # NoBookmark
  <2>1. overtaken[n] \/ bookmark["it"].old = NoBookmark
    BY <1>1, <1>5 DEF MarkInsert, MembersInv, Undisturbed, Relies
  <2>2. arrived' = arrived /\ faults' \in 0..MaxFaults
    BY <1>1 DEF bounds, MembersInv, MembersTypeOK
  <2>3. Fail(n, "clash")
    BY <1>5 DEF MarkInsert
  <2>4. QED  BY <1>2, <1>4, <1>5, <2>1, <2>2, <2>3, FailKeeps
<1>6. CASE ~(MarkInsert(n) /\ bookmark["it"].new # NoBookmark)
  <2>1. /\ Goto(n, "commit") /\ user_block' = user_block /\ rule' = rule /\ notification' = notification
        /\ UNCHANGED <<local, bounds, history>> /\ ask' = ask
    BY <1>1, <1>6 DEF MarkInsert, MarkDelete, local
  <2>2. PICK v \in Id \cup {NoBookmark} :
           /\ bookmark' = Write(bookmark, "it", v, n) \/ bookmark' = bookmark
           /\ ask[n].kind = "add" => Left(bookmark'["it"], n) # NoBookmark
           /\ ask[n].kind = "drop" => Left(bookmark'["it"], n) # ask[n].id
    <3>1. CASE MarkInsert(n)
      <4>1. bookmark' = Write(bookmark, "it", n, n) /\ ask[n].kind = "add"
        BY <1>6, <3>1 DEF MarkInsert, Asks
      <4>2. bookmark'["it"].new = n /\ bookmark'["it"].by = n
        BY <1>3, <4>1, RequestFacts DEF Write
      <4>3. QED  BY <4>1, <4>2, RequestFacts DEF Left
    <3>2. CASE MarkDelete(n)
      <4>1. /\ bookmark' = IF bookmark["it"].new = ask[n].id THEN Write(bookmark, "it", NoBookmark, n)
                           ELSE bookmark
            /\ ask[n].kind = "drop"
        BY <3>2 DEF MarkDelete, Asks
      <4>2. /\ Write(bookmark, "it", NoBookmark, n)["it"].new = NoBookmark
            /\ Write(bookmark, "it", NoBookmark, n)["it"].by = n
        BY <1>3, RequestFacts DEF Write
      <4>3. Left(bookmark'["it"], n) # ask[n].id
        BY <1>2, <1>4, <4>1, <4>2, RequestFacts DEF Left
      <4>4. QED  BY <4>1, <4>3
    <3>3. QED  BY <3>1, <3>2
  <2>3. /\ bookmark' \in [Row -> Versions(Id \cup {NoBookmark}, Request)]
        /\ Touched(bookmark["it"], bookmark'["it"], n)
    BY <1>3, <1>4, <2>2, RequestFacts DEF Write, Versions, Touched
  <2>4. MembersTypeOK'
    <3>1. /\ user_block \in [Row -> Versions(BlockType \cup {Gone}, Request)]
          /\ rule \in [Row -> Versions(InstanceRule \cup {NoRule}, Request)]
          /\ notification \in [Notification -> Versions({"unread", "read", Gone}, Request)]
      BY DEF MembersInv, MembersTypeOK
    <3>2. QED  BY <2>1, <2>3, <3>1, WriteTyped DEF MembersInv
  <2>5. WillKeep(n)'
    BY <1>1, <2>1, <2>2 DEF WillKeep
  <2>6. ask[n].kind # "page"
    BY <1>1
  <2>7. QED  BY <1>1, <2>1, <2>3, <2>4, <2>5, <2>6, WriteKeeps DEF Touched
<1>7. QED  BY <1>5, <1>6

LEMMA RuleReadKeeps ==
    ASSUME MembersInv, NEW n \in Request, RuleRead(n)
    PROVE  MembersInv'
<1>1. /\ pc[n] = "read" /\ ask[n].on = "rule" /\ ask[n].kind = "add"
      /\ old' = [old EXCEPT ![n] = rule["it"].old]
      /\ UNCHANGED <<rows, ask, bounds, history>> /\ loaded' = loaded /\ targets' = targets
      /\ ask' = ask
  BY DEF RuleRead, Asks
<1>2. PICK there \in {"write", "commit"} :
         Goto(n, there) /\ (there = "commit" => rule["it"].old = ask[n].new)
  BY DEF RuleRead
<1>3. rule["it"].old \in InstanceRule \cup {NoRule} /\ rule["it"].by # n
  BY <1>1, HoldsNothing, RequestFacts DEF MembersInv, MembersTypeOK, Versions
<1>4. /\ old' \in [Request -> InstanceRule \cup {NoRule}] /\ old'[n] = rule["it"].old
      /\ \A m \in Request \ {n} : old'[m] = old[m]
      /\ loaded \in [Request -> SUBSET Notification] /\ targets \in [Request -> SUBSET Notification]
  BY <1>1, <1>3 DEF MembersInv, MembersTypeOK
<1>5. there = "commit" => WillKeep(n)
  BY <1>1, <1>2, <1>3 DEF WillKeep, Left
<1>6. Page(n)'
  <2>1. pc'[n] # "mark" /\ ask[n].kind # "page"
    BY <1>1, <1>2 DEF MembersInv, MembersTypeOK, Goto
  <2>2. QED  BY <1>1, <2>1, NoPageKeeps
<1>7. ~Asks(n, "add", "mark") /\ there # "mark"
  BY <1>1 DEF Asks
<1>8. QED  BY <1>1, <1>2, <1>4, <1>5, <1>6, <1>7, LookKeeps

\* A write onto the rule that was read leaves what was asked for.
LEMMA ChangedFacts ==
    ASSUME NEW n \in Request, NEW row \in InstanceRule, ask[n].new \in InstanceRule
    PROVE  Changed(row, n) \in InstanceRule /\ (old[n] = row => Changed(row, n) = ask[n].new)
<1>1. PICK r : r = ask[n].new
  OBVIOUS
<1>2. PICK a \in {"block", "allow"}, b \in Reason : r = [rule_type |-> a, reason |-> b]
  BY <1>1 DEF InstanceRule
<1>3. PICK c \in {"block", "allow"}, d \in Reason : row = [rule_type |-> c, reason |-> d]
  BY DEF InstanceRule
<1>4. PICK x \in {a, c}, y \in {b, d} :
         /\ Changed(row, n) = [rule_type |-> x, reason |-> y]
         /\ old[n] = row => x = a /\ y = b
  <2>1. Changed(row, n) =
           [f \in {"rule_type", "reason"} |-> IF r[f] = old[n][f] THEN row[f] ELSE r[f]]
    BY <1>1 DEF Changed
  <2>2. Changed(row, n) = [rule_type |-> IF a = old[n].rule_type THEN c ELSE a,
                           reason |-> IF b = old[n].reason THEN d ELSE b]
    BY <1>2, <1>3, <2>1
  <2>3. old[n] = row => old[n].rule_type = c /\ old[n].reason = d
    BY <1>3
  <2>4. QED  BY <2>2, <2>3
<1>5. QED  BY <1>1, <1>2, <1>4 DEF InstanceRule

LEMMA RuleWriteKeeps ==
    ASSUME MembersInv, NEW n \in Request, RuleWrite(n) \/ RuleDelete(n)
    PROVE  MembersInv'
<1>1. pc[n] = "write" /\ ask[n].on = "rule" /\ ask[n].kind \in {"add", "drop"} /\ UNCHANGED bounds
  BY DEF RuleWrite, RuleDelete, Asks
<1>2. ask[n] \in Ask /\ pc[n] \in Running /\ (ask[n].kind = "add" => ask[n].new \in InstanceRule)
  BY <1>1, AskFacts DEF MembersInv, Hands, Hand, Running
<1>3. /\ rule \in [Row -> Versions(InstanceRule \cup {NoRule}, Request)]
      /\ rule["it"].new \in InstanceRule \cup {NoRule}
  BY RequestFacts DEF MembersInv, MembersTypeOK, Versions
<1>4. /\ MayWrite(rule, "it", n) => rule["it"].by = Nobody /\ rule["it"].new = rule["it"].old
      /\ rule["it"].by # n
      /\ ~overtaken[n] /\ ask[n].kind = "add" => rule["it"].old = old[n]
  <2>1. ~overtaken[n] /\ ask[n].kind = "add" => rule["it"].old = old[n]
    BY <1>1 DEF MembersInv, Undisturbed, Relies, Asks
  <2>2. QED  BY <1>1, <2>1, FreeRow, HoldsNothing
<1>5. CASE /\ Fail(n, "clash") /\ (old[n] = NoRule) # (rule["it"].new = NoRule)
           /\ ask[n].kind = "add" /\ MayWrite(rule, "it", n)
  <2>1. arrived' = arrived /\ faults' \in 0..MaxFaults
    BY <1>1 DEF bounds, MembersInv, MembersTypeOK
  <2>2. overtaken[n]
    BY <1>4, <1>5 DEF MembersInv, MembersTypeOK
  <2>3. QED  BY <1>2, <1>5, <2>1, <2>2, FailKeeps
<1>6. ASSUME NEW v \in InstanceRule \cup {NoRule},
             (rule' = Write(rule, "it", v, n) /\ MayWrite(rule, "it", n)) \/ rule' = rule,
             ask[n].kind = "add" => overtaken[n] \/ Left(rule'["it"], n) = ask[n].new,
             ask[n].kind = "drop" => Left(rule'["it"], n) = NoRule,
             Goto(n, "commit"),
             UNCHANGED <<user_block, bookmark, notification, local, bounds, history>>
      PROVE  MembersInv'
  <2>1. user_block' = user_block /\ bookmark' = bookmark /\ notification' = notification /\ ask' = ask
    BY <1>6 DEF local
  <2>2. /\ rule' \in [Row -> Versions(InstanceRule \cup {NoRule}, Request)]
        /\ Touched(rule["it"], rule'["it"], n)
    BY <1>3, <1>4, <1>6, RequestFacts DEF Write, Versions, Touched
  <2>3. MembersTypeOK'
    <3>1. /\ user_block \in [Row -> Versions(BlockType \cup {Gone}, Request)]
          /\ bookmark \in [Row -> Versions(Id \cup {NoBookmark}, Request)]
          /\ notification \in [Notification -> Versions({"unread", "read", Gone}, Request)]
      BY DEF MembersInv, MembersTypeOK
    <3>2. QED  BY <1>6, <2>1, <2>2, <3>1, WriteTyped DEF MembersInv
  <2>4. overtaken[n] \/ WillKeep(n)'
    BY <1>1, <1>6, <2>1 DEF WillKeep
  <2>5. ask[n].kind # "page"
    BY <1>1
  <2>6. QED  BY <1>1, <1>6, <2>1, <2>2, <2>3, <2>4, <2>5, WriteKeeps DEF Touched
<1>7. CASE RuleWrite(n)
  <2>1. ask[n].kind = "add" /\ ask[n].new \in InstanceRule /\ MayWrite(rule, "it", n)
    BY <1>2, <1>7 DEF RuleWrite, Asks
  <2>2. CASE (old[n] = NoRule) = (rule["it"].new = NoRule)
    <3>1. PICK v : v = IF old[n] = NoRule THEN ask[n].new ELSE Changed(rule["it"].new, n)
      OBVIOUS
    <3>2. v \in InstanceRule /\ (old[n] = rule["it"].new => v = ask[n].new)
      BY <1>3, <2>1, <2>2, <3>1, ChangedFacts
    <3>3. /\ rule' = Write(rule, "it", v, n) /\ Goto(n, "commit")
          /\ UNCHANGED <<user_block, bookmark, notification, local, bounds, history>>
      BY <1>7, <2>2, <3>1 DEF RuleWrite
    <3>4. Left(rule'["it"], n) = v
      BY <1>3, <3>3, RequestFacts DEF Write, Left
    <3>5. ~overtaken[n] => old[n] = rule["it"].new
      BY <1>4, <2>1
    <3>6. QED  BY <1>6, <2>1, <3>2, <3>3, <3>4, <3>5
  <2>3. CASE (old[n] = NoRule) # (rule["it"].new = NoRule)
    BY <1>5, <1>7, <2>1, <2>3 DEF RuleWrite
  <2>4. QED  BY <2>2, <2>3
<1>8. CASE RuleDelete(n)
  <2>1. /\ ask[n].kind = "drop" /\ Goto(n, "commit")
        /\ UNCHANGED <<user_block, bookmark, notification, local, bounds, history>>
        /\ IF rule["it"].old # NoRule
           THEN rule' = Write(rule, "it", NoRule, n) /\ MayWrite(rule, "it", n)
           ELSE rule' = rule
    BY <1>8 DEF RuleDelete, Asks
  <2>2. Write(rule, "it", NoRule, n)["it"].new = NoRule /\ Write(rule, "it", NoRule, n)["it"].by = n
    BY <1>3, RequestFacts DEF Write
  <2>3. Left(rule'["it"], n) = NoRule
    BY <1>4, <2>1, <2>2 DEF Left
  <2>4. QED  BY <1>6, <2>1, <2>3
<1>9. QED  BY <1>7, <1>8

LEMMA RefuseKeeps ==
    ASSUME MembersInv, NEW n \in Request, Refuse(n) \/ Die(n)
    PROVE  MembersInv'
<1>1. Fail(n, "failed") /\ arrived' = arrived /\ pc[n] \in Running
  BY DEF Refuse, Die, bounds, Running
<1>2. faults' \in 0..MaxFaults
  BY FaultsAssumption DEF Refuse, Die, bounds, MembersInv, MembersTypeOK
<1>3. QED  BY <1>1, <1>2, FailKeeps

(***************************************************************************)
(* Notifications                                                           *)
(***************************************************************************)
LEMMA NotifyKeeps ==
    ASSUME MembersInv, NEW n \in Request, Notify(n)
    PROVE  MembersInv'
<1>1. /\ pc[n] = "write" /\ ask[n].kind = "notify" /\ Goto(n, "commit")
      /\ notification' = Write(notification, n, "unread", n)
      /\ user_block' = user_block /\ bookmark' = bookmark /\ rule' = rule
      /\ UNCHANGED <<local, bounds, history>> /\ ask' = ask /\ old' = old
      /\ loaded' = loaded /\ targets' = targets
  BY DEF Notify, local
<1>2. ask[n] \in Ask /\ ask[n].on = "none"
  BY <1>1, AskFacts DEF MembersInv, Hands, Hand, Running
<1>3. notification \in [Notification -> Versions({"unread", "read", Gone}, Request)] /\ n \in Notification
  BY RequestFacts DEF MembersInv, MembersTypeOK
<1>4. notification[n].old = Gone /\ notification[n].by = Nobody
  <2>1. notification[n].old = Gone
    BY <1>1 DEF MembersInv, Fresh
  <2>2. ASSUME NEW m \in Request, notification[n].by = m PROVE FALSE
    <3>1. pc[m] = "commit" /\ HeldNote(m, n)
      BY <1>3, <2>2 DEF MembersInv, Held, Holds
    <3>2. QED  BY <1>1, <2>1, <3>1 DEF HeldNote
  <2>3. QED  BY <1>3, <2>1, <2>2 DEF Versions
<1>5. /\ notification' \in [Notification -> Versions({"unread", "read", Gone}, Request)]
      /\ notification'[n] = [old |-> Gone, new |-> "unread", by |-> n]
      /\ \A x \in Notification \ {n} : notification'[x] = notification[x]
  BY <1>1, <1>3, <1>4 DEF Write, Versions
<1>6. \A x \in Notification :
         /\ Touched(notification[x], notification'[x], n)
         /\ notification'[x] # notification[x] => HeldNote(n, x)'
  BY <1>1, <1>4, <1>5 DEF Touched, HeldNote
<1>7. MembersTypeOK'
  <2>1. /\ user_block \in [Row -> Versions(BlockType \cup {Gone}, Request)]
        /\ bookmark \in [Row -> Versions(Id \cup {NoBookmark}, Request)]
        /\ rule \in [Row -> Versions(InstanceRule \cup {NoRule}, Request)]
    BY DEF MembersInv, MembersTypeOK
  <2>2. QED  BY <1>1, <1>5, <2>1, WriteTyped DEF MembersInv
<1>8. pc'[n] = "commit"
  BY <1>1 DEF MembersInv, MembersTypeOK, Goto
<1>9. Relies(n)'
  <2>1. WillKeep(n)'
    BY <1>1, <1>2 DEF WillKeep
  <2>2. QED  BY <1>8, <2>1 DEF Relies
<1>10. Page(n)'
  BY <1>1, <1>8, NoPageKeeps
<1>11. QED  BY <1>1, <1>6, <1>7, <1>9, <1>10, GoKeeps DEF Touched

LEMMA PageLoadKeeps ==
    ASSUME MembersInv, NEW n \in Request, PageLoad(n)
    PROVE  MembersInv'
<1>1. /\ pc[n] = "read" /\ ask[n].kind = "page" /\ loaded' = [loaded EXCEPT ![n] = Unread]
      /\ UNCHANGED <<rows, ask, bounds, history>> /\ old' = old /\ targets' = targets
      /\ ask' = ask /\ notification' = notification /\ late' = late
  BY DEF PageLoad, rows, history
<1>2. PICK there \in {"write", "commit"} : Goto(n, there) /\ (there = "commit" => Unread = {})
  BY DEF PageLoad
<1>3. ask[n].on = "none"
  BY <1>1, AskFacts DEF MembersInv, Hands, Hand, Running
<1>4. /\ old \in [Request -> InstanceRule \cup {NoRule}]
      /\ targets \in [Request -> SUBSET Notification]
      /\ loaded' \in [Request -> SUBSET Notification] /\ loaded'[n] = Unread
      /\ \A m \in Request \ {n} : loaded'[m] = loaded[m]
  BY <1>1 DEF MembersInv, MembersTypeOK, Unread
<1>5. WillKeep(n) /\ ~Asks(n, "add", "mark") /\ ~Asks(n, "add", "rule")
  BY <1>3 DEF WillKeep, Asks
<1>6. Page(n)'
  <2>1. pc'[n] = there /\ Unread' = Unread
    BY <1>1, <1>2 DEF MembersInv, MembersTypeOK, Goto, Unread
  <2>2. \A x \in Unread : notification[x].old # Gone
    BY DEF Unread, Gone
  <2>3. QED  BY <1>1, <1>2, <1>4, <2>1, <2>2 DEF Page
<1>7. there # "mark"
  OBVIOUS
<1>8. QED  BY <1>1, <1>2, <1>4, <1>5, <1>6, <1>7, LookKeeps

LEMMA PageAimKeeps ==
    ASSUME MembersInv, NEW n \in Request, PageAim(n)
    PROVE  MembersInv'
<1>1. /\ pc[n] = "write" /\ ask[n].kind = "page" /\ targets' = [targets EXCEPT ![n] = Unread]
      /\ Goto(n, "mark")
      /\ UNCHANGED <<rows, ask, bounds, history>> /\ old' = old /\ loaded' = loaded
      /\ ask' = ask /\ notification' = notification /\ late' = late
  BY DEF PageAim, rows, history
<1>2. /\ old \in [Request -> InstanceRule \cup {NoRule}]
      /\ loaded \in [Request -> SUBSET Notification]
      /\ targets' \in [Request -> SUBSET Notification] /\ targets'[n] = Unread
      /\ \A m \in Request \ {n} : targets'[m] = targets[m]
  BY <1>1 DEF MembersInv, MembersTypeOK, Unread
<1>3. Page(n)'
  <2>1. Page(n) /\ BetweenTwo(n)
    BY <1>1 DEF MembersInv, Pages, BetweenTwo
  <2>2. pc'[n] = "mark"
    BY <1>1 DEF MembersInv, MembersTypeOK, Goto
  <2>3. \A x \in Notification : notification[x].old \in {"unread", "read", Gone}
    BY DEF MembersInv, MembersTypeOK, Versions
  <2>4. \A x \in loaded[n] : notification[x].old # Gone /\ (notification[x].old = "read" \/ x \in Unread)
    BY <1>2, <2>1, <2>3 DEF Page, Unread
  <2>5. \A x \in Unread : x \in loaded[n] \cup late[n] /\ notification[x].old # Gone
    BY <2>1 DEF Page, Unread, Gone
  <2>6. QED  BY <1>1, <1>2, <2>2, <2>4, <2>5 DEF Page, BetweenTwo
<1>4. QED  BY <1>1, <1>2, <1>3, LookKeeps

LEMMA PageMarkKeeps ==
    ASSUME MembersInv, NEW n \in Request, PageMark(n)
    PROVE  MembersInv'
<1>1. /\ pc[n] = "mark" /\ Goto(n, "commit")
      /\ \A x \in targets[n] : MayWrite(notification, x, n)
      /\ notification' = [x \in Notification |->
                            IF x \in targets[n] /\ notification[x].new = "unread"
                            THEN [notification[x] EXCEPT !.new = "read", !.by = n]
                            ELSE notification[x]]
      /\ user_block' = user_block /\ bookmark' = bookmark /\ rule' = rule
      /\ UNCHANGED <<local, bounds, history>> /\ ask' = ask /\ old' = old
      /\ loaded' = loaded /\ targets' = targets /\ late' = late
  BY DEF PageMark, local, history
<1>2. ask[n] \in Ask /\ ask[n].kind = "page" /\ ask[n].on = "none"
  BY <1>1, AskFacts DEF MembersInv, Hands, Hand, Running
<1>3. /\ notification \in [Notification -> Versions({"unread", "read", Gone}, Request)]
      /\ targets[n] \subseteq Notification /\ loaded[n] \subseteq Notification
  BY DEF MembersInv, MembersTypeOK
<1>4. Page(n)
  BY DEF MembersInv, Pages
<1>5. \A x \in targets[n] :
         /\ notification[x].by = Nobody /\ notification[x].new = notification[x].old
         /\ x \in loaded[n] \cup late[n] /\ notification[x].old # Gone
  BY <1>1, <1>3, <1>4, FreeRow DEF Page
<1>6. \A x \in Notification :
         \/ notification'[x] = notification[x] /\ (x \in targets[n] => notification[x].new # "unread")
         \/ /\ x \in targets[n]
            /\ notification'[x] = [old |-> notification[x].old, new |-> "read", by |-> n]
  BY <1>1, <1>3 DEF Versions
<1>7. notification' \in [Notification -> Versions({"unread", "read", Gone}, Request)]
  BY <1>1, <1>3 DEF Versions
<1>8. \A x \in Notification :
         /\ Touched(notification[x], notification'[x], n)
         /\ notification'[x] # notification[x] => HeldNote(n, x)'
  BY <1>1, <1>2, <1>5, <1>6 DEF Touched, HeldNote
<1>9. MembersTypeOK'
  <2>1. /\ user_block \in [Row -> Versions(BlockType \cup {Gone}, Request)]
        /\ bookmark \in [Row -> Versions(Id \cup {NoBookmark}, Request)]
        /\ rule \in [Row -> Versions(InstanceRule \cup {NoRule}, Request)]
    BY DEF MembersInv, MembersTypeOK
  <2>2. QED  BY <1>1, <1>7, <2>1, WriteTyped DEF MembersInv
<1>10. pc'[n] = "commit"
  BY <1>1 DEF MembersInv, MembersTypeOK, Goto
<1>11. Relies(n)'
  <2>1. WillKeep(n)'
    BY <1>1, <1>2 DEF WillKeep
  <2>2. QED  BY <1>10, <2>1 DEF Relies
<1>12. Page(n)'
  <2>1. ASSUME NEW x \in loaded[n]
        PROVE  /\ notification'[x].old # Gone
               /\ notification'[x].old = "read" \/ (notification'[x].by = n /\ notification'[x].new = "read")
    <3>1. notification[x].old # Gone /\ (notification[x].old = "read" \/ x \in targets[n])
      BY <1>1, <1>4 DEF Page
    <3>2. x \in Notification
      BY <1>3
    <3>3. notification[x].old \in {"unread", "read", Gone}
      BY <1>3, <3>2 DEF Versions
    <3>4. \/ notification'[x] = notification[x] /\ (x \in targets[n] => notification[x].new # "unread")
          \/ /\ x \in targets[n]
             /\ notification'[x] = [old |-> notification[x].old, new |-> "read", by |-> n]
      BY <1>6, <3>2
    <3>5. x \in targets[n] => notification[x].new = notification[x].old
      BY <1>5
    <3>6. QED  BY <3>1, <3>3, <3>4, <3>5
  <2>2. QED  BY <1>1, <1>2, <1>10, <2>1 DEF Page, BetweenTwo
<1>13. QED  BY <1>1, <1>8, <1>9, <1>11, <1>12, GoKeeps DEF Touched

(***************************************************************************)
(* The commit                                                              *)
(***************************************************************************)
\* What a page has loaded it shows, or it is more than the page holds.
LEMMA NewestAll ==
    ASSUME NEW s \in SUBSET Notification, NEW x \in s
    PROVE  x \in Newest(s) \cup Beyond(s)
<1>1. IsFiniteSet(Notification)
  <2>1. -1 \in Int /\ 0 \in Int /\ 1 \in Int /\ MaxRequests \in Int
    BY RequestsAssumption
  <2>2. IsFiniteSet(Before)
    BY <2>1, FS_Interval DEF Before
  <2>3. IsFiniteSet(Request)
    BY <2>1, FS_Interval DEF Request
  <2>4. QED  BY <2>2, <2>3, FS_Union DEF Notification
<1>2. {y \in s : y > x} \in SUBSET Notification
  OBVIOUS
<1>3. Cardinality({y \in s : y > x}) \in Nat
  BY <1>1, <1>2, FS_Subset, FS_CardinalityType
<1>4. Cardinality({y \in s : y > x}) < PageSize \/ Cardinality({y \in s : y > x}) >= PageSize
  BY <1>3, PageAssumption
<1>5. QED  BY <1>4 DEF Newest, Beyond

LEMMA CommitFacts ==
    ASSUME MembersInv, NEW n \in Request, Commit(n)
    PROVE  /\ user_block' \in [Row -> Versions(BlockType \cup {Gone}, Request)]
           /\ user_block'["it"] = IF user_block["it"].by = n THEN Committed(user_block["it"].new)
                                  ELSE user_block["it"]
           /\ bookmark' \in [Row -> Versions(Id \cup {NoBookmark}, Request)]
           /\ bookmark'["it"] = IF bookmark["it"].by = n THEN Committed(bookmark["it"].new)
                                ELSE bookmark["it"]
           /\ rule' \in [Row -> Versions(InstanceRule \cup {NoRule}, Request)]
           /\ rule'["it"] = IF rule["it"].by = n THEN Committed(rule["it"].new) ELSE rule["it"]
           /\ notification' \in [Notification -> Versions({"unread", "read", Gone}, Request)]
           /\ \A x \in Notification :
                 notification'[x] = IF notification[x].by = n THEN Committed(notification[x].new)
                                    ELSE notification[x]
<1>1. /\ user_block' = CommitRows(user_block, n) /\ bookmark' = CommitRows(bookmark, n)
      /\ rule' = CommitRows(rule, n) /\ notification' = CommitRows(notification, n)
  BY DEF Commit
<1>2. /\ user_block' \in [Row -> Versions(BlockType \cup {Gone}, Request)]
      /\ user_block'["it"] = IF user_block["it"].by = n THEN Committed(user_block["it"].new)
                             ELSE user_block["it"]
  BY <1>1, RequestFacts DEF MembersInv, MembersTypeOK, CommitRows, Committed, Versions
<1>3. /\ bookmark' \in [Row -> Versions(Id \cup {NoBookmark}, Request)]
      /\ bookmark'["it"] = IF bookmark["it"].by = n THEN Committed(bookmark["it"].new)
                           ELSE bookmark["it"]
  BY <1>1, RequestFacts DEF MembersInv, MembersTypeOK, CommitRows, Committed, Versions
<1>4. /\ rule' \in [Row -> Versions(InstanceRule \cup {NoRule}, Request)]
      /\ rule'["it"] = IF rule["it"].by = n THEN Committed(rule["it"].new) ELSE rule["it"]
  BY <1>1, RequestFacts DEF MembersInv, MembersTypeOK, CommitRows, Committed, Versions
<1>5. /\ notification' \in [Notification -> Versions({"unread", "read", Gone}, Request)]
      /\ \A x \in Notification :
            notification'[x] = IF notification[x].by = n THEN Committed(notification[x].new)
                               ELSE notification[x]
  BY <1>1 DEF MembersInv, MembersTypeOK, CommitRows, Committed, Versions
<1>6. QED  BY <1>2, <1>3, <1>4, <1>5

\* Who has looked at a row that changes is overtaken.
LEMMA CommitLooks ==
    ASSUME MembersInv, NEW n \in Request, Commit(n), NEW m \in Request \ {n}
    PROVE  LookFrame(m)
<1>1. overtaken'[m] = (overtaken[m] \/ m \in Looked(n))
  BY DEF Commit
<1>2. /\ user_block["it"].by = n => n \in Holders(user_block)
      /\ bookmark["it"].by = n => n \in Holders(bookmark)
      /\ rule["it"].by = n => n \in Holders(rule)
  BY RequestFacts DEF Holders, MembersInv, MembersTypeOK
<1>3. /\ user_block["it"].by = n => ask[n].on = "pair"
      /\ bookmark["it"].by = n => ask[n].on = "mark"
      /\ rule["it"].by = n => ask[n].on = "rule"
  BY DEF MembersInv, Held, Holds
<1>4. SUFFICES ASSUME m \notin Looked(n), pc[m] \in Running, pc[m] # Start(ask[m])
               PROVE  /\ ask[m].on = "pair" => user_block'["it"].old = user_block["it"].old
                      /\ ask[m].on = "mark" => bookmark'["it"].old = bookmark["it"].old
                      /\ ask[m].on = "rule" => rule'["it"].old = rule["it"].old
  BY <1>1 DEF LookFrame
<1>5. /\ ask[m].on = "pair" => user_block["it"].by # n
      /\ ask[m].on = "mark" => bookmark["it"].by # n
      /\ ask[m].on = "rule" => rule["it"].by # n
  BY <1>2, <1>3, <1>4 DEF Looked
<1>6. QED  BY <1>5, CommitFacts

\* A notification that comes is late for a page between its two statements.
LEMMA CommitNotes ==
    ASSUME MembersInv, NEW n \in Request, Commit(n), NEW x \in Notification
    PROVE  NoteFrame(x, n) /\ RowFrame(notification[x], notification'[x], n)
<1>1. notification'[x] = IF notification[x].by = n THEN Committed(notification[x].new)
                         ELSE notification[x]
  BY CommitFacts
<1>2. CASE notification[x].by # n
  BY <1>1, <1>2 DEF NoteFrame, RowFrame
<1>3. CASE notification[x].by = n
  <2>1. HeldNote(n, x)
    BY <1>3 DEF MembersInv, Held, Holds
  <2>2. ask[n].kind = "notify" => \A m \in Request : BetweenTwo(m) => n \in late'[m]
    BY DEF Commit
  <2>3. notification'[x].old = notification[x].new /\ notification'[x].by = Nobody
    BY <1>1, <1>3 DEF Committed
  <2>4. QED  BY <1>3, <2>1, <2>2, <2>3 DEF HeldNote, NoteFrame, RowFrame
<1>4. QED  BY <1>2, <1>3

LEMMA CommitAnswers ==
    ASSUME MembersInv, NEW n \in Request, Commit(n)
    PROVE  Answered'
<1>1. pc[n] = "commit" /\ settled' = [t \in Table |-> IF ask[n].on # t THEN settled[t]
                                          ELSE IF overtaken[n] THEN Nothing ELSE ask[n]]
  BY DEF Commit
<1>2. PICK a \in Ask : a = ask[n]
  BY <1>1 DEF MembersInv, Hands, Hand, Running
<1>3. Holds(n)
  BY DEF MembersInv, Held
<1>4. SUFFICES ASSUME NEW t \in Table, settled'[t] \in Ask
               PROVE  \A b \in Ask : b = settled'[t] => b.on = t /\ (Keeps(b) \/ OtherEntry(b))'
  BY DEF Answered
<1>5. SUFFICES ASSUME NEW b \in Ask, b = settled'[t] PROVE b.on = t /\ (Keeps(b) \/ OtherEntry(b))'
  OBVIOUS
<1>6. CASE a.on # t
  <2>1. settled[t] = b
    BY <1>1, <1>2, <1>5, <1>6
  <2>2. b.on = t /\ (Keeps(b) \/ OtherEntry(b))
    BY <2>1 DEF MembersInv, Answered
  <2>3. /\ t = "pair" => user_block'["it"].old = user_block["it"].old
        /\ t = "mark" => bookmark'["it"].old = bookmark["it"].old
        /\ t = "rule" => rule'["it"].old = rule["it"].old
    BY <1>2, <1>3, <1>6, CommitFacts DEF Holds
  <2>4. QED  BY <2>2, <2>3, KeepsStay
<1>7. CASE a.on = t
  <2>1. ~overtaken[n] /\ b = a
    BY <1>1, <1>2, <1>5, <1>7, AskFacts
  <2>2. WillKeep(n)
    BY <1>1, <2>1 DEF MembersInv, Undisturbed, Relies
  <2>3. /\ user_block'["it"].old = Left(user_block["it"], n)
        /\ bookmark'["it"].old = Left(bookmark["it"], n)
        /\ rule'["it"].old = Left(rule["it"], n)
        /\ user_block'["it"].old \in BlockType \cup {Gone}
    BY CommitFacts, RequestFacts DEF Committed, Left, Versions
  <2>4. a.on \in {"pair", "mark", "rule"} /\ a.kind \in {"add", "drop"} /\ (a.on = "pair" => a.type \in BlockType)
    BY <1>7, AskFacts DEF Table
  <2>5. CASE a.on = "pair"
    <3>1. /\ a.kind = "add" => user_block'["it"].old # Gone
          /\ a.kind = "drop" => user_block'["it"].old # a.type
      BY <1>2, <2>2, <2>3, <2>5 DEF WillKeep
    <3>2. a.kind = "add" => user_block'["it"].old = a.type \/ OtherEntry(a)'
      BY <2>3, <2>5, <3>1 DEF OtherEntry
    <3>3. QED  BY <2>1, <2>4, <2>5, <3>1, <3>2, <1>7 DEF Keeps
  <2>6. CASE a.on = "mark"
    <3>1. /\ a.kind = "add" => bookmark'["it"].old # NoBookmark
          /\ a.kind = "drop" => bookmark'["it"].old # a.id
      BY <1>2, <2>2, <2>3, <2>6 DEF WillKeep
    <3>2. QED  BY <2>1, <2>4, <2>6, <3>1, <1>7 DEF Keeps
  <2>7. CASE a.on = "rule"
    <3>1. /\ a.kind = "add" => rule'["it"].old = a.new
          /\ a.kind = "drop" => rule'["it"].old = NoRule
      BY <1>2, <2>2, <2>3, <2>7 DEF WillKeep
    <3>2. QED  BY <2>1, <2>4, <2>7, <3>1, <1>7 DEF Keeps
  <2>8. QED  BY <1>7, <2>1, <2>4, <2>5, <2>6, <2>7
<1>8. QED  BY <1>6, <1>7

LEMMA CommitReads ==
    ASSUME MembersInv, NEW n \in Request, Commit(n)
    PROVE  ReadIsAccountedFor'
<1>1. /\ pc[n] = "commit"
      /\ shown' = shown \cup Newest(loaded[n]) /\ passed' = passed \cup Beyond(loaded[n]) \cup late[n]
  BY DEF Commit
<1>2. loaded[n] \in SUBSET Notification
  BY DEF MembersInv, MembersTypeOK
<1>3. SUFFICES ASSUME NEW x \in Notification
               PROVE  /\ notification'[x].old = "read" => x \in shown' \cup passed'
                      /\ x \in shown' => notification'[x].old = "read"
  BY DEF ReadIsAccountedFor
<1>4. /\ notification[x].old = "read" => x \in shown \cup passed
      /\ x \in shown => notification[x].old = "read"
  BY DEF MembersInv, ReadIsAccountedFor
<1>5. CASE notification[x].by = n
  <2>1. HeldNote(n, x)
    BY <1>5 DEF MembersInv, Held, Holds
  <2>2. notification'[x].old = notification[x].new
    <3>1. notification'[x] = IF notification[x].by = n THEN Committed(notification[x].new)
                             ELSE notification[x]
      BY CommitFacts
    <3>2. QED  BY <1>5, <3>1 DEF Committed
  <2>3. CASE ask[n].kind = "page"
    <3>1. x \in loaded[n] \cup late[n] /\ notification[x].new = "read"
      BY <2>1, <2>3 DEF HeldNote
    <3>2. QED  BY <1>1, <1>2, <2>2, <3>1, NewestAll
  <2>4. CASE ask[n].kind # "page"
    <3>1. notification[x].new = "unread" /\ notification[x].old = Gone
      BY <2>1, <2>4 DEF HeldNote
    <3>2. loaded[n] = {}
      BY <2>4 DEF MembersInv, Pages, Page
    <3>3. QED  BY <1>1, <1>4, <2>2, <3>1, <3>2 DEF Newest, Gone
  <2>5. QED  BY <2>3, <2>4
<1>6. CASE notification[x].by # n
  <2>1. notification'[x] = notification[x]
    BY <1>6, CommitFacts
  <2>2. x \in loaded[n] => notification[x].old = "read"
    BY <1>1, <1>6 DEF MembersInv, Pages, Page
  <2>3. QED  BY <1>1, <1>4, <2>1, <2>2 DEF Newest
<1>7. QED  BY <1>5, <1>6

LEMMA CommitKeeps ==
    ASSUME MembersInv, NEW n \in Request, Commit(n)
    PROVE  MembersInv'
<1>1. /\ pc[n] = "commit" /\ End(n, "done") /\ arrived' = arrived /\ faults' = faults
      /\ overtaken' = [m \in Request |-> overtaken[m] \/ m \in Looked(n)]
      /\ settled' = [t \in Table |-> IF ask[n].on # t THEN settled[t]
                                     ELSE IF overtaken[n] THEN Nothing ELSE ask[n]]
      /\ late' = [p \in Request |-> IF ask[n].kind = "notify" /\ BetweenTwo(p)
                                    THEN late[p] \cup {n} ELSE late[p]]
      /\ shown' = shown \cup Newest(loaded[n])
      /\ passed' = passed \cup Beyond(loaded[n]) \cup late[n]
  BY DEF Commit, bounds
<1>2. ask[n] \in Ask /\ pc[n] \in Running /\ "done" \in Ended
  BY <1>1 DEF MembersInv, Hands, Hand, Running, Ended
<1>3. MembersTypeOK'
  <2>1. settled' \in [Table -> Ask \cup {Nothing}]
    BY <1>1, <1>2 DEF MembersInv, MembersTypeOK
  <2>2. shown' \subseteq Notification /\ passed' \subseteq Notification
    BY <1>1 DEF MembersInv, MembersTypeOK, Newest, Beyond
  <2>3. overtaken' \in [Request -> BOOLEAN] /\ late' \in [Request -> SUBSET Notification]
    BY <1>1, RequestFacts DEF MembersInv, MembersTypeOK
  <2>4. QED  BY <1>1, <1>2, <2>1, <2>2, <2>3, CommitFacts, EndTyped DEF MembersInv, MembersTypeOK
<1>4. Frame(n)
  <2>1. \A m \in Request \ {n} :
          /\ pc'[m] = pc[m] /\ ask'[m] = ask[m] /\ old'[m] = old[m]
          /\ loaded'[m] = loaded[m] /\ targets'[m] = targets[m]
    BY <1>1, <1>2, EndTyped DEF MembersInv
  <2>2. \A m \in Request \ {n} : (overtaken[m] => overtaken'[m]) /\ late[m] \subseteq late'[m]
    BY <1>1
  <2>3. /\ RowFrame(user_block["it"], user_block'["it"], n)
        /\ RowFrame(bookmark["it"], bookmark'["it"], n)
        /\ RowFrame(rule["it"], rule'["it"], n)
    BY CommitFacts DEF RowFrame, Committed
  <2>4. QED  BY <1>1, <2>1, <2>2, <2>3, CommitLooks, CommitNotes DEF Frame
<1>5. /\ user_block'["it"].by # n /\ bookmark'["it"].by # n /\ rule'["it"].by # n
      /\ \A x \in Notification : notification'[x].by # n
  <2>1. /\ user_block'["it"] = IF user_block["it"].by = n THEN Committed(user_block["it"].new)
                               ELSE user_block["it"]
        /\ bookmark'["it"] = IF bookmark["it"].by = n THEN Committed(bookmark["it"].new)
                             ELSE bookmark["it"]
        /\ rule'["it"] = IF rule["it"].by = n THEN Committed(rule["it"].new) ELSE rule["it"]
    BY CommitFacts
  <2>2. \A x \in Notification :
           notification'[x] = IF notification[x].by = n THEN Committed(notification[x].new)
                              ELSE notification[x]
    BY CommitFacts
  <2>3. n # Nobody
    BY RequestFacts
  <2>4. user_block'["it"].by # n /\ bookmark'["it"].by # n /\ rule'["it"].by # n
    BY <2>1, <2>3 DEF Committed
  <2>5. ASSUME NEW x \in Notification PROVE notification'[x].by # n
    <3>1. CASE notification[x].by = n
      <4>1. notification'[x] = Committed(notification[x].new)
        BY <2>2, <3>1
      <4>2. notification'[x].by = Nobody
        BY <4>1 DEF Committed
      <4>3. QED  BY <2>3, <4>2
    <3>2. CASE notification[x].by # n
      BY <2>2, <3>2
    <3>3. QED  BY <3>1, <3>2
  <2>6. QED  BY <2>4, <2>5
<1>6. Hand(n)' /\ Holds(n)' /\ Page(n)' /\ (overtaken'[n] \/ Relies(n)')
  <2>1. Hand(n)' /\ Holds(n)' /\ Page(n)' /\ ("done" # "clash" => Relies(n)')
    BY <1>1, <1>2, <1>5, EndedKeeps
  <2>2. QED  BY <2>1
<1>7. Settled'
  <2>1. ASSUME user_block'["it"].by = Nobody PROVE user_block'["it"].new = user_block'["it"].old
    BY <2>1, CommitFacts DEF MembersInv, Settled, Committed
  <2>2. ASSUME bookmark'["it"].by = Nobody PROVE bookmark'["it"].new = bookmark'["it"].old
    BY <2>2, CommitFacts DEF MembersInv, Settled, Committed
  <2>3. ASSUME rule'["it"].by = Nobody PROVE rule'["it"].new = rule'["it"].old
    BY <2>3, CommitFacts DEF MembersInv, Settled, Committed
  <2>4. ASSUME NEW x \in Notification, notification'[x].by = Nobody
        PROVE  notification'[x].new = notification'[x].old
    <3>1. notification'[x] = IF notification[x].by = n THEN Committed(notification[x].new)
                             ELSE notification[x]
      BY CommitFacts
    <3>2. CASE notification[x].by = n
      BY <3>1, <3>2 DEF Committed
    <3>3. CASE notification[x].by # n
      BY <2>4, <3>1, <3>3 DEF MembersInv, Settled
    <3>4. QED  BY <3>2, <3>3
  <2>5. QED  BY <2>1, <2>2, <2>3, <2>4 DEF Settled
<1>8. pc'[n] \notin {"idle", "read", "write", "mark"}
  BY <1>1, <1>2, EndTyped DEF MembersInv
<1>9. QED  BY <1>3, <1>4, <1>6, <1>7, <1>8, CommitAnswers, CommitReads, StepKeeps

(***************************************************************************)
(* Arrivals, the initial states, and all steps                             *)
(***************************************************************************)
LEMMA ArriveKeeps ==
    ASSUME MembersInv, NEW n \in Request, NEW a \in Ask, Arrive(n, a)
    PROVE  MembersInv'
<1>1. /\ n = arrived + 1 /\ arrived' = n /\ ask' = [ask EXCEPT ![n] = a] /\ Goto(n, Start(a))
      /\ user_block' = user_block /\ bookmark' = bookmark /\ rule' = rule /\ notification' = notification
      /\ old' = old /\ loaded' = loaded /\ targets' = targets /\ faults' = faults
      /\ overtaken' = overtaken /\ late' = late
      /\ settled' = settled /\ shown' = shown /\ passed' = passed
  BY DEF Arrive, rows, history
<1>2. arrived \in Nat /\ n \in Nat /\ n \in 0..MaxRequests /\ n > arrived
  BY <1>1, RequestsAssumption DEF MembersInv, MembersTypeOK, Request
<1>3. pc[n] = "idle"
  BY <1>2 DEF MembersInv, Hands, Hand
<1>4. /\ Start(a) \in {"write", "read"}
      /\ "write" = Start(a) => ~(a.kind = "add" /\ a.on \in {"mark", "rule"}) /\ a.kind # "page"
  BY AskFacts DEF Start
<1>5. /\ pc' \in [Request -> {"idle"} \cup Running \cup Ended] /\ pc'[n] = Start(a)
      /\ \A m \in Request \ {n} : pc'[m] = pc[m]
      /\ ask' \in [Request -> Ask \cup {Nothing}] /\ ask'[n] = a
      /\ \A m \in Request \ {n} : ask'[m] = ask[m]
  BY <1>1, <1>4 DEF MembersInv, MembersTypeOK, Goto, Running
<1>6. MembersTypeOK'
  BY <1>1, <1>2, <1>5 DEF MembersInv, MembersTypeOK
<1>7. Frame(n)
  <2>1. \A m \in Request \ {n} : m > arrived' <=> m > arrived
    BY <1>1, <1>2, RequestFacts
  <2>2. \A m \in Request \ {n} : LookFrame(m)
    BY <1>1 DEF LookFrame
  <2>3. QED  BY <1>1, <1>5, <2>1, <2>2 DEF Frame, RowFrame, NoteFrame
<1>8. Hand(n)'
  BY <1>1, <1>2, <1>4, <1>5 DEF Hand, Running
<1>9. Holds(n)'
  BY <1>1, <1>3, HoldsNothing DEF Holds
<1>10. Page(n)'
  <2>1. loaded[n] = {}
    BY <1>3 DEF MembersInv, Pages, Page
  <2>2. QED  BY <1>1, <1>4, <1>5, <2>1 DEF Page, BetweenTwo
<1>11. Relies(n)'
  BY <1>4, <1>5 DEF Relies, Asks
<1>12. notification'[n].old = Gone
  BY <1>1, <1>3 DEF MembersInv, Fresh
<1>13. Settled'
  BY <1>1 DEF MembersInv, Settled
<1>14. Answered' /\ ReadIsAccountedFor'
  BY <1>1, AnswersStay
<1>15. QED  BY <1>6, <1>7, <1>8, <1>9, <1>10, <1>11, <1>12, <1>13, <1>14, StepKeeps

LEMMA IdleKeeps ==
    ASSUME MembersInv, UNCHANGED vars
    PROVE  MembersInv'
<1>1. /\ user_block' = user_block /\ bookmark' = bookmark /\ rule' = rule /\ notification' = notification
      /\ pc' = pc /\ ask' = ask /\ old' = old /\ loaded' = loaded /\ targets' = targets
      /\ arrived' = arrived /\ faults' = faults
      /\ overtaken' = overtaken /\ late' = late
      /\ settled' = settled /\ shown' = shown /\ passed' = passed
  BY DEF vars, rows, local, bounds, history
<1>2. MembersTypeOK' /\ Hands' /\ Settled' /\ Fresh'
  BY <1>1 DEF MembersInv, MembersTypeOK, Hands, Hand, Settled, Fresh
<1>3. Held'
  BY <1>1 DEF MembersInv, Held, Holds, HeldNote
<1>4. Pages'
  BY <1>1 DEF MembersInv, Pages, Page, BetweenTwo, Unread
<1>5. Undisturbed'
  <2> SUFFICES ASSUME NEW m \in Request, ~overtaken[m] PROVE Relies(m)'
    BY <1>1 DEF Undisturbed
  <2>1. Relies(m)
    BY DEF MembersInv, Undisturbed
  <2>2. QED  BY <1>1, <2>1 DEF Relies, Asks, WillKeep
<1>6. Answered' /\ ReadIsAccountedFor'
  BY <1>1, AnswersStay
<1>7. QED  BY <1>2, <1>3, <1>4, <1>5, <1>6 DEF MembersInv

LEMMA MembersInit ==
    ASSUME Init
    PROVE  MembersInv
<1>1. PICK b \in BlockType \cup {Gone}, m \in {Earlier, NoBookmark}, r \in InstanceRule \cup {NoRule},
           x \in {{}, {0}, Before} :
          /\ user_block = [i \in Row |-> Committed(b)]
          /\ bookmark = [i \in Row |-> Committed(m)]
          /\ rule = [i \in Row |-> Committed(r)]
          /\ notification = [n \in Notification |-> Committed(IF n \in x THEN "unread" ELSE Gone)]
  BY DEF Init
<1>2. /\ pc = [n \in Request |-> "idle"] /\ ask = [n \in Request |-> Nothing]
      /\ old = [n \in Request |-> NoRule] /\ loaded = [n \in Request |-> {}]
      /\ targets = [n \in Request |-> {}] /\ late = [n \in Request |-> {}]
      /\ arrived = 0 /\ faults = 0 /\ overtaken = [n \in Request |-> FALSE]
      /\ settled = [t \in Table |-> Nothing] /\ shown = {} /\ passed = {}
  BY DEF Init
<1>3. MembersTypeOK
  <2>1. user_block \in [Row -> Versions(BlockType \cup {Gone}, Request)]
    BY <1>1 DEF Committed, Versions
  <2>2. bookmark \in [Row -> Versions(Id \cup {NoBookmark}, Request)]
    BY <1>1 DEF Committed, Versions, Id
  <2>3. rule \in [Row -> Versions(InstanceRule \cup {NoRule}, Request)]
    BY <1>1 DEF Committed, Versions
  <2>4. notification \in [Notification -> Versions({"unread", "read", Gone}, Request)]
    BY <1>1 DEF Committed, Versions
  <2>5. arrived \in 0..MaxRequests /\ faults \in 0..MaxFaults
    BY <1>2, RequestsAssumption, FaultsAssumption
  <2>6. QED  BY <1>2, <2>1, <2>2, <2>3, <2>4, <2>5 DEF MembersTypeOK
<1>4. /\ user_block["it"].by = Nobody /\ user_block["it"].new = user_block["it"].old
      /\ bookmark["it"].by = Nobody /\ bookmark["it"].new = bookmark["it"].old
      /\ rule["it"].by = Nobody /\ rule["it"].new = rule["it"].old
      /\ \A k \in Notification : /\ notification[k].by = Nobody /\ notification[k].old \in {"unread", Gone}
                                 /\ notification[k].new = notification[k].old
  BY <1>1, RequestFacts DEF Committed
<1>5. Hands
  <2>1. \A n \in Request : n > arrived
    BY <1>2, RequestsAssumption DEF Request
  <2>2. QED  BY <1>2, <2>1 DEF Hands, Hand, Running
<1>6. Held /\ Settled
  BY <1>4, RequestFacts DEF Held, Holds, Settled
<1>7. Fresh
  <2>1. \A k \in Request : k \notin x /\ k \in Notification
    BY RequestsAssumption, RequestFacts DEF Request, Before
  <2>2. QED  BY <1>1, <2>1 DEF Fresh, Committed
<1>8. Pages
  BY <1>2 DEF Pages, Page, BetweenTwo
<1>9. Undisturbed
  BY <1>2 DEF Undisturbed, Relies
<1>10. Answered
  BY <1>2, AskFacts DEF Answered
<1>11. ReadIsAccountedFor
  BY <1>2, <1>4 DEF ReadIsAccountedFor, Gone
<1>12. QED  BY <1>3, <1>5, <1>6, <1>7, <1>8, <1>9, <1>10, <1>11 DEF MembersInv

LEMMA NextKeeps ==
    ASSUME MembersInv, [Next]_vars
    PROVE  MembersInv'
<1>1. CASE UNCHANGED vars
  BY <1>1, IdleKeeps
<1>2. ASSUME NEW n \in Request, NEW a \in Ask, Arrive(n, a) PROVE MembersInv'
  BY <1>2, ArriveKeeps
<1>3. ASSUME NEW n \in Request, Refuse(n) \/ Die(n) PROVE MembersInv'
  BY <1>3, RefuseKeeps
<1>4. ASSUME NEW n \in Request, BlockInsert(n) \/ BlockDelete(n) PROVE MembersInv'
  BY <1>4, BlockKeeps
<1>5. ASSUME NEW n \in Request, MarkRead(n) \/ MarkInsert(n) \/ MarkDelete(n) PROVE MembersInv'
  BY <1>5, MarkReadKeeps, MarkWriteKeeps
<1>6. ASSUME NEW n \in Request, RuleRead(n) \/ RuleWrite(n) \/ RuleDelete(n)
      PROVE  MembersInv'
  BY <1>6, RuleReadKeeps, RuleWriteKeeps
<1>7. ASSUME NEW n \in Request, Notify(n) \/ PageLoad(n) \/ PageAim(n) \/ PageMark(n) PROVE MembersInv'
  BY <1>7, NotifyKeeps, PageLoadKeeps, PageAimKeeps, PageMarkKeeps
<1>8. ASSUME NEW n \in Request, Commit(n) PROVE MembersInv'
  BY <1>8, CommitKeeps
<1>9. CASE Quiescent
  BY <1>1, <1>9 DEF Quiescent
<1>10. QED  BY <1>1, <1>2, <1>3, <1>4, <1>5, <1>6, <1>7, <1>8, <1>9 DEF Next

(***************************************************************************)
(* The theorems                                                            *)
(***************************************************************************)
\* The inductive invariant: a request holds rows only of the table it asks about and only
\* until it commits, what it has looked at is as it was unless it is overtaken, and a page
\* on its way knows of every unread notification, or that one came late.
THEOREM MembersInvariant == Spec => []MembersInv
<1>1. Init => MembersInv
  BY MembersInit
<1>2. MembersInv /\ [Next]_vars => MembersInv'
  BY NextKeeps
<1>3. QED  BY <1>1, <1>2, PTL DEF Spec

\* Every variable keeps to the values the handlers give it.
THEOREM MembersTypeCorrect == Spec => []MembersTypeOK
<1>1. MembersInv => MembersTypeOK
  BY DEF MembersInv
<1>2. QED  BY <1>1, MembersInvariant, PTL

\* The handlers of moderation.py and bookmark_form.py lock nothing between their SELECT
\* and their write; still the last answer about a row is true while the row stays as it
\* was left, and no request fails on a constraint, unless another request changed the row
\* after this one had looked at it, or the answer is that of a block on a muted user or
\* of a mute on a blocked one.
THEOREM AnswersHoldUnlessOvertaken == Spec => []AnswersHold
<1>1. ASSUME MembersInv PROVE AnswersHold
  <2>1. \A t \in Table : settled[t] \in Ask => Keeps(settled[t]) \/ OtherEntry(settled[t])
    BY <1>1 DEF MembersInv, Answered
  <2>2. ASSUME NEW n \in Request, pc[n] = "clash" PROVE overtaken[n]
    BY <1>1, <2>2 DEF MembersInv, MembersTypeOK, Undisturbed, Relies
  <2>3. QED  BY <2>1, <2>2 DEF AnswersHold
<1>2. QED  BY <1>1, MembersInvariant, PTL

\* notifications_page marks read all that are unread when its UPDATE begins: what is read
\* was on a page, or was committed between the two statements of one, or was more than a
\* page holds; and what was on a page is read.
THEOREM ReadNotificationsAreAccountedFor == Spec => []ReadIsAccountedFor
<1>1. MembersInv => ReadIsAccountedFor
  BY DEF MembersInv
<1>2. QED  BY <1>1, MembersInvariant, PTL
=============================================================================
