---------------------------- MODULE CommentsProofs ----------------------------
(***************************************************************************)
(* Proofs about Comments for every set of notes and every number of        *)
(* requests: a note is stored once, a comment says what its server has     *)
(* last said of it, decisions are not undone, no reply outlives its        *)
(* parent, and followers are sent nothing that was not committed.          *)
(***************************************************************************)
EXTENDS Comments, TLAPS

(***************************************************************************)
(* The inductive invariant                                                 *)
(***************************************************************************)
Inserting == {"notify", "enqueue", "commit"}
New(n) == ask[n].kind \in {"comment", "create"}
About(n) == ask[n].note

\* The comment has been committed, though it may be gone by now.
Made(c) == c = Earlier \/ (c \in Request /\ pc[c] = "done")

\* What request n has in hand, where its program counter is.
Hand(n) ==
    /\ pc[n] = "idle" <=> n > arrived
    /\ pc[n] \notin {"insert", "notify", "enqueue", "write", "commit"} => found[n] = Top
    /\ pc[n] \in Running =>
          /\ ask[n] \in Ask
          /\ pc[n] = "record" => FromInbox(n)
          /\ pc[n] \in {"insert", "notify"} => New(n)
          /\ pc[n] = "enqueue" => ask[n].kind = "comment"
          /\ pc[n] = "write" => ~New(n) /\ found[n] # Top
          /\ \A c \in Comment : found[n] = c =>
                /\ Made(c)
                /\ ask[n].kind = "moderate" => c = ask[n].target
                /\ ask[n].kind \in {"update", "delete"} => note[c] = About(n)

\* Activities about one note x are handled one after the other: the row of its server is
\* locked by the first, and nothing else changes what is stored and said of the note.
Alone(n, x) ==
    pc[n] \in Running \ {"record"} /\ FromInbox(n) /\ About(n) = x =>
        /\ domain[x].by = n
        /\ ask[n].kind = "create" /\ (pc[n] \in {"insert", "notify"} \/ comment[n].by = n) =>
              Stored(x) = {}
        /\ ask[n].kind = "update" /\ pc[n] = "write" => was[n].text = told[x]
        /\ \A c \in Comment : found[n] = c /\ ~New(n) =>
              /\ Stored(x) \subseteq {c}
              /\ ask[n].kind = "update" /\ pc[n] = "commit" =>
                    comment[c].by = n \/ told[x] = ask[n].text
              /\ ask[n].kind = "delete" /\ pc[n] = "commit" =>
                    comment[c].by = n \/ ~There(c)

\* What request n, which holds row c, has made of it.
Wrote(n, c) ==
    /\ New(n) =>
          /\ c = n /\ pc[n] \in Inserting
          /\ comment[c].old = Gone
          /\ comment[c].new = [status |-> NewStatus(n), text |-> "posted"]
          /\ note[c] = IF FromInbox(n) THEN About(n) ELSE Local
    /\ ~New(n) => pc[n] = "commit" /\ There(c)
    /\ ask[n].kind = "moderate" =>
          /\ comment[c].new # Gone
          /\ comment[c].new.text = comment[c].old.text /\ comment[c].new.status = ask[n].to
    /\ ask[n].kind = "update" =>
          /\ c = found[n] /\ comment[c].new # Gone
          /\ comment[c].new.status = comment[c].old.status /\ comment[c].new.text = ask[n].text
    /\ ask[n].kind = "delete" => comment[c].new = Gone

Row(c) ==
    /\ comment[c].by = Nobody => comment[c].new = comment[c].old
    /\ \A n \in Request : comment[c].by = n => Wrote(n, c)
    /\ There(c) => Made(c)

\* A reply c to p came after p was committed, and is there only if p is; whoever deletes
\* p deletes c.
Family(c, p) ==
    parent[c] = p =>
        /\ Made(p)
        /\ comment[c].new # Gone => comment[p].new # Gone
        /\ There(c) => There(p)
        /\ There(c) /\ comment[p].new = Gone => comment[c].by = comment[p].by

Hands == \A n \in Request : Hand(n)
OneByOne == \A n \in Request : \A x \in Note : Alone(n, x)
Rows == \A c \in Comment : Row(c)
Families == \A c \in Comment : \A p \in Comment : Family(c, p)

\* A note is stored once.
OneRow ==
    \A c \in Comment : \A d \in Comment :
        There(c) /\ There(d) /\ note[c] = note[d] /\ note[c] # Local => c = d

CommentsInv ==
    /\ CommentsTypeOK
    /\ Hands /\ OneByOne /\ Rows /\ Families /\ OneRow
    /\ SaysWhatItsServerSaid /\ DecisionsHold /\ OnlyCommittedIsSent

(***************************************************************************)
(* Types                                                                   *)
(***************************************************************************)
LEMMA RequestFacts ==
    /\ \A n \in Request : n \in Nat /\ n # Nobody /\ n # Earlier /\ n # Top /\ n \in Comment
    /\ Top \notin Comment /\ Earlier \in Comment /\ Nobody = 0
  BY RequestsAssumption DEF Request, Nobody, Comment, Earlier, Top

LEMMA AskFacts ==
    ASSUME NEW a \in Ask
    PROVE  /\ a.kind \in {"comment", "moderate", "create", "update", "delete"}
           /\ a.kind \in {"comment", "create"} => a.parent \in Comment \cup {Top}
           /\ a.kind = "moderate" => a.target \in Comment /\ a.to \in {"published", "rejected"}
           /\ a.kind \in {"create", "update", "delete"} => a.note \in Note
           /\ a.kind = "update" => a.text \in Text
  BY DEF Ask

LEMMA BodyFacts ==
    /\ Gone \notin Body
    /\ Gone.status = "none" /\ Gone.text = "none"
    /\ \A v \in Body : v.status \in Status /\ v.text \in Text
    /\ \A s \in Status : \A t \in Text : [status |-> s, text |-> t] \in Body
    /\ \A v \in Body : \A s \in Status : /\ [v EXCEPT !.status = s] \in Body
                                         /\ [v EXCEPT !.status = s].status = s
                                         /\ [v EXCEPT !.status = s].text = v.text
    /\ \A v \in Body : \A t \in Text : /\ [v EXCEPT !.text = t] \in Body
                                       /\ [v EXCEPT !.text = t].text = t
                                       /\ [v EXCEPT !.text = t].status = v.status
  BY DEF Body, Gone, Status, Text

LEMMA WriteTyped ==
    ASSUME NEW K, NEW V, NEW tbl \in [K -> Versions(V, Request)], NEW k \in K, NEW v \in V,
           NEW n \in Request
    PROVE  /\ Write(tbl, k, v, n) \in [K -> Versions(V, Request)]
           /\ \A j \in K : /\ Write(tbl, k, v, n)[j].old = tbl[j].old
                           /\ j # k => Write(tbl, k, v, n)[j] = tbl[j]
           /\ Write(tbl, k, v, n)[k].new = v /\ Write(tbl, k, v, n)[k].by = n
  BY DEF Versions, Write

LEMMA SettleTyped ==
    ASSUME NEW K, NEW V, NEW tbl \in [K -> Versions(V, Request)], NEW n \in Request
    PROVE  /\ CommitRows(tbl, n) \in [K -> Versions(V, Request)]
           /\ RollbackRows(tbl, n) \in [K -> Versions(V, Request)]
           /\ \A k \in K : tbl[k].by = n =>
                 /\ CommitRows(tbl, n)[k].old = tbl[k].new /\ CommitRows(tbl, n)[k].new = tbl[k].new
                 /\ CommitRows(tbl, n)[k].by = Nobody
                 /\ RollbackRows(tbl, n)[k].old = tbl[k].old /\ RollbackRows(tbl, n)[k].new = tbl[k].old
                 /\ RollbackRows(tbl, n)[k].by = Nobody
           /\ \A k \in K : tbl[k].by # n => /\ CommitRows(tbl, n)[k] = tbl[k]
                                            /\ RollbackRows(tbl, n)[k] = tbl[k]
  BY DEF Versions, CommitRows, RollbackRows, Committed

(***************************************************************************)
(* What a step of one request leaves to the others                         *)
(***************************************************************************)
\* Request n arrives or is under way: what others have in hand, and the rows they hold, are theirs.
Frame(n) ==
    /\ pc[n] # "done" /\ fanout'[n] # "sent"
    /\ \A m \in Request \ {n} : /\ pc'[m] = pc[m] /\ ask'[m] = ask[m] /\ found'[m] = found[m]
                                /\ was'[m] = was[m] /\ fanout'[m] = fanout[m]
                                /\ m > arrived' <=> m > arrived
    /\ \A c \in Comment : /\ comment[c].by \notin {Nobody, n} => comment'[c] = comment[c]
                          /\ comment'[c].by \in {comment[c].by, n, Nobody}
                          /\ c # n => note'[c] = note[c] /\ parent'[c] = parent[c]
    /\ \A x \in Note : domain[x].by \notin {Nobody, n} => domain'[x] = domain[x]

LEMMA MadeStays ==
    ASSUME NEW n \in Request, Frame(n), NEW c \in Comment, Made(c)
    PROVE  Made(c)' /\ c # n /\ note'[c] = note[c]
<1>1. c # n
  BY RequestFacts DEF Frame, Made
<1>2. QED  BY <1>1 DEF Frame, Made

LEMMA HandStays ==
    ASSUME NEW n \in Request, Frame(n), NEW m \in Request \ {n}, Hand(m)
    PROVE  Hand(m)'
<1>1. /\ pc'[m] = pc[m] /\ (m > arrived' <=> m > arrived)
      /\ ask'[m] = ask[m] /\ found'[m] = found[m]
  BY DEF Frame
<1>2. \A c \in Comment : Made(c) => Made(c)' /\ note'[c] = note[c]
  BY MadeStays
<1>3. (FromInbox(m)' <=> FromInbox(m)) /\ (New(m)' <=> New(m)) /\ About(m)' = About(m)
  BY <1>1 DEF FromInbox, New, About
<1>4. QED  BY <1>1, <1>2, <1>3 DEF Hand

\* What is stored and told of a note changes only under the lock of its server's row.
LEMMA AloneStays ==
    ASSUME CommentsTypeOK, NEW n \in Request, Frame(n), NEW m \in Request \ {n}, NEW x \in Note,
           Hand(m), Alone(m, x),
           domain[x].by # n => told'[x] = told[x] /\ Stored(x)' \subseteq Stored(x),
           \A c \in Comment : Made(c) /\ There(c)' => There(c)
    PROVE  Alone(m, x)'
<1> SUFFICES ASSUME pc[m] \in Running \ {"record"}, FromInbox(m), About(m) = x
             PROVE  Alone(m, x)'
  BY DEF Frame, Alone, FromInbox, About
<1>1. /\ pc'[m] = pc[m] /\ ask'[m] = ask[m] /\ found'[m] = found[m] /\ was'[m] = was[m]
  BY DEF Frame
<1>2. (FromInbox(m)' <=> FromInbox(m)) /\ (New(m)' <=> New(m)) /\ About(m)' = About(m)
  BY <1>1 DEF FromInbox, New, About
<1>3. domain[x].by = m /\ m # n /\ m # Nobody
  BY RequestFacts DEF Alone
<1>4. domain'[x].by = m /\ told'[x] = told[x] /\ Stored(x)' \subseteq Stored(x)
  BY <1>3 DEF Frame
<1>5. \A c \in Comment : (comment'[c].by = m <=> comment[c].by = m)
  BY <1>3, RequestFacts DEF Frame
<1>6. \A c \in Comment : found[m] = c => (There(c)' => There(c))
  BY DEF Hand
<1>7. m \in Comment
  BY RequestFacts
<1> HIDE DEF Stored, There
<1>8. QED  BY <1>1, <1>2, <1>4, <1>5, <1>6, <1>7 DEF Alone

LEMMA SentStays ==
    ASSUME OnlyCommittedIsSent, NEW n \in Request, Frame(n)
    PROVE  OnlyCommittedIsSent'
  BY DEF OnlyCommittedIsSent, Frame

\* A step that shows nothing new to others.
Calm(n) == /\ Frame(n) /\ told' = told /\ verdict' = verdict
           /\ \A c \in Comment : comment'[c].old = comment[c].old

LEMMA CalmKeeps ==
    ASSUME CommentsInv, NEW n \in Request, Calm(n)
    PROVE  /\ \A c \in Comment : (There(c)' <=> There(c)) /\ (Made(c) => Made(c)')
           /\ \A x \in Note : Stored(x)' = Stored(x)
           /\ \A m \in Request \ {n} : Hand(m)' /\ \A x \in Note : Alone(m, x)'
           /\ OneRow' /\ SaysWhatItsServerSaid' /\ DecisionsHold' /\ OnlyCommittedIsSent'
<1>1. /\ Frame(n) /\ told' = told /\ verdict' = verdict
      /\ \A c \in Comment : comment'[c].old = comment[c].old
  BY DEF Calm
<1>2. \A c \in Comment : There(c)' <=> There(c)
  BY <1>1 DEF There
<1>3. \A c \in Comment : Made(c) => Made(c)' /\ note'[c] = note[c]
  BY <1>1, MadeStays
<1>4. \A c \in Comment : There(c) => Made(c) /\ note'[c] = note[c]
  BY <1>3 DEF CommentsInv, Rows, Row
<1>5. \A x \in Note : Stored(x)' = Stored(x)
  BY <1>2, <1>4 DEF Stored
<1>6. \A m \in Request \ {n} : Hand(m)'
  BY <1>1, HandStays DEF CommentsInv, Hands
<1>7. \A m \in Request \ {n} : \A x \in Note : Alone(m, x)'
  BY <1>1, <1>2, <1>5, AloneStays DEF CommentsInv, Hands, OneByOne
<1>8. OneRow'
  BY <1>2, <1>4 DEF CommentsInv, OneRow
<1>9. SaysWhatItsServerSaid'
  BY <1>1, <1>2, <1>4 DEF CommentsInv, SaysWhatItsServerSaid
<1>10. DecisionsHold'
  BY <1>1, <1>2 DEF CommentsInv, DecisionsHold
<1>11. OnlyCommittedIsSent'
  BY <1>1, SentStays DEF CommentsInv
<1>12. QED  BY <1>2, <1>3, <1>5, <1>6, <1>7, <1>8, <1>9, <1>10, <1>11

(***************************************************************************)
(* Steps that write no comment                                             *)
(***************************************************************************)
LEMMA WroteStays ==
    ASSUME NEW n \in Request, Frame(n), NEW m \in Request \ {n}, NEW c \in Comment,
           Wrote(m, c), comment'[c] = comment[c]
    PROVE  Wrote(m, c)'
<1>1. /\ pc'[m] = pc[m] /\ ask'[m] = ask[m] /\ found'[m] = found[m]
      /\ c # n => note'[c] = note[c]
  BY DEF Frame
<1>2. /\ (FromInbox(m)' <=> FromInbox(m)) /\ (New(m)' <=> New(m)) /\ About(m)' = About(m)
      /\ (There(c)' <=> There(c))
  BY <1>1 DEF FromInbox, New, About, There
<1>3. NewStatus(m)' = NewStatus(m)
  BY <1>2 DEF NewStatus
<1>4. QED  BY <1>1, <1>2, <1>3 DEF Wrote

LEMMA RowStays ==
    ASSUME NEW n \in Request, Frame(n), NEW c \in Comment, Row(c),
           comment'[c] = comment[c], comment[c].by # n
    PROVE  Row(c)'
<1>1. There(c) => Made(c)'
  BY MadeStays DEF Row
<1>2. \A m \in Request : comment[c].by = m => Wrote(m, c)'
  BY WroteStays DEF Row
<1>3. QED  BY <1>1, <1>2 DEF Row, There

LEMMA FamilyStays ==
    ASSUME NEW n \in Request, Frame(n), NEW c \in Comment, NEW p \in Comment, Family(c, p),
           comment'[c] = comment[c], comment'[p] = comment[p], parent'[c] = parent[c]
    PROVE  Family(c, p)'
<1>1. Made(p) => Made(p)'
  BY MadeStays
<1>2. QED  BY <1>1 DEF Family, There

\* A request looks at what is there, and goes on.
LEMMA LookKeeps ==
    ASSUME CommentsInv, NEW n \in Request, NEW there \in {"insert", "enqueue", "write", "commit"},
           pc[n] \in Running \ {"record", "commit"}, Goto(n, there),
           UNCHANGED <<rows, ask, bounds, history>>,
           found' \in [Request -> Comment \cup {Top}], was' \in [Request -> Body \cup {Gone}],
           fanout' \in [Request -> {"none", "queued", "sent", "missed"}], fanout'[n] # "sent",
           \A m \in Request \ {n} : found'[m] = found[m] /\ was'[m] = was[m] /\ fanout'[m] = fanout[m],
           there = "insert" => New(n),
           there = "enqueue" => ask[n].kind = "comment",
           there = "write" => ~New(n) /\ found'[n] # Top,
           pc[n] \in Inserting => there \in Inserting,
           \A c \in Comment : found'[n] = c =>
              /\ Made(c)
              /\ ask[n].kind = "moderate" => c = ask[n].target
              /\ ask[n].kind \in {"update", "delete"} => note[c] = About(n)
              /\ ask[n].kind \in {"update", "delete"} =>
                    /\ Stored(About(n)) \subseteq {c}
                    /\ there = "commit" => ask[n].kind = "update" /\ told[About(n)] = ask[n].text,
           ask[n].kind = "update" /\ there = "write" => was'[n].text = told[About(n)],
           ask[n].kind = "create" /\ (there = "insert" \/ comment[n].by = n) => Stored(About(n)) = {}
    PROVE  CommentsInv'
<1>1. /\ comment' = comment /\ note' = note /\ parent' = parent /\ domain' = domain
      /\ ask' = ask /\ arrived' = arrived /\ faults' = faults /\ told' = told /\ verdict' = verdict
  BY DEF rows, bounds, history
<1>2. /\ pc' \in [Request -> {"idle"} \cup Running \cup Ended] /\ pc'[n] = there
      /\ \A m \in Request \ {n} : pc'[m] = pc[m]
  BY DEF CommentsInv, CommentsTypeOK, Goto, Running
<1>3. CommentsTypeOK'
  BY <1>1, <1>2 DEF CommentsInv, CommentsTypeOK
<1>4. Frame(n)
  BY <1>1, <1>2 DEF Frame, Running
<1>5. Calm(n)
  BY <1>1, <1>4 DEF Calm
<1>6. (FromInbox(n)' <=> FromInbox(n)) /\ (New(n)' <=> New(n)) /\ About(n)' = About(n)
  BY <1>1 DEF FromInbox, New, About
<1>7. Hand(n)'
  <2>1. pc[n] # "idle" /\ pc[n] \in Running /\ there # "idle" /\ there \in Running
    BY DEF Running
  <2>2. (n > arrived <=> FALSE) /\ ask[n] \in Ask
    BY <2>1 DEF CommentsInv, Hands, Hand
  <2>3. \A c \in Comment : found'[n] = c => Made(c)'
    BY <1>5, CalmKeeps
  <2>4. QED  BY <1>1, <1>2, <1>6, <2>1, <2>2, <2>3 DEF Hand
<1>8. ASSUME NEW x \in Note PROVE Alone(n, x)'
  <2>1. Stored(x)' = Stored(x) /\ \A c \in Comment : There(c)' <=> There(c)
    BY <1>5, CalmKeeps
  <2>2. FromInbox(n) /\ About(n) = x => domain[x].by = n
    BY DEF CommentsInv, OneByOne, Alone
  <2>3. FromInbox(n) /\ ~New(n) => ask[n].kind \in {"update", "delete"}
    BY DEF FromInbox, New
  <2>4. n \in Comment
    BY RequestFacts
  <2>5. ask[n].kind = "create" => New(n)
    BY DEF New
  <2> HIDE DEF Stored, There
  <2>6. QED  BY <1>1, <1>2, <1>6, <2>1, <2>2, <2>3, <2>4, <2>5 DEF Alone
<1>9. Rows'
  <2> SUFFICES ASSUME NEW c \in Comment PROVE Row(c)'
    BY DEF Rows
  <2>1. Row(c)
    BY DEF CommentsInv, Rows
  <2>2. CASE comment[c].by # n
    BY <1>1, <1>4, <2>1, <2>2, RowStays
  <2>3. CASE comment[c].by = n
    <3>1. New(n) /\ pc[n] \in Inserting /\ Wrote(n, c)
      BY <2>1, <2>3 DEF Row, Wrote
    <3>2. NewStatus(n)' = NewStatus(n)
      BY <1>6 DEF NewStatus
    <3>3. Wrote(n, c)'
      <4>1. ask[n].kind \notin {"moderate", "update", "delete"}
        BY <3>1 DEF New
      <4>2. QED  BY <1>1, <1>2, <1>6, <3>1, <3>2, <4>1 DEF Wrote
    <3>4. There(c)' => Made(c)'
      BY <1>5, <2>1, CalmKeeps DEF Row
    <3>5. QED  BY <1>1, <2>1, <2>3, <3>3, <3>4, RequestFacts DEF Row
  <2>4. QED  BY <2>2, <2>3
<1>10. Families'
  BY <1>1, <1>4, FamilyStays DEF CommentsInv, Families
<1>11. Hands' /\ OneByOne'
  BY <1>5, <1>7, <1>8, CalmKeeps DEF Hands, OneByOne
<1>12. QED  BY <1>3, <1>5, <1>9, <1>10, <1>11, CalmKeeps DEF CommentsInv

LEMMA RecordKeeps ==
    ASSUME CommentsInv, NEW n \in Request, Record(n)
    PROVE  CommentsInv'
<1>1. /\ pc[n] = "record" /\ Goto(n, "read") /\ MayWrite(domain, ask[n].note, n)
      /\ domain' = Write(domain, ask[n].note, "seen", n)
      /\ comment' = comment /\ note' = note /\ parent' = parent
      /\ ask' = ask /\ found' = found /\ was' = was /\ fanout' = fanout
      /\ arrived' = arrived /\ faults' = faults /\ told' = told /\ verdict' = verdict
  BY DEF Record, local, bounds, history
<1>2. ask[n] \in Ask /\ FromInbox(n) /\ found[n] = Top /\ ~(n > arrived)
  BY <1>1 DEF CommentsInv, Hands, Hand, Running
<1>3. PICK y \in Note : y = ask[n].note
  BY <1>2, AskFacts DEF FromInbox
<1>4. /\ domain' \in [Note -> Versions({"seen"}, Request)] /\ domain'[y].by = n
      /\ \A x \in Note : x # y => domain'[x] = domain[x]
      /\ domain[y].by \in {Nobody, n}
  <2>1. domain \in [Note -> Versions({"seen"}, Request)] /\ domain' = Write(domain, y, "seen", n)
    BY <1>1, <1>3 DEF CommentsInv, CommentsTypeOK
  <2>2. domain[y].by \in {Nobody, n}
    BY <1>1, <1>3 DEF MayWrite
  <2>3. QED  BY <2>1, <2>2 DEF Write, Versions
<1>5. /\ pc' \in [Request -> {"idle"} \cup Running \cup Ended] /\ pc'[n] = "read"
      /\ \A m \in Request \ {n} : pc'[m] = pc[m]
  BY <1>1 DEF CommentsInv, CommentsTypeOK, Goto, Running
<1>6. CommentsTypeOK'
  BY <1>1, <1>4, <1>5 DEF CommentsInv, CommentsTypeOK
<1>7. fanout[n] # "sent"
  BY <1>1 DEF CommentsInv, OnlyCommittedIsSent
<1>8. Frame(n)
  BY <1>1, <1>4, <1>5, <1>7 DEF Frame, Running
<1>9. Calm(n)
  BY <1>1, <1>8 DEF Calm
<1>10. (FromInbox(n)' <=> FromInbox(n)) /\ (New(n)' <=> New(n)) /\ About(n)' = About(n) /\ About(n) = y
  BY <1>1, <1>3 DEF FromInbox, New, About
<1>11. Hand(n)'
  BY <1>1, <1>2, <1>5, RequestFacts DEF Hand
<1>12. \A c \in Comment : comment[c].by # n
  BY <1>1, <1>2, RequestFacts DEF CommentsInv, Rows, Row, Wrote, Inserting, New
<1>13. ASSUME NEW x \in Note PROVE Alone(n, x)'
  BY <1>1, <1>2, <1>4, <1>5, <1>10, <1>12, RequestFacts DEF Alone
<1>14. Rows'
  BY <1>1, <1>8, <1>12, RowStays DEF CommentsInv, Rows
<1>15. Families'
  BY <1>1, <1>8, FamilyStays DEF CommentsInv, Families
<1>16. Hands' /\ OneByOne'
  BY <1>9, <1>11, <1>13, CalmKeeps DEF Hands, OneByOne
<1>17. QED  BY <1>6, <1>9, <1>14, <1>15, <1>16, CalmKeeps DEF CommentsInv

LEMMA RefuseOnKeeps ==
    ASSUME CommentsInv, NEW n \in Request, pc[n] = "read", Goto(n, "commit"),
           UNCHANGED <<rows, local, history, fanout, bounds>>
    PROVE  CommentsInv'
<1>1. /\ found[n] = Top /\ fanout[n] # "sent"
  BY DEF CommentsInv, Hands, Hand, Running, OnlyCommittedIsSent
<1>2. /\ ask' = ask /\ found' = found /\ was' = was /\ fanout' = fanout
      /\ found \in [Request -> Comment \cup {Top}] /\ was \in [Request -> Body \cup {Gone}]
      /\ fanout \in [Request -> {"none", "queued", "sent", "missed"}]
  BY DEF local, CommentsInv, CommentsTypeOK
<1>3. ask[n].kind = "create" => comment[n].by # n
  BY RequestFacts DEF CommentsInv, Rows, Row, Wrote, Inserting, New
<1>4. pc[n] \in Running \ {"record", "commit"} /\ pc[n] \notin Inserting
  BY DEF Running, Inserting
<1>5. \A c \in Comment : found'[n] # c
  BY <1>1, <1>2, RequestFacts
<1>6. QED  BY <1>1, <1>2, <1>3, <1>4, <1>5, LookKeeps

\* A request fails: what it wrote is as it was.
LEMMA RollbackKeeps ==
    ASSUME CommentsInv, NEW n \in Request, Rollback(n), pc[n] \in Running,
           arrived' = arrived, faults' \in 0..MaxFaults,
           fanout' \in [Request -> {"none", "queued", "sent", "missed"}], fanout'[n] # "sent",
           \A m \in Request \ {n} : fanout'[m] = fanout[m]
    PROVE  CommentsInv'
<1>1. /\ comment' = RollbackRows(comment, n) /\ domain' = RollbackRows(domain, n) /\ End(n, "failed")
      /\ note' = note /\ parent' = parent /\ told' = told /\ verdict' = verdict
  BY DEF Rollback, history
<1>2. /\ comment \in [Comment -> Versions(Body \cup {Gone}, Request)]
      /\ domain \in [Note -> Versions({"seen"}, Request)]
  BY DEF CommentsInv, CommentsTypeOK
<1>3. /\ comment' \in [Comment -> Versions(Body \cup {Gone}, Request)]
      /\ domain' \in [Note -> Versions({"seen"}, Request)]
      /\ \A c \in Comment : comment[c].by = n => /\ comment'[c].old = comment[c].old
                                                 /\ comment'[c].new = comment[c].old
                                                 /\ comment'[c].by = Nobody
      /\ \A c \in Comment : comment[c].by # n => comment'[c] = comment[c]
      /\ \A x \in Note : domain[x].by # n => domain'[x] = domain[x]
  BY <1>1, <1>2 DEF RollbackRows, Committed, Versions
<1>4. /\ pc' \in [Request -> {"idle"} \cup Running \cup Ended] /\ pc'[n] = "failed"
      /\ ask' \in [Request -> Ask \cup {Nothing}] /\ found'[n] = Top
      /\ found' \in [Request -> Comment \cup {Top}] /\ was' \in [Request -> Body \cup {Gone}]
      /\ \A m \in Request \ {n} : /\ pc'[m] = pc[m] /\ ask'[m] = ask[m] /\ found'[m] = found[m]
                                  /\ was'[m] = was[m]
  BY <1>1 DEF CommentsInv, CommentsTypeOK, End, Goto, Ended
<1>5. CommentsTypeOK'
  BY <1>1, <1>3, <1>4 DEF CommentsInv, CommentsTypeOK
<1>6. Frame(n)
  BY <1>1, <1>3, <1>4 DEF Frame, Running
<1>7. Calm(n)
  BY <1>1, <1>3, <1>6 DEF Calm
<1>8. Hand(n)'
  <2>1. ~(n > arrived)
    BY DEF CommentsInv, Hands, Hand, Running
  <2>2. QED  BY <1>4, <2>1 DEF Hand, Running
<1>9. \A x \in Note : Alone(n, x)'
  BY <1>4 DEF Alone, Running
<1>10. Rows'
  <2> SUFFICES ASSUME NEW c \in Comment PROVE Row(c)'
    BY DEF Rows
  <2>1. Row(c)
    BY DEF CommentsInv, Rows
  <2>2. CASE comment[c].by # n
    BY <1>3, <1>6, <2>1, <2>2, RowStays
  <2>3. CASE comment[c].by = n
    <3>1. There(c)' => Made(c)'
      BY <1>7, <2>1, CalmKeeps DEF Row
    <3>2. QED  BY <1>3, <2>3, <3>1, RequestFacts DEF Row
  <2>4. QED  BY <2>2, <2>3
<1>11. Families'
  <2> SUFFICES ASSUME NEW c \in Comment, NEW p \in Comment, parent[c] = p PROVE Family(c, p)'
    BY <1>1 DEF Families, Family
  <2>1. Family(c, p)
    BY DEF CommentsInv, Families
  <2>2. Made(p) /\ Made(p)' /\ p # n
    BY <1>6, <2>1, MadeStays DEF Family
  <2>3. (There(c)' <=> There(c)) /\ (There(p)' <=> There(p))
    BY <1>7, CalmKeeps
  <2>4. comment[p].by = n => There(p) /\ comment'[p].new # Gone
    <3>1. comment[p].by = n => Wrote(n, p)
      BY DEF CommentsInv, Rows, Row
    <3>2. comment[p].by = n => There(p)
      BY <2>2, <3>1 DEF Wrote
    <3>3. QED  BY <1>3, <3>2 DEF There
  <2>5. comment[c].by = n /\ comment'[c].new # Gone => There(c)
    BY <1>3 DEF There
  <2>6. comment'[c].new # Gone => comment'[p].new # Gone
    BY <1>3, <2>1, <2>4, <2>5 DEF Family
  <2>7. There(c) /\ comment'[p].new = Gone => comment'[c].by = comment'[p].by
    BY <1>3, <2>1, <2>4 DEF Family
  <2>8. QED  BY <1>1, <2>1, <2>2, <2>3, <2>6, <2>7 DEF Family
<1>12. Hands' /\ OneByOne'
  BY <1>7, <1>8, <1>9, CalmKeeps DEF Hands, OneByOne
<1>13. QED  BY <1>5, <1>7, <1>10, <1>11, <1>12, CalmKeeps DEF CommentsInv

\* The same for a step that leaves the rest alone.
LEMMA FailureKeeps ==
    ASSUME CommentsInv, NEW n \in Request, Rollback(n), pc[n] \in Running, UNCHANGED <<fanout, bounds>>
    PROVE  CommentsInv'
<1>1. /\ fanout' = fanout /\ arrived' = arrived /\ faults' = faults
  BY DEF bounds
<1>2. /\ fanout \in [Request -> {"none", "queued", "sent", "missed"}] /\ faults \in 0..MaxFaults
      /\ fanout[n] # "sent"
  BY DEF CommentsInv, CommentsTypeOK, OnlyCommittedIsSent, Running
<1>3. QED  BY <1>1, <1>2, RollbackKeeps

LEMMA DieKeeps ==
    ASSUME CommentsInv, NEW n \in Request, Die(n) \/ NotifyFails(n) \/ Refuse(n)
    PROVE  CommentsInv'
<1>1. /\ fanout \in [Request -> {"none", "queued", "sent", "missed"}] /\ faults \in 0..MaxFaults
  BY DEF CommentsInv, CommentsTypeOK
<1>2. CASE Die(n)
  <2>1. faults' \in 0..MaxFaults
    BY <1>1, <1>2, FaultsAssumption DEF Die
  <2>2. fanout[n] # "sent"
    BY <1>2 DEF Die, CommentsInv, OnlyCommittedIsSent, Running
  <2>3. QED  BY <1>1, <1>2, <2>1, <2>2, RollbackKeeps DEF Die
<1>3. CASE NotifyFails(n)
  <2>1. PICK done \in {"none", "queued"} : fanout' = [fanout EXCEPT ![n] = done]
    BY <1>3 DEF NotifyFails
  <2>2. /\ fanout' \in [Request -> {"none", "queued", "sent", "missed"}] /\ fanout'[n] # "sent"
        /\ \A m \in Request \ {n} : fanout'[m] = fanout[m]
    BY <1>1, <2>1
  <2>3. pc[n] \in Running /\ Rollback(n) /\ arrived' = arrived /\ faults' = faults
    BY <1>3 DEF NotifyFails, bounds, Running
  <2>4. QED  BY <1>1, <2>2, <2>3, RollbackKeeps
<1>4. CASE Refuse(n)
  BY <1>4, FailureKeeps, RefuseOnKeeps DEF Refuse, Running
<1>5. QED  BY <1>2, <1>3, <1>4

(***************************************************************************)
(* The reads                                                               *)
(***************************************************************************)
LEMMA NoRowsYet ==
    ASSUME CommentsInv, NEW n \in Request, pc[n] \in {"record", "read", "insert", "write"}
    PROVE  (\A c \in Comment : comment[c].by # n) /\ fanout[n] # "sent"
<1>1. \A c \in Comment : comment[c].by # n
  BY RequestFacts DEF CommentsInv, Rows, Row, Wrote, Inserting
<1>2. QED  BY <1>1 DEF CommentsInv, OnlyCommittedIsSent

LEMMA CommentReadKeeps ==
    ASSUME CommentsInv, NEW n \in Request, CommentRead(n)
    PROVE  CommentsInv'
<1>1. pc[n] = "read" /\ ask[n].kind = "comment" /\ UNCHANGED <<fanout, bounds>>
  BY DEF CommentRead
<1>2. CASE Rollback(n)
  BY <1>1, <1>2, FailureKeeps DEF Running
<1>3. CASE ~Rollback(n)
  <2>1. PICK p \in Comment \cup {Top} :
          p = IF ask[n].parent # Top /\ There(ask[n].parent) THEN ask[n].parent ELSE Top
    <3>1. ask[n] \in Ask
      BY <1>1 DEF CommentsInv, Hands, Hand, Running
    <3>2. QED  BY <1>1, <3>1, AskFacts
  <2>2. p # Top => There(p) /\ p \in Comment
    BY <2>1
  <2>3. /\ Goto(n, "insert") /\ found' = [found EXCEPT ![n] = p]
        /\ UNCHANGED <<rows, ask, was, history>>
    BY <1>3, <2>1 DEF CommentRead
  <2>4. \A c \in Comment : p = c => Made(c)
    BY <2>2, RequestFacts DEF CommentsInv, Rows, Row
  <2>5. /\ found' \in [Request -> Comment \cup {Top}] /\ found'[n] = p
        /\ \A m \in Request \ {n} : found'[m] = found[m]
        /\ was' = was /\ fanout' = fanout /\ was \in [Request -> Body \cup {Gone}]
        /\ fanout \in [Request -> {"none", "queued", "sent", "missed"}]
    BY <1>1, <2>3 DEF CommentsInv, CommentsTypeOK
  <2>6. New(n) /\ pc[n] \in Running \ {"record", "commit"} /\ pc[n] \notin Inserting
    BY <1>1 DEF New, Running, Inserting
  <2>7. fanout[n] # "sent"
    BY <1>1, NoRowsYet
  <2>8. QED  BY <1>1, <2>3, <2>4, <2>5, <2>6, <2>7, LookKeeps
<1>4. QED  BY <1>2, <1>3

LEMMA CreateReadKeeps ==
    ASSUME CommentsInv, NEW n \in Request, CreateRead(n)
    PROVE  CommentsInv'
<1>1. /\ pc[n] = "read" /\ ask[n].kind = "create"
      /\ UNCHANGED <<rows, ask, was, fanout, bounds, history>>
      /\ IF (ask[n].parent # Top /\ ~There(ask[n].parent)) \/ Stored(About(n)) # {}
         THEN Goto(n, "commit") /\ UNCHANGED found
         ELSE Goto(n, "insert") /\ found' = [found EXCEPT ![n] = ask[n].parent]
  BY DEF CreateRead, About
<1>2. ask[n] \in Ask /\ found[n] = Top
  BY <1>1 DEF CommentsInv, Hands, Hand, Running
<1>3. PICK p \in Comment \cup {Top} : p = ask[n].parent
  BY <1>1, <1>2, AskFacts
<1>4. New(n) /\ pc[n] \in Running \ {"record", "commit"} /\ pc[n] \notin Inserting
  BY <1>1 DEF New, Running, Inserting
<1>5. /\ was' = was /\ fanout' = fanout /\ was \in [Request -> Body \cup {Gone}]
      /\ fanout \in [Request -> {"none", "queued", "sent", "missed"}] /\ fanout[n] # "sent"
      /\ comment[n].by # n /\ found \in [Request -> Comment \cup {Top}]
  BY <1>1, NoRowsYet, RequestFacts DEF CommentsInv, CommentsTypeOK
<1>6. CASE Goto(n, "commit") /\ UNCHANGED found
  <2>1. \A c \in Comment : found'[n] # c
    BY <1>2, <1>6, RequestFacts
  <2>2. QED  BY <1>1, <1>4, <1>5, <1>6, <2>1, LookKeeps
<1>7. CASE /\ Goto(n, "insert") /\ found' = [found EXCEPT ![n] = p]
           /\ p # Top => There(p)
           /\ Stored(About(n)) = {}
  <2>1. \A c \in Comment : p = c => Made(c)
    BY <1>7, RequestFacts DEF CommentsInv, Rows, Row
  <2>2. /\ found' \in [Request -> Comment \cup {Top}] /\ found'[n] = p
        /\ \A m \in Request \ {n} : found'[m] = found[m]
    BY <1>5, <1>7
  <2> HIDE DEF Stored
  <2>3. QED  BY <1>1, <1>4, <1>5, <1>7, <2>1, <2>2, LookKeeps
<1>8. QED  BY <1>1, <1>3, <1>6, <1>7

LEMMA NotifyKeeps ==
    ASSUME CommentsInv, NEW n \in Request, Notify(n) \/ Enqueue(n)
    PROVE  CommentsInv'
<1>1. PICK there \in {"enqueue", "commit"} :
        /\ Goto(n, there) /\ pc[n] \in {"notify", "enqueue"}
        /\ there = "enqueue" => pc[n] = "notify" /\ ~FromInbox(n)
        /\ UNCHANGED <<rows, local, bounds, history>>
  BY DEF Notify, Enqueue
<1>2. PICK done \in {"none", "queued"} : fanout' = fanout \/ fanout' = [fanout EXCEPT ![n] = done]
  BY DEF Notify, Enqueue
<1>3. /\ ask' = ask /\ found' = found /\ was' = was
      /\ found \in [Request -> Comment \cup {Top}] /\ was \in [Request -> Body \cup {Gone}]
      /\ fanout \in [Request -> {"none", "queued", "sent", "missed"}] /\ fanout[n] # "sent"
  BY <1>1 DEF local, CommentsInv, CommentsTypeOK, OnlyCommittedIsSent
<1>4. /\ fanout' \in [Request -> {"none", "queued", "sent", "missed"}] /\ fanout'[n] # "sent"
      /\ \A m \in Request \ {n} : fanout'[m] = fanout[m]
  BY <1>2, <1>3
<1>5. /\ pc[n] \in Running \ {"record", "commit"} /\ New(n) /\ Hand(n) /\ there \in Inserting
      /\ there = "enqueue" => ask[n].kind = "comment"
  BY <1>1 DEF CommentsInv, Hands, Hand, New, FromInbox, Running, Inserting
<1>6. \A c \in Comment : found[n] = c => Made(c)
  BY <1>5 DEF Hand
<1>7. ask[n].kind = "create" => Stored(About(n)) = {}
  <2>1. ask[n].kind = "create" => FromInbox(n) /\ About(n) \in Note /\ pc[n] = "notify"
    BY <1>1, <1>5, AskFacts DEF Hand, FromInbox, About
  <2>2. QED  BY <1>5, <2>1 DEF CommentsInv, OneByOne, Alone
<1>8. ask[n].kind \notin {"moderate", "update", "delete"}
  BY <1>5 DEF New
<1>9. QED  BY <1>1, <1>3, <1>4, <1>5, <1>6, <1>7, <1>8, LookKeeps

LEMMA ModerateReadKeeps ==
    ASSUME CommentsInv, NEW n \in Request, ModerateRead(n)
    PROVE  CommentsInv'
<1>1. pc[n] = "read" /\ ask[n].kind = "moderate" /\ UNCHANGED <<fanout, bounds>>
  BY DEF ModerateRead
<1>2. ask[n] \in Ask
  BY <1>1 DEF CommentsInv, Hands, Hand, Running
<1>3. PICK t \in Comment : t = ask[n].target
  BY <1>1, <1>2, AskFacts
<1>4. CASE ~There(t)
  BY <1>1, <1>3, <1>4, FailureKeeps DEF ModerateRead, Running
<1>5. CASE There(t)
  <2>1. /\ found' = [found EXCEPT ![n] = t] /\ was' = [was EXCEPT ![n] = comment[t].old]
        /\ Goto(n, "write") /\ UNCHANGED <<rows, ask, history>> /\ fanout' = fanout
    BY <1>3, <1>5 DEF ModerateRead
  <2>2. comment[t].old \in Body \cup {Gone}
    BY DEF CommentsInv, CommentsTypeOK, Versions
  <2>3. /\ found' \in [Request -> Comment \cup {Top}] /\ found'[n] = t
        /\ was' \in [Request -> Body \cup {Gone}]
        /\ fanout \in [Request -> {"none", "queued", "sent", "missed"}]
        /\ \A m \in Request \ {n} : found'[m] = found[m] /\ was'[m] = was[m]
    BY <2>1, <2>2 DEF CommentsInv, CommentsTypeOK
  <2>4. Made(t) /\ t # Top
    BY <1>5, RequestFacts DEF CommentsInv, Rows, Row
  <2>5. ~New(n) /\ pc[n] \in Running \ {"record", "commit"} /\ pc[n] \notin Inserting
    BY <1>1 DEF New, Running, Inserting
  <2>6. fanout[n] # "sent"
    BY <1>1, NoRowsYet
  <2>7. QED  BY <1>1, <1>3, <2>1, <2>3, <2>4, <2>5, <2>6, LookKeeps
<1>6. QED  BY <1>4, <1>5

LEMMA NoteReadKeeps ==
    ASSUME CommentsInv, NEW n \in Request, NoteRead(n)
    PROVE  CommentsInv'
<1>1. /\ pc[n] = "read" /\ ask[n].kind \in {"update", "delete"}
      /\ UNCHANGED <<rows, ask, fanout, bounds, history>> /\ fanout' = fanout
  BY DEF NoteRead
<1>2. ask[n] \in Ask /\ found[n] = Top
  BY <1>1 DEF CommentsInv, Hands, Hand, Running
<1>3. PICK x \in Note : x = About(n)
  BY <1>1, <1>2, AskFacts DEF About
<1>4. ~New(n) /\ pc[n] \in Running \ {"record", "commit"} /\ pc[n] \notin Inserting
  BY <1>1 DEF New, Running, Inserting
<1>5. /\ was \in [Request -> Body \cup {Gone}] /\ found \in [Request -> Comment \cup {Top}]
      /\ fanout \in [Request -> {"none", "queued", "sent", "missed"}] /\ fanout[n] # "sent"
  BY <1>1, NoRowsYet DEF CommentsInv, CommentsTypeOK
<1>6. CASE Goto(n, "commit") /\ UNCHANGED <<found, was>>
  <2>1. \A c \in Comment : found'[n] # c
    BY <1>2, <1>6, RequestFacts
  <2>2. QED  BY <1>1, <1>4, <1>5, <1>6, <2>1, LookKeeps
<1>7. ASSUME NEW c \in Stored(x), found' = [found EXCEPT ![n] = c],
             was' = [was EXCEPT ![n] = comment[c].old], Goto(n, "write")
      PROVE  CommentsInv'
  <2>1. c \in Comment /\ There(c) /\ note[c] = x
    BY DEF Stored
  <2>2. comment[c].old \in Body \cup {Gone}
    BY <2>1 DEF CommentsInv, CommentsTypeOK, Versions
  <2>3. /\ found' \in [Request -> Comment \cup {Top}] /\ found'[n] = c
        /\ was' \in [Request -> Body \cup {Gone}] /\ was'[n] = comment[c].old
        /\ \A m \in Request \ {n} : found'[m] = found[m] /\ was'[m] = was[m]
    BY <1>5, <1>7, <2>1, <2>2
  <2>4. Made(c) /\ c # Top
    BY <2>1, RequestFacts DEF CommentsInv, Rows, Row
  <2>5. x # Local
    BY NoteAssumption
  <2>6. Stored(x) \subseteq {c}
    BY <2>1, <2>5 DEF Stored, CommentsInv, OneRow
  <2>7. comment[c].old.text = told[x]
    BY <2>1, <2>5 DEF CommentsInv, SaysWhatItsServerSaid
  <2> HIDE DEF Stored
  <2>8. QED
    BY <1>1, <1>3, <1>4, <1>5, <1>7, <2>1, <2>3, <2>4, <2>6, <2>7, LookKeeps
<1>8. QED  BY <1>3, <1>6, <1>7 DEF NoteRead, About

\* What was read is what was asked for: nothing is written.
LEMMA WriteNothingKeeps ==
    ASSUME CommentsInv, NEW n \in Request, pc[n] = "write", WriteNothing(n),
           UNCHANGED <<fanout, bounds>>,
           \/ ask[n].kind = "moderate"
           \/ ask[n].kind = "update" /\ was[n].text = ask[n].text
    PROVE  CommentsInv'
<1>1. /\ Goto(n, "commit") /\ UNCHANGED <<rows, local, history>>
      /\ ask' = ask /\ found' = found /\ was' = was /\ fanout' = fanout
  BY DEF WriteNothing, local
<1>2. Hand(n) /\ ask[n] \in Ask
  BY DEF CommentsInv, Hands, Hand, Running
<1>3. ~New(n) /\ pc[n] \in Running \ {"record", "commit"} /\ pc[n] \notin Inserting
  BY DEF New, Running, Inserting
<1>4. /\ was \in [Request -> Body \cup {Gone}] /\ found \in [Request -> Comment \cup {Top}]
      /\ fanout \in [Request -> {"none", "queued", "sent", "missed"}] /\ fanout[n] # "sent"
  BY NoRowsYet DEF CommentsInv, CommentsTypeOK
<1>5. \A c \in Comment : found[n] = c =>
         /\ Made(c)
         /\ ask[n].kind = "moderate" => c = ask[n].target
         /\ ask[n].kind = "update" => note[c] = About(n)
  BY <1>2, <1>3 DEF Hand
<1>6. ask[n].kind = "update" =>
         /\ told[About(n)] = ask[n].text
         /\ \A c \in Comment : found[n] = c => Stored(About(n)) \subseteq {c}
  <2>1. ask[n].kind = "update" => FromInbox(n) /\ About(n) \in Note
    BY <1>2, AskFacts DEF FromInbox, About
  <2>2. QED  BY <1>3, <2>1 DEF CommentsInv, OneByOne, Alone
<1>7. ask[n].kind \notin {"create", "delete"}
  OBVIOUS
<1>8. QED  BY <1>1, <1>3, <1>4, <1>5, <1>6, <1>7, LookKeeps

(***************************************************************************)
(* The writes                                                              *)
(***************************************************************************)
LEMMA InsertKeeps ==
    ASSUME CommentsInv, NEW n \in Request, Insert(n)
    PROVE  CommentsInv'
<1>1. /\ pc[n] = "insert" /\ UNCHANGED <<fanout, bounds>>
      /\ found[n] # Top => comment[found[n]].new # Gone \/ MayWrite(comment, found[n], n)
  BY DEF Insert
<1>2. PICK p \in Comment \cup {Top} : p = found[n]
  BY DEF CommentsInv, CommentsTypeOK
<1>3. CASE p # Top /\ comment[p].new = Gone
  BY <1>1, <1>2, <1>3, FailureKeeps DEF Insert, Running
<1>4. CASE ~(p # Top /\ comment[p].new = Gone)
  <2>1. PICK v : v = [status |-> NewStatus(n), text |-> "posted"]
    OBVIOUS
  <2>2. PICK who : who = IF FromInbox(n) THEN About(n) ELSE Local
    OBVIOUS
  <2>3. /\ comment' = Write(comment, n, v, n)
        /\ note' = [note EXCEPT ![n] = who] /\ parent' = [parent EXCEPT ![n] = p]
        /\ Goto(n, "notify") /\ domain' = domain
        /\ ask' = ask /\ found' = found /\ was' = was /\ told' = told /\ verdict' = verdict
        /\ fanout' = fanout /\ arrived' = arrived /\ faults' = faults
    BY <1>1, <1>2, <1>4, <2>1, <2>2 DEF Insert, local, history, bounds, About
  <2>4. /\ Hand(n) /\ ask[n] \in Ask /\ New(n) /\ ~(n > arrived)
    BY <1>1 DEF CommentsInv, Hands, Hand, Running
  <2>5. v \in Body /\ v # Gone
    <3>1. NewStatus(n) \in Status
      BY DEF NewStatus, Status
    <3>2. QED  BY <2>1, <3>1, BodyFacts DEF Text
  <2>6. who \in Note \cup {Local}
    BY <2>2, <2>4, AskFacts DEF FromInbox, About
  <2>7. n \in Comment /\ (\A c \in Comment : comment[c].by # n) /\ fanout[n] # "sent"
    BY <1>1, NoRowsYet, RequestFacts
  <2>8. /\ comment' \in [Comment -> Versions(Body \cup {Gone}, Request)]
        /\ comment'[n].old = comment[n].old /\ comment'[n].new = v /\ comment'[n].by = n
        /\ \A c \in Comment : c # n => comment'[c] = comment[c]
    BY <2>3, <2>5, <2>7 DEF CommentsInv, CommentsTypeOK, Write, Versions
  <2>9. /\ pc' \in [Request -> {"idle"} \cup Running \cup Ended] /\ pc'[n] = "notify"
        /\ \A m \in Request \ {n} : pc'[m] = pc[m]
        /\ note' \in [Comment -> Note \cup {Local}] /\ note'[n] = who
        /\ parent' \in [Comment -> Comment \cup {Top}] /\ parent'[n] = p
        /\ \A c \in Comment : c # n => note'[c] = note[c] /\ parent'[c] = parent[c]
    BY <2>3, <2>6, <2>7 DEF CommentsInv, CommentsTypeOK, Goto, Running
  <2>10. CommentsTypeOK'
    BY <2>3, <2>8, <2>9 DEF CommentsInv, CommentsTypeOK
  <2>11. ~Made(n)
    BY <1>1, RequestFacts DEF Made
  <2>12. comment[n].old = Gone /\ comment[n].by \in {Nobody}
    <3>1. Row(n) /\ ~There(n)
      BY <2>7, <2>11 DEF CommentsInv, Rows, Row
    <3>2. ASSUME NEW m \in Request, comment[n].by = m PROVE FALSE
      BY <1>1, <2>7, <3>1, <3>2 DEF Row, Wrote, Inserting
    <3>3. comment[n].by \in Request \cup {Nobody}
      BY <2>7 DEF CommentsInv, CommentsTypeOK, Versions
    <3>4. QED  BY <3>1, <3>2, <3>3 DEF There
  <2>13. Frame(n)
    BY <1>1, <2>3, <2>7, <2>8, <2>9, <2>12 DEF Frame, Running
  <2>14. Calm(n)
    BY <2>3, <2>8, <2>13 DEF Calm
  <2>15. /\ (FromInbox(n)' <=> FromInbox(n)) /\ (New(n)' <=> New(n)) /\ About(n)' = About(n)
    BY <2>3 DEF FromInbox, New, About
  <2>16. Hand(n)'
    <3>1. \A c \in Comment : found[n] = c => Made(c)'
      BY <1>1, <2>4, <2>14, CalmKeeps DEF Hand, Running
    <3>2. ask[n].kind \notin {"moderate", "update", "delete"}
      BY <2>4 DEF New
    <3>3. QED  BY <2>3, <2>4, <2>9, <2>15, <3>1, <3>2 DEF Hand
  <2>17. ASSUME NEW x \in Note PROVE Alone(n, x)'
    <3>1. FromInbox(n) /\ About(n) = x =>
             domain[x].by = n /\ (ask[n].kind = "create" => Stored(x) = {})
      BY <1>1 DEF CommentsInv, OneByOne, Alone, Running
    <3>2. Stored(x)' = Stored(x)
      BY <2>14, CalmKeeps
    <3>3. ask[n].kind \notin {"moderate", "update", "delete"}
      BY <2>4 DEF New
    <3> HIDE DEF Stored, There
    <3>4. QED  BY <2>3, <2>4, <2>9, <2>15, <3>1, <3>2, <3>3 DEF Alone
  <2>18. Rows'
    <3>1. NewStatus(n)' = NewStatus(n)
      BY <2>15 DEF NewStatus
    <3>2. Wrote(n, n)'
      <4>1. ask[n].kind \notin {"moderate", "update", "delete"}
        BY <2>4 DEF New
      <4>2. QED  BY <2>1, <2>2, <2>3, <2>4, <2>8, <2>9, <2>12, <2>15, <3>1, <4>1
                 DEF Wrote, Inserting
    <3>3. Row(n)'
      <4>1. ~There(n)'
        BY <2>8, <2>12 DEF There
      <4>2. QED  BY <2>8, <3>2, <4>1, RequestFacts DEF Row
    <3>4. \A c \in Comment : c # n => Row(c)'
      BY <2>7, <2>8, <2>13, RowStays DEF CommentsInv, Rows
    <3>5. QED  BY <3>3, <3>4 DEF Rows
  <2>19. Families'
    <3> SUFFICES ASSUME NEW c \in Comment, NEW q \in Comment, parent'[c] = q PROVE Family(c, q)'
      BY DEF Families, Family
    <3>1. CASE c = n
      <4>1. q = p /\ Made(q)
        BY <1>1, <1>2, <2>4, <2>9, <3>1 DEF Hand, Running
      <4>2. q # n /\ Made(q)' /\ comment'[q] = comment[q] /\ comment[q].new # Gone
        BY <1>4, <2>8, <2>11, <2>14, <4>1, CalmKeeps, RequestFacts
      <4>3. ~There(c)'
        BY <2>8, <2>12, <3>1 DEF There
      <4>4. QED  BY <4>2, <4>3 DEF Family
    <3>2. CASE c # n
      <4>1. parent[c] = q /\ Family(c, q)
        BY <2>9, <3>2 DEF CommentsInv, Families
      <4>2. q # n
        BY <2>11, <4>1 DEF Family
      <4>3. QED  BY <2>8, <2>9, <2>13, <3>2, <4>1, <4>2, FamilyStays
    <3>3. QED  BY <3>1, <3>2
  <2>20. Hands' /\ OneByOne'
    BY <2>14, <2>16, <2>17, CalmKeeps DEF Hands, OneByOne
  <2>21. QED  BY <2>10, <2>14, <2>18, <2>19, <2>20, CalmKeeps DEF CommentsInv
<1>5. QED  BY <1>3, <1>4

\* A moderator or the note's server changes what it has found.
LEMMA ChangeKeeps ==
    ASSUME CommentsInv, NEW n \in Request, pc[n] = "write", NEW c \in Comment, c = found[n],
           MayWrite(comment, c, n), comment[c].new # Gone, NEW v \in Body,
           comment' = Write(comment, c, v, n), Goto(n, "commit"),
           UNCHANGED <<note, parent, domain, local, history, fanout, bounds>>,
           \/ ask[n].kind = "moderate" /\ v.text = comment[c].new.text /\ v.status = ask[n].to
           \/ ask[n].kind = "update" /\ v.status = comment[c].new.status /\ v.text = ask[n].text
    PROVE  CommentsInv'
<1>1. /\ note' = note /\ parent' = parent /\ domain' = domain
      /\ ask' = ask /\ found' = found /\ was' = was /\ told' = told /\ verdict' = verdict
      /\ fanout' = fanout /\ arrived' = arrived /\ faults' = faults
  BY DEF local, history, bounds
<1>2. (\A d \in Comment : comment[d].by # n) /\ fanout[n] # "sent"
  BY NoRowsYet
<1>3. /\ comment' \in [Comment -> Versions(Body \cup {Gone}, Request)]
      /\ comment'[c].old = comment[c].old /\ comment'[c].new = v /\ comment'[c].by = n
      /\ \A d \in Comment : d # c => comment'[d] = comment[d]
  BY DEF CommentsInv, CommentsTypeOK, Write, Versions
<1>4. comment[c].by = Nobody /\ comment[c].new = comment[c].old /\ There(c)
  BY <1>2 DEF MayWrite, CommentsInv, Rows, Row, There
<1>5. /\ pc' \in [Request -> {"idle"} \cup Running \cup Ended] /\ pc'[n] = "commit"
      /\ \A m \in Request \ {n} : pc'[m] = pc[m]
  BY DEF CommentsInv, CommentsTypeOK, Goto, Running
<1>6. CommentsTypeOK'
  BY <1>1, <1>3, <1>5 DEF CommentsInv, CommentsTypeOK
<1>7. Frame(n)
  BY <1>1, <1>2, <1>3, <1>4, <1>5 DEF Frame, Running
<1>8. Calm(n)
  BY <1>1, <1>3, <1>7 DEF Calm
<1>9. (FromInbox(n)' <=> FromInbox(n)) /\ (New(n)' <=> New(n)) /\ About(n)' = About(n)
  BY <1>1 DEF FromInbox, New, About
<1>10. Hand(n) /\ ask[n] \in Ask /\ ~New(n) /\ ~(n > arrived) /\ v # Gone
  BY BodyFacts DEF CommentsInv, Hands, Hand, Running
<1>11. Hand(n)'
  <2>1. \A d \in Comment : found[n] = d => Made(d)'
    BY <1>8, <1>10, CalmKeeps DEF Hand, Running
  <2>2. QED  BY <1>1, <1>5, <1>9, <1>10, <2>1 DEF Hand, Running
<1>12. ASSUME NEW x \in Note PROVE Alone(n, x)'
  <2>1. FromInbox(n) /\ About(n) = x => domain[x].by = n /\ Stored(x) \subseteq {c}
    BY <1>10 DEF CommentsInv, OneByOne, Alone, Running
  <2>2. Stored(x)' = Stored(x)
    BY <1>8, CalmKeeps
  <2>3. ask[n].kind \notin {"create", "delete"}
    OBVIOUS
  <2> HIDE DEF Stored, There
  <2>4. QED  BY <1>1, <1>3, <1>5, <1>9, <2>1, <2>2, <2>3 DEF Alone
<1>13. Rows'
  <2>1. \A d \in Comment : d # c => Row(d)'
    BY <1>2, <1>3, <1>7, RowStays DEF CommentsInv, Rows
  <2>2. Made(c)'
    BY <1>4, <1>8, CalmKeeps DEF CommentsInv, Rows, Row
  <2>3. There(c)'
    BY <1>4, <1>8, CalmKeeps
  <2>4. Wrote(n, c)'
    BY <1>1, <1>3, <1>4, <1>5, <1>9, <1>10, <2>3 DEF Wrote
  <2>5. Row(c)'
    BY <1>3, <2>2, <2>4, RequestFacts DEF Row
  <2>6. QED  BY <2>1, <2>5 DEF Rows
<1>14. Families'
  <2> SUFFICES ASSUME NEW d \in Comment, NEW p \in Comment, parent[d] = p PROVE Family(d, p)'
    BY <1>1 DEF Families, Family
  <2>1. Family(d, p) /\ Made(p)'
    BY <1>8, CalmKeeps DEF CommentsInv, Families, Family
  <2>2. (There(d)' <=> There(d)) /\ (There(p)' <=> There(p))
    BY <1>8, CalmKeeps
  <2>3. comment'[d].new # Gone => comment[d].new # Gone
    BY <1>3
  <2>4. comment[p].new # Gone => comment'[p].new # Gone
    BY <1>3, <1>10
  <2>5. There(d) /\ comment'[p].new = Gone => comment'[d].by = comment'[p].by
    <3>1. CASE p = c
      BY <1>3, <1>10, <3>1
    <3>2. CASE p # c /\ d = c
      <4>1. There(p) => comment[p].by # Nobody \/ comment[p].new # Gone
        BY DEF CommentsInv, Rows, Row, There
      <4>2. QED  BY <1>3, <1>4, <2>1, <3>2, <4>1 DEF Family
    <3>3. CASE p # c /\ d # c
      BY <1>3, <2>1, <3>3 DEF Family
    <3>4. QED  BY <3>1, <3>2, <3>3
  <2>6. QED  BY <1>1, <2>1, <2>2, <2>3, <2>4, <2>5 DEF Family
<1>15. Hands' /\ OneByOne'
  BY <1>8, <1>11, <1>12, CalmKeeps DEF Hands, OneByOne
<1>16. QED  BY <1>6, <1>8, <1>13, <1>14, <1>15, CalmKeeps DEF CommentsInv

LEMMA ChangesKeep ==
    ASSUME CommentsInv, NEW n \in Request, ModerateWrite(n) \/ NoteWrite(n)
    PROVE  CommentsInv'
<1>1. pc[n] = "write" /\ UNCHANGED <<fanout, bounds>> /\ ask[n].kind \in {"moderate", "update"}
  BY DEF ModerateWrite, NoteWrite
<1>2. ask[n] \in Ask /\ found[n] # Top
  BY <1>1 DEF CommentsInv, Hands, Hand, Running
<1>3. PICK c \in Comment : c = found[n]
  BY <1>2 DEF CommentsInv, CommentsTypeOK
<1>4. CASE WriteNothing(n) /\ (ask[n].kind = "update" => was[n].text = ask[n].text)
  BY <1>1, <1>4, WriteNothingKeeps
<1>5. ASSUME NEW v, UpdateTo(n, v), comment[c].new # Gone => v \in Body,
             comment[c].new # Gone =>
                \/ ask[n].kind = "moderate" /\ v.text = comment[c].new.text /\ v.status = ask[n].to
                \/ ask[n].kind = "update" /\ v.status = comment[c].new.status /\ v.text = ask[n].text
      PROVE  CommentsInv'
  <2>1. CASE comment[c].new = Gone
    BY <1>1, <1>3, <1>5, <2>1, FailureKeeps DEF UpdateTo, Running
  <2>2. CASE comment[c].new # Gone
    BY <1>1, <1>3, <1>5, <2>2, ChangeKeeps DEF UpdateTo
  <2>3. QED  BY <2>1, <2>2
<1>6. comment[c].new # Gone => comment[c].new \in Body
  BY DEF CommentsInv, CommentsTypeOK, Versions
<1>7. CASE ModerateWrite(n) /\ ~WriteNothing(n)
  <2>1. ask[n].kind = "moderate" /\ ask[n].to \in Status
    BY <1>2, <1>7, AskFacts DEF ModerateWrite, Status
  <2>2. PICK v : v = [comment[c].new EXCEPT !.status = ask[n].to]
    OBVIOUS
  <2>3. UpdateTo(n, v)
    BY <1>3, <1>7, <2>2 DEF ModerateWrite
  <2>4. QED  BY <1>5, <1>6, <2>1, <2>2, <2>3, BodyFacts
<1>8. CASE NoteWrite(n) /\ was[n].text # ask[n].text
  <2>1. ask[n].kind = "update" /\ ask[n].text \in Text
    BY <1>2, <1>8, AskFacts DEF NoteWrite
  <2>2. PICK v : v = [comment[c].new EXCEPT !.text = ask[n].text]
    OBVIOUS
  <2>3. UpdateTo(n, v)
    BY <1>3, <1>8, <2>2 DEF NoteWrite
  <2>4. QED  BY <1>5, <1>6, <2>1, <2>2, <2>3, BodyFacts
<1>9. ModerateWrite(n) => ask[n].kind = "moderate"
  BY DEF ModerateWrite
<1>10. NoteWrite(n) /\ was[n].text = ask[n].text => WriteNothing(n)
  BY DEF NoteWrite
<1>11. QED  BY <1>4, <1>7, <1>8, <1>9, <1>10

\* The replies of what goes go with it.
LEMMA BelowFacts ==
    ASSUME NEW c \in Comment
    PROVE  /\ Below(c) \subseteq Comment
           /\ \A d \in Below(c) : There(d) \/ comment[d].new # Gone
           /\ There(c) \/ comment[c].new # Gone => c \in Below(c)
           /\ \A d \in Comment : parent[d] \in Below(c) /\ (There(d) \/ comment[d].new # Gone)
                                 => d \in Below(c)
<1> DEFINE Closed(S) == c \in S /\ \A d \in Comment : parent[d] \in S => d \in S
           All == {d \in Comment : \A S \in SUBSET Comment : Closed(S) => d \in S}
<1>1. \A d \in Comment : d \in Below(c) <=> d \in All /\ (There(d) \/ comment[d].new # Gone)
  BY DEF Below
<1>2. Below(c) \subseteq Comment
  BY DEF Below
<1>3. c \in All
  OBVIOUS
<1>4. \A d \in Comment : parent[d] \in All => d \in All
  OBVIOUS
<1> HIDE DEF All
<1>5. QED  BY <1>1, <1>2, <1>3, <1>4

LEMMA DeleteKeeps ==
    ASSUME CommentsInv, NEW n \in Request, Delete(n)
    PROVE  CommentsInv'
<1>1. /\ pc[n] = "write" /\ ask[n].kind = "delete" /\ Goto(n, "commit")
      /\ note' = note /\ parent' = parent /\ domain' = domain
      /\ ask' = ask /\ found' = found /\ was' = was /\ told' = told /\ verdict' = verdict
      /\ fanout' = fanout /\ arrived' = arrived /\ faults' = faults
  BY DEF Delete, local, history, bounds
<1>2. Hand(n) /\ ask[n] \in Ask /\ ~New(n) /\ ~(n > arrived) /\ found[n] # Top
  BY <1>1 DEF CommentsInv, Hands, Hand, Running
<1>3. PICK c \in Comment : c = found[n]
  BY <1>2 DEF CommentsInv, CommentsTypeOK
<1>4. PICK B : B = Below(c)
  OBVIOUS
<1>5. /\ B \subseteq Comment
      /\ \A d \in B : There(d) \/ comment[d].new # Gone
      /\ There(c) => c \in B
      /\ \A d \in Comment : parent[d] \in B /\ (There(d) \/ comment[d].new # Gone) => d \in B
  BY <1>4, BelowFacts
<1>6. /\ \A d \in B : MayWrite(comment, d, n)
      /\ comment' = [d \in Comment |->
                       IF d \in B THEN [old |-> comment[d].old, new |-> Gone, by |-> n]
                       ELSE comment[d]]
  BY <1>3, <1>4 DEF Delete
<1>7. (\A d \in Comment : comment[d].by # n) /\ fanout[n] # "sent"
  BY <1>1, NoRowsYet
<1>8. /\ comment' \in [Comment -> Versions(Body \cup {Gone}, Request)]
      /\ \A d \in B : /\ comment'[d].old = comment[d].old /\ comment'[d].new = Gone
                      /\ comment'[d].by = n
      /\ \A d \in Comment \ B : comment'[d] = comment[d]
  BY <1>5, <1>6 DEF CommentsInv, CommentsTypeOK, Versions
<1>9. \A d \in B : comment[d].by = Nobody /\ There(d)
  BY <1>5, <1>6, <1>7 DEF MayWrite, CommentsInv, Rows, Row, There
<1>10. /\ pc' \in [Request -> {"idle"} \cup Running \cup Ended] /\ pc'[n] = "commit"
       /\ \A m \in Request \ {n} : pc'[m] = pc[m]
  BY <1>1 DEF CommentsInv, CommentsTypeOK, Goto, Running
<1>11. CommentsTypeOK'
  BY <1>1, <1>8, <1>10 DEF CommentsInv, CommentsTypeOK
<1>12. Frame(n)
  <2>1. \A d \in Comment : /\ comment[d].by \notin {Nobody, n} => comment'[d] = comment[d]
                           /\ comment'[d].by \in {comment[d].by, n, Nobody}
    BY <1>8, <1>9
  <2>2. QED  BY <1>1, <1>7, <1>10, <2>1 DEF Frame, Running
<1>13. Calm(n)
  <2>1. \A d \in Comment : comment'[d].old = comment[d].old
    BY <1>8
  <2>2. QED  BY <1>1, <1>12, <2>1 DEF Calm
<1>14. (FromInbox(n)' <=> FromInbox(n)) /\ (New(n)' <=> New(n)) /\ About(n)' = About(n)
  BY <1>1 DEF FromInbox, New, About
<1>15. Hand(n)'
  <2>1. \A d \in Comment : found[n] = d => Made(d)'
    BY <1>1, <1>2, <1>13, CalmKeeps DEF Hand, Running
  <2>2. QED  BY <1>1, <1>2, <1>10, <1>14, <2>1 DEF Hand, Running
<1>16. ASSUME NEW x \in Note PROVE Alone(n, x)'
  <2>1. FromInbox(n) /\ About(n) = x => domain[x].by = n /\ Stored(x) \subseteq {c}
    BY <1>1, <1>2, <1>3 DEF CommentsInv, OneByOne, Alone, Running
  <2>2. Stored(x)' = Stored(x) /\ (There(c)' <=> There(c))
    BY <1>13, CalmKeeps
  <2>3. There(c) => comment'[c].by = n
    BY <1>5, <1>8
  <2> HIDE DEF Stored, There
  <2>4. QED  BY <1>1, <1>3, <1>10, <1>14, <2>1, <2>2, <2>3 DEF Alone
<1>17. Rows'
  <2> SUFFICES ASSUME NEW d \in Comment PROVE Row(d)'
    BY DEF Rows
  <2>1. CASE d \notin B
    BY <1>7, <1>8, <1>12, <2>1, RowStays DEF CommentsInv, Rows
  <2>2. CASE d \in B
    <3>1. There(d)' /\ Made(d)'
      BY <1>9, <1>13, <2>2, CalmKeeps DEF CommentsInv, Rows, Row
    <3>2. Wrote(n, d)'
      BY <1>1, <1>2, <1>8, <1>10, <1>14, <2>2, <3>1 DEF Wrote
    <3>3. QED  BY <1>8, <2>2, <3>1, <3>2, RequestFacts DEF Row
  <2>3. QED  BY <2>1, <2>2
<1>18. Families'
  <2> SUFFICES ASSUME NEW d \in Comment, NEW p \in Comment, parent[d] = p PROVE Family(d, p)'
    BY <1>1 DEF Families, Family
  <2>1. Family(d, p) /\ Made(p)'
    BY <1>13, CalmKeeps DEF CommentsInv, Families, Family
  <2>2. (There(d)' <=> There(d)) /\ (There(p)' <=> There(p))
    BY <1>13, CalmKeeps
  <2>3. CASE p \in B
    <3>1. There(d) \/ comment[d].new # Gone => d \in B
      BY <1>5, <2>3
    <3>2. comment'[d].new # Gone => FALSE
      BY <1>8, <3>1
    <3>3. There(d) => comment'[d].by = comment'[p].by
      BY <1>8, <2>3, <3>1
    <3>4. QED  BY <1>1, <2>1, <2>2, <3>2, <3>3 DEF Family
  <2>4. CASE p \notin B
    <3>1. comment'[p] = comment[p]
      BY <1>8, <2>4
    <3>2. comment'[d].new # Gone => comment'[p].new # Gone
      BY <1>8, <2>1, <3>1 DEF Family
    <3>3. There(d) /\ comment[p].new = Gone => comment'[d].by = comment'[p].by
      <4>1. CASE d \in B
        <5>1. There(p) => comment[p].by # Nobody \/ comment[p].new # Gone
          BY DEF CommentsInv, Rows, Row, There
        <5>2. QED  BY <1>9, <2>1, <4>1, <5>1 DEF Family
      <4>2. CASE d \notin B
        BY <1>8, <2>1, <3>1, <4>2 DEF Family
      <4>3. QED  BY <4>1, <4>2
    <3>4. QED  BY <1>1, <2>1, <2>2, <3>1, <3>2, <3>3 DEF Family
  <2>5. QED  BY <2>3, <2>4
<1>19. Hands' /\ OneByOne'
  BY <1>13, <1>15, <1>16, CalmKeeps DEF Hands, OneByOne
<1>20. QED  BY <1>11, <1>13, <1>17, <1>18, <1>19, CalmKeeps DEF CommentsInv

(***************************************************************************)
(* The commit                                                              *)
(***************************************************************************)
\* What a request that commits has written: a comment of its own, or a change of one there is.
LEMMA Writing ==
    ASSUME CommentsInv, NEW n \in Request, pc[n] = "commit"
    PROVE  /\ ~Made(n) /\ ~There(n) /\ n \in Comment
           /\ \A c \in Comment : comment[c].by = n =>
                 /\ Wrote(n, c)
                 /\ New(n) => c = n /\ comment[c].new \in Body
                 /\ ~New(n) => c # n /\ There(c) /\ Made(c)
<1>1. n \in Comment /\ ~Made(n)
  BY RequestFacts DEF Made
<1>2. ~There(n)
  BY <1>1 DEF CommentsInv, Rows, Row
<1>3. ASSUME NEW c \in Comment, comment[c].by = n
      PROVE  /\ Wrote(n, c)
             /\ New(n) => c = n /\ comment[c].new \in Body
             /\ ~New(n) => c # n /\ There(c) /\ Made(c)
  <2>1. Row(c) /\ Wrote(n, c)
    BY <1>3 DEF CommentsInv, Rows, Row
  <2>2. NewStatus(n) \in Status /\ "posted" \in Text
    BY DEF NewStatus, Status, Text
  <2>3. [status |-> NewStatus(n), text |-> "posted"] \in Body
    BY <2>2 DEF Body
  <2>4. New(n) => c = n /\ comment[c].new \in Body
    BY <2>1, <2>3 DEF Wrote
  <2>5. ~New(n) => There(c) /\ Made(c)
    BY <2>1 DEF Wrote, Row
  <2>6. QED  BY <1>2, <2>1, <2>4, <2>5
<1>4. QED  BY <1>1, <1>2, <1>3

\* What the commit adds to what the note's server has said.
LEMMA HeardFacts ==
    ASSUME CommentsInv, NEW n \in Request, pc[n] = "commit", FromInbox(n),
           NEW x \in Note, x = About(n)
    PROVE  /\ Heard(n) \in Text \cup {"nothing"}
           /\ domain[x].by = n
           /\ \A c \in Comment : comment[c].by = n /\ comment[c].new # Gone =>
                 note[c] = x /\ comment[c].new.text = Heard(n)
           /\ ask[n].kind = "create" /\ comment[n].by = n => Stored(x) = {}
           /\ \A c \in Comment : There(c) /\ note[c] = x /\ comment[c].by # n => told[x] = Heard(n)
<1>1. Hand(n) /\ Alone(n, x) /\ ask[n] \in Ask
  BY DEF CommentsInv, Hands, OneByOne, Hand, Running
<1>2. ask[n].kind \in {"create", "update", "delete"} /\ (New(n) <=> ask[n].kind = "create")
  BY DEF FromInbox, New
<1>3. /\ Heard(n) \in {"posted", "nothing", told[x], ask[n].text}
      /\ ask[n].kind = "create" => Heard(n) = IF comment[n].by = n THEN "posted" ELSE told[x]
      /\ ask[n].kind = "update" => Heard(n) = IF found[n] # Top THEN ask[n].text ELSE told[x]
      /\ ask[n].kind = "delete" => Heard(n) = IF found[n] # Top THEN "nothing" ELSE told[x]
  BY <1>2 DEF Heard, About
<1>4. Heard(n) \in Text \cup {"nothing"}
  <2>1. told[x] \in Text \cup {"nothing"} /\ (ask[n].kind = "update" => ask[n].text \in Text)
    BY <1>1, AskFacts DEF CommentsInv, CommentsTypeOK
  <2>2. QED  BY <1>2, <1>3, <2>1 DEF Text
<1>5. /\ domain[x].by = n
      /\ ask[n].kind = "create" /\ comment[n].by = n => Stored(x) = {}
  BY <1>1 DEF Alone, Running
<1>6. ASSUME NEW c \in Comment, comment[c].by = n, comment[c].new # Gone
      PROVE  note[c] = x /\ comment[c].new.text = Heard(n)
  <2>1. Wrote(n, c) /\ (New(n) => c = n)
    BY <1>6, Writing
  <2>2. CASE ask[n].kind = "create"
    <3>1. c = n /\ note[c] = x /\ comment[c].new.text = "posted"
      BY <1>2, <2>1, <2>2 DEF Wrote
    <3>2. QED  BY <1>3, <1>6, <2>2, <3>1
  <2>3. CASE ask[n].kind = "update"
    <3>1. c = found[n] /\ comment[c].new.text = ask[n].text
      BY <2>1, <2>3 DEF Wrote
    <3>2. c # Top /\ note[c] = x
      BY <1>1, <2>3, <3>1, RequestFacts DEF Hand, Running
    <3>3. QED  BY <1>3, <2>3, <3>1, <3>2
  <2>4. CASE ask[n].kind = "delete"
    BY <1>6, <2>1, <2>4 DEF Wrote
  <2>5. QED  BY <1>2, <2>2, <2>3, <2>4
<1>7. ASSUME NEW c \in Comment, There(c), note[c] = x, comment[c].by # n
      PROVE  told[x] = Heard(n)
  <2>1. c \in Stored(x)
    BY <1>7 DEF Stored
  <2>2. CASE ask[n].kind = "create"
    BY <1>3, <1>5, <2>1, <2>2
  <2>3. CASE ask[n].kind \in {"update", "delete"} /\ found[n] # Top
    <3>1. PICK f \in Comment : f = found[n]
      BY <2>3 DEF CommentsInv, CommentsTypeOK
    <3>2. /\ Stored(x) \subseteq {f}
          /\ ask[n].kind = "update" => comment[f].by = n \/ told[x] = ask[n].text
          /\ ask[n].kind = "delete" => comment[f].by = n \/ ~There(f)
      BY <1>1, <1>2, <2>3, <3>1 DEF Alone, Running
    <3>3. c = f
      BY <2>1, <3>2
    <3>4. QED  BY <1>3, <1>7, <2>3, <3>2, <3>3
  <2>4. CASE ask[n].kind \in {"update", "delete"} /\ found[n] = Top
    BY <1>3, <2>4
  <2>5. QED  BY <1>2, <2>2, <2>3, <2>4
<1>8. QED  BY <1>4, <1>5, <1>6, <1>7

LEMMA CommitKeeps ==
    ASSUME CommentsInv, NEW n \in Request, Commit(n)
    PROVE  CommentsInv'
<1>1. /\ pc[n] = "commit" /\ End(n, "done")
      /\ comment' = CommitRows(comment, n) /\ domain' = CommitRows(domain, n)
      /\ told' = IF FromInbox(n) THEN [told EXCEPT ![About(n)] = Heard(n)] ELSE told
      /\ verdict' = [c \in Comment |->
                       IF c = n /\ comment[n].by = n THEN comment[n].new.status
                       ELSE IF ask[n].kind = "moderate" /\ comment[c].by = n THEN ask[n].to
                       ELSE verdict[c]]
      /\ note' = note /\ parent' = parent
      /\ fanout' = fanout /\ arrived' = arrived /\ faults' = faults
  BY DEF Commit, bounds, About
<1>2. Hand(n) /\ ask[n] \in Ask /\ ~(n > arrived) /\ fanout[n] # "sent"
  BY <1>1 DEF CommentsInv, Hands, Hand, Running, OnlyCommittedIsSent
<1>3. /\ comment' \in [Comment -> Versions(Body \cup {Gone}, Request)]
      /\ domain' \in [Note -> Versions({"seen"}, Request)]
      /\ \A c \in Comment : comment[c].by = n => /\ comment'[c].old = comment[c].new
                                                 /\ comment'[c].new = comment[c].new
                                                 /\ comment'[c].by = Nobody
      /\ \A c \in Comment : comment[c].by # n => comment'[c] = comment[c]
      /\ \A x \in Note : domain[x].by # n => domain'[x] = domain[x]
  <2>1. /\ comment \in [Comment -> Versions(Body \cup {Gone}, Request)]
        /\ domain \in [Note -> Versions({"seen"}, Request)]
    BY DEF CommentsInv, CommentsTypeOK
  <2>2. QED  BY <1>1, <2>1 DEF CommitRows, Committed, Versions
<1>4. /\ pc' \in [Request -> {"idle"} \cup Running \cup Ended] /\ pc'[n] = "done"
      /\ ask' \in [Request -> Ask \cup {Nothing}] /\ found'[n] = Top
      /\ found' \in [Request -> Comment \cup {Top}] /\ was' \in [Request -> Body \cup {Gone}]
      /\ \A m \in Request \ {n} : /\ pc'[m] = pc[m] /\ ask'[m] = ask[m] /\ found'[m] = found[m]
                                  /\ was'[m] = was[m]
  BY <1>1 DEF CommentsInv, CommentsTypeOK, End, Goto, Ended
<1>5. /\ ~Made(n) /\ ~There(n) /\ n \in Comment
      /\ \A c \in Comment : comment[c].by = n =>
            /\ Wrote(n, c)
            /\ New(n) => c = n /\ comment[c].new \in Body
            /\ ~New(n) => c # n /\ There(c) /\ Made(c)
  BY <1>1, Writing
<1>6. FromInbox(n) => About(n) \in Note
  BY <1>2, AskFacts DEF FromInbox, About
<1>7. \A x \in Note : told'[x] = IF FromInbox(n) /\ About(n) = x THEN Heard(n) ELSE told[x]
  BY <1>1, <1>6 DEF CommentsInv, CommentsTypeOK
<1>8. CommentsTypeOK'
  <2>1. told' \in [Note -> Text \cup {"nothing"}]
    <3>1. FromInbox(n) => Heard(n) \in Text \cup {"nothing"}
      BY <1>1, <1>6, HeardFacts
    <3>2. QED  BY <1>1, <3>1 DEF CommentsInv, CommentsTypeOK
  <2>2. verdict' \in [Comment -> Status \cup {"none"}]
    <3>1. comment[n].by = n => comment[n].new.status \in Status
      BY <1>5, BodyFacts
    <3>2. ask[n].kind = "moderate" => ask[n].to \in Status
      BY <1>2, AskFacts DEF Status
    <3>3. \A c \in Comment : verdict[c] \in Status \cup {"none"}
      BY DEF CommentsInv, CommentsTypeOK
    <3>4. QED  BY <1>1, <3>1, <3>2, <3>3
  <2>3. QED  BY <1>1, <1>3, <1>4, <2>1, <2>2 DEF CommentsInv, CommentsTypeOK
<1>9. Frame(n)
  BY <1>1, <1>2, <1>3, <1>4 DEF Frame
<1>10. \A c \in Comment : comment[c].new = Gone <=> comment'[c].new = Gone
  BY <1>3
<1>11. \A c \in Comment : There(c)' <=> IF comment[c].by = n THEN comment[c].new # Gone ELSE There(c)
  BY <1>3 DEF There
<1>12. \A c \in Comment : There(c)' => There(c) \/ (c = n /\ New(n) /\ comment[n].by = n)
  BY <1>5, <1>11
<1>13. \A c \in Comment : Made(c) => Made(c)'
  BY <1>9, MadeStays
<1>14. \A c \in Comment : There(c)' => Made(c)'
  BY <1>4, <1>12, <1>13 DEF CommentsInv, Rows, Row, Made
<1>15. ASSUME NEW x \in Note, domain[x].by # n
       PROVE  told'[x] = told[x] /\ Stored(x)' \subseteq Stored(x)
  <2>1. ~(FromInbox(n) /\ About(n) = x)
    BY <1>1, <1>15, HeardFacts
  <2>2. told'[x] = told[x]
    BY <1>7, <2>1
  <2>3. ASSUME NEW c \in Comment, There(c)', note[c] = x PROVE There(c)
    <3>1. CASE c = n /\ New(n) /\ comment[n].by = n
      <4>1. note[n] = IF FromInbox(n) THEN About(n) ELSE Local
        BY <1>5, <3>1 DEF Wrote
      <4>2. QED  BY <2>1, <2>3, <3>1, <4>1, NoteAssumption
    <3>2. QED  BY <1>12, <2>3, <3>1
  <2>4. QED  BY <1>1, <2>2, <2>3 DEF Stored
<1>16. Hands'
  <2>1. Hand(n)'
    BY <1>1, <1>2, <1>4 DEF Hand, Running
  <2>2. \A m \in Request \ {n} : Hand(m)'
    BY <1>9, HandStays DEF CommentsInv, Hands
  <2>3. QED  BY <2>1, <2>2 DEF Hands
<1>17. OneByOne'
  <2>1. \A x \in Note : Alone(n, x)'
    BY <1>4 DEF Alone, Running
  <2>2. \A c \in Comment : Made(c) /\ There(c)' => There(c)
    BY <1>5, <1>12
  <2>3. \A m \in Request \ {n} : \A x \in Note : Alone(m, x)'
    BY <1>9, <1>15, <2>2, AloneStays DEF CommentsInv, Hands, OneByOne
  <2>4. QED  BY <2>1, <2>3 DEF OneByOne
<1>18. Rows'
  <2> SUFFICES ASSUME NEW c \in Comment PROVE Row(c)'
    BY DEF Rows
  <2>1. CASE comment[c].by # n
    BY <1>3, <1>9, <2>1, RowStays DEF CommentsInv, Rows
  <2>2. CASE comment[c].by = n
    BY <1>3, <1>14, <2>2, RequestFacts DEF Row
  <2>3. QED  BY <2>1, <2>2
<1>19. Families'
  <2> SUFFICES ASSUME NEW c \in Comment, NEW p \in Comment, parent[c] = p PROVE Family(c, p)'
    BY <1>1 DEF Families, Family
  <2>1. Family(c, p) /\ Made(p) /\ Made(p)' /\ p # n
    BY <1>5, <1>13 DEF CommentsInv, Families, Family
  <2>2. comment[p].new # Gone => There(p)
    <3>1. ASSUME NEW m \in Request, comment[p].by = m PROVE There(p)
      <4>1. Wrote(m, p)
        BY <3>1 DEF CommentsInv, Rows, Row
      <4>2. ~New(m)
        BY <2>1, <4>1, RequestFacts DEF Wrote, Made, Inserting
      <4>3. QED  BY <4>1, <4>2 DEF Wrote
    <3>2. comment[p].by \in Request \cup {Nobody}
      BY DEF CommentsInv, CommentsTypeOK, Versions
    <3>3. comment[p].by = Nobody => comment[p].new = comment[p].old
      BY DEF CommentsInv, Rows, Row
    <3>4. QED  BY <3>1, <3>2, <3>3 DEF There
  <2>3. There(c)' => There(p)'
    <3>1. CASE comment[c].by = n
      BY <1>11, <2>1, <2>2, <3>1 DEF Family
    <3>2. CASE comment[c].by # n
      BY <1>11, <2>1, <3>2 DEF Family
    <3>3. QED  BY <3>1, <3>2
  <2>4. There(c)' /\ comment'[p].new = Gone => comment'[c].by = comment'[p].by
    <3>1. CASE comment[p].by = n
      BY <1>10, <1>11, <2>3, <3>1
    <3>2. CASE comment[p].by # n /\ comment[c].by = n
      BY <1>10, <1>11, <2>1, <3>2 DEF Family
    <3>3. CASE comment[p].by # n /\ comment[c].by # n
      BY <1>3, <1>11, <2>1, <3>3 DEF Family
    <3>4. QED  BY <3>1, <3>2, <3>3
  <2>5. QED  BY <1>1, <1>10, <2>1, <2>3, <2>4 DEF Family
<1>20. OneRow'
  <2>1. ASSUME NEW d \in Comment, There(d), note[d] = note[n], note[n] # Local, New(n), comment[n].by = n
        PROVE  FALSE
    <3>1. FromInbox(n) /\ note[n] = About(n) /\ ask[n].kind = "create"
      BY <1>5, <2>1 DEF Wrote, New, FromInbox
    <3>2. PICK x \in Note : x = About(n)
      BY <1>6, <3>1
    <3>3. Stored(x) = {}
      BY <1>1, <2>1, <3>1, <3>2, HeardFacts
    <3>4. QED  BY <2>1, <3>1, <3>2, <3>3 DEF Stored
  <2> SUFFICES ASSUME NEW c \in Comment, NEW d \in Comment,
                      There(c)', There(d)', note[c] = note[d], note[c] # Local
               PROVE  c = d
    BY <1>1 DEF OneRow
  <2>2. CASE There(c) /\ There(d)
    BY <2>2 DEF CommentsInv, OneRow
  <2>3. CASE ~There(c)
    BY <1>12, <2>1, <2>3
  <2>4. CASE ~There(d)
    BY <1>12, <2>1, <2>4
  <2>5. QED  BY <2>2, <2>3, <2>4
<1>21. SaysWhatItsServerSaid'
  <2> SUFFICES ASSUME NEW c \in Comment, There(c)', note[c] # Local
               PROVE  \A x \in Note : note[c] = x => comment'[c].old.text = told'[x]
    <3>1. \A c \in Comment : note[c] \in Note \cup {Local}
      BY DEF CommentsInv, CommentsTypeOK
    <3>2. QED  BY <1>1, <3>1 DEF SaysWhatItsServerSaid
  <2> SUFFICES ASSUME NEW x \in Note, note[c] = x PROVE comment'[c].old.text = told'[x]
    OBVIOUS
  <2>1. CASE FromInbox(n) /\ About(n) = x
    <3>1. CASE comment[c].by = n
      BY <1>1, <1>3, <1>7, <1>11, <2>1, <3>1, HeardFacts
    <3>2. CASE comment[c].by # n
      <4>1. There(c) /\ comment'[c] = comment[c]
        BY <1>3, <1>11, <3>2
      <4>2. told[x] = Heard(n)
        BY <1>1, <2>1, <3>2, <4>1, HeardFacts
      <4>3. QED  BY <1>7, <2>1, <4>1, <4>2 DEF CommentsInv, SaysWhatItsServerSaid
    <3>3. QED  BY <3>1, <3>2
  <2>2. CASE ~(FromInbox(n) /\ About(n) = x)
    <3>1. told'[x] = told[x]
      BY <1>7, <2>2
    <3>2. CASE comment[c].by # n
      BY <1>3, <1>11, <3>1, <3>2 DEF CommentsInv, SaysWhatItsServerSaid
    <3>3. CASE comment[c].by = n /\ FromInbox(n)
      BY <1>1, <1>6, <1>11, <2>2, <3>3, HeardFacts
    <3>4. CASE comment[c].by = n /\ ~FromInbox(n)
      <4>1. Wrote(n, c)
        BY <1>5, <3>4
      <4>2. ~New(n)
        BY <3>4, <4>1 DEF Wrote
      <4>3. ask[n].kind = "moderate" /\ There(c)
        BY <1>2, <1>5, <3>4, <4>2, AskFacts DEF FromInbox, New
      <4>4. comment[c].new.text = comment[c].old.text
        BY <4>1, <4>3 DEF Wrote
      <4>5. QED  BY <1>3, <3>1, <3>4, <4>3, <4>4 DEF CommentsInv, SaysWhatItsServerSaid
    <3>5. QED  BY <3>2, <3>3, <3>4
  <2>3. QED  BY <2>1, <2>2
<1>22. DecisionsHold'
  <2> SUFFICES ASSUME NEW c \in Comment, There(c)' PROVE comment'[c].old.status = verdict'[c]
    BY DEF DecisionsHold
  <2>1. verdict'[c] = IF c = n /\ comment[n].by = n THEN comment[n].new.status
                      ELSE IF ask[n].kind = "moderate" /\ comment[c].by = n THEN ask[n].to
                      ELSE verdict[c]
    BY <1>1
  <2>2. CASE comment[c].by # n
    BY <1>3, <1>11, <2>1, <2>2 DEF CommentsInv, DecisionsHold
  <2>3. CASE comment[c].by = n /\ New(n)
    BY <1>3, <1>5, <2>1, <2>3
  <2>4. CASE comment[c].by = n /\ ~New(n)
    <3>1. Wrote(n, c) /\ c # n /\ There(c) /\ comment[c].new # Gone
      BY <1>5, <1>11, <2>4
    <3>2. ask[n].kind \in {"moderate", "update"}
      BY <1>2, <2>4, <3>1, AskFacts DEF Wrote, New
    <3>3. CASE ask[n].kind = "moderate"
      BY <1>3, <2>1, <2>4, <3>1, <3>3 DEF Wrote
    <3>4. CASE ask[n].kind = "update"
      BY <1>3, <2>1, <2>4, <3>1, <3>4 DEF Wrote, CommentsInv, DecisionsHold
    <3>5. QED  BY <3>2, <3>3, <3>4
  <2>5. QED  BY <2>2, <2>3, <2>4
<1>23. OnlyCommittedIsSent'
  BY <1>9, SentStays DEF CommentsInv
<1>24. QED
  BY <1>8, <1>16, <1>17, <1>18, <1>19, <1>20, <1>21, <1>22, <1>23 DEF CommentsInv

(***************************************************************************)
(* The other steps                                                         *)
(***************************************************************************)
LEMMA ArriveKeeps ==
    ASSUME CommentsInv, NEW n \in Request, NEW a \in Ask, Arrive(n, a)
    PROVE  CommentsInv'
<1>1. /\ n = arrived + 1 /\ arrived' = n /\ ask' = [ask EXCEPT ![n] = a]
      /\ Goto(n, IF a.kind \in {"create", "update", "delete"} THEN "record" ELSE "read")
      /\ comment' = comment /\ note' = note /\ parent' = parent /\ domain' = domain
      /\ found' = found /\ was' = was /\ fanout' = fanout /\ faults' = faults
      /\ told' = told /\ verdict' = verdict
  BY DEF Arrive, rows, history
<1>2. arrived \in Nat /\ n \in Nat /\ n \in 0..MaxRequests /\ n > arrived
  BY <1>1, RequestsAssumption DEF CommentsInv, CommentsTypeOK, Request
<1>3. pc[n] = "idle" /\ found[n] = Top
  BY <1>2 DEF CommentsInv, Hands, Hand
<1>4. (\A c \in Comment : comment[c].by # n) /\ fanout[n] # "sent"
  BY <1>3, RequestFacts DEF CommentsInv, Rows, Row, Wrote, Inserting, OnlyCommittedIsSent
<1>5. /\ pc' \in [Request -> {"idle"} \cup Running \cup Ended]
      /\ pc'[n] \in {"record", "read"}
      /\ pc'[n] = "record" <=> a.kind \in {"create", "update", "delete"}
      /\ \A m \in Request \ {n} : pc'[m] = pc[m]
      /\ ask' \in [Request -> Ask \cup {Nothing}] /\ ask'[n] = a
      /\ \A m \in Request \ {n} : ask'[m] = ask[m]
  BY <1>1 DEF CommentsInv, CommentsTypeOK, Goto, Running
<1>6. CommentsTypeOK'
  BY <1>1, <1>2, <1>5 DEF CommentsInv, CommentsTypeOK
<1>7. ASSUME NEW m \in Request \ {n} PROVE m > arrived' <=> m > arrived
  BY <1>1, <1>2, RequestFacts
<1>8. Frame(n)
  BY <1>1, <1>3, <1>4, <1>5, <1>7 DEF Frame
<1>9. Calm(n)
  BY <1>1, <1>8 DEF Calm
<1>10. FromInbox(n)' <=> a.kind \in {"create", "update", "delete"}
  BY <1>5 DEF FromInbox
<1>11. Hand(n)'
  BY <1>1, <1>2, <1>3, <1>5, <1>10, RequestFacts DEF Hand, Running
<1>12. \A x \in Note : Alone(n, x)'
  BY <1>5, <1>10 DEF Alone
<1>13. Rows'
  BY <1>1, <1>4, <1>8, RowStays DEF CommentsInv, Rows
<1>14. Families'
  BY <1>1, <1>8, FamilyStays DEF CommentsInv, Families
<1>15. Hands' /\ OneByOne'
  BY <1>9, <1>11, <1>12, CalmKeeps DEF Hands, OneByOne
<1>16. QED  BY <1>6, <1>9, <1>13, <1>14, <1>15, CalmKeeps DEF CommentsInv

\* A worker only looks; where nothing happens, nothing changes.
LEMMA FanOutKeeps ==
    ASSUME CommentsInv,
           UNCHANGED <<rows, pc, local, bounds, history>>,
           \/ fanout' = fanout
           \/ \E n \in Request : FanOut(n)
    PROVE  CommentsInv'
<1>1. /\ comment' = comment /\ note' = note /\ parent' = parent /\ domain' = domain
      /\ pc' = pc /\ ask' = ask /\ found' = found /\ was' = was
      /\ arrived' = arrived /\ faults' = faults /\ told' = told /\ verdict' = verdict
  BY DEF rows, local, bounds, history
<1>2. fanout \in [Request -> {"none", "queued", "sent", "missed"}]
  BY DEF CommentsInv, CommentsTypeOK
<1>3. /\ fanout' \in [Request -> {"none", "queued", "sent", "missed"}]
      /\ \A m \in Request : fanout'[m] = "sent" => pc[m] = "done"
  <2>1. CASE fanout' = fanout
    BY <1>2, <2>1 DEF CommentsInv, OnlyCommittedIsSent
  <2>2. CASE \E n \in Request : FanOut(n)
    <3>1. PICK n \in Request : FanOut(n)
      BY <2>2
    <3>2. There(n) => pc[n] = "done"
      BY RequestFacts DEF CommentsInv, Rows, Row, Made
    <3>3. QED  BY <1>2, <3>1, <3>2 DEF FanOut, CommentsInv, OnlyCommittedIsSent
  <2>3. QED  BY <2>1, <2>2
<1>4. CommentsTypeOK' /\ OnlyCommittedIsSent'
  BY <1>1, <1>3 DEF CommentsInv, CommentsTypeOK, OnlyCommittedIsSent
<1>5. \A m \in Request : Hand(m)' /\ \A x \in Note : Alone(m, x)'
  BY <1>1 DEF CommentsInv, Hands, OneByOne, Hand, Alone, FromInbox, New, About, Made, Stored, There
<1>6. Hands' /\ OneByOne'
  BY <1>5 DEF Hands, OneByOne
<1>7. Rows'
  BY <1>1 DEF CommentsInv, Rows, Row, Wrote, Made, There, FromInbox, New, About, NewStatus
<1>8. Families'
  BY <1>1 DEF CommentsInv, Families, Family, Made, There
<1>9. OneRow' /\ SaysWhatItsServerSaid' /\ DecisionsHold'
  BY <1>1 DEF CommentsInv, OneRow, SaysWhatItsServerSaid, DecisionsHold, There
<1>10. QED  BY <1>4, <1>6, <1>7, <1>8, <1>9 DEF CommentsInv

LEMMA CommentsInit ==
    ASSUME Init
    PROVE  CommentsInv
<1>1. PICK who \in Note \cup {Local}, what \in {Gone} \cup [status : Status, text : {"posted"}] :
          /\ comment = [c \in Comment |-> Committed(IF c = Earlier THEN what ELSE Gone)]
          /\ note = [c \in Comment |-> IF c = Earlier THEN who ELSE Local]
          /\ told = [x \in Note |-> IF x = who /\ what # Gone THEN "posted" ELSE "nothing"]
          /\ verdict = [c \in Comment |-> IF c = Earlier THEN what.status ELSE "none"]
  BY DEF Init
<1>2. /\ parent = [c \in Comment |-> Top] /\ domain = [x \in Note |-> Committed("seen")]
      /\ pc = [n \in Request |-> "idle"] /\ ask = [n \in Request |-> Nothing]
      /\ found = [n \in Request |-> Top] /\ was = [n \in Request |-> Gone]
      /\ fanout = [n \in Request |-> "none"] /\ arrived = 0 /\ faults = 0
  BY DEF Init
<1>3. /\ what \in Body \cup {Gone} /\ what.status \in Status \cup {"none"}
      /\ what # Gone => what.text = "posted"
  BY DEF Body, Gone, Text
<1>4. \A c \in Comment : /\ comment[c].old = IF c = Earlier THEN what ELSE Gone
                         /\ comment[c].new = comment[c].old /\ comment[c].by = Nobody
  BY <1>1 DEF Committed
<1>5. \A c \in Comment : There(c) => c = Earlier /\ what # Gone
  BY <1>4 DEF There
<1>6. CommentsTypeOK
  <2>1. comment \in [Comment -> Versions(Body \cup {Gone}, Request)]
    BY <1>1, <1>3 DEF Committed, Versions
  <2>2. domain \in [Note -> Versions({"seen"}, Request)]
    BY <1>2 DEF Committed, Versions
  <2>3. arrived \in 0..MaxRequests /\ faults \in 0..MaxFaults
    BY <1>2, RequestsAssumption, FaultsAssumption
  <2>4. told \in [Note -> Text \cup {"nothing"}] /\ verdict \in [Comment -> Status \cup {"none"}]
    BY <1>1, <1>3 DEF Text
  <2>5. note \in [Comment -> Note \cup {Local}]
    BY <1>1
  <2>6. QED  BY <1>2, <2>1, <2>2, <2>3, <2>4, <2>5 DEF CommentsTypeOK
<1>7. Hands
  <2>1. \A n \in Request : n > arrived
    BY <1>2, RequestsAssumption DEF Request
  <2>2. QED  BY <1>2, <2>1 DEF Hands, Hand, Running
<1>8. OneByOne
  BY <1>2 DEF OneByOne, Alone, Running
<1>9. Rows
  BY <1>4, <1>5, RequestFacts DEF Rows, Row, Made
<1>10. Families
  BY <1>2, RequestFacts DEF Families, Family
<1>11. OneRow
  BY <1>5 DEF OneRow
<1>12. SaysWhatItsServerSaid
  <2> SUFFICES ASSUME NEW c \in Comment, There(c), note[c] # Local
               PROVE  comment[c].old.text = told[note[c]]
    BY DEF SaysWhatItsServerSaid
  <2>1. c = Earlier /\ what # Gone /\ note[c] = who /\ who \in Note
    BY <1>1, <1>5
  <2>2. QED  BY <1>1, <1>3, <1>4, <2>1
<1>13. DecisionsHold
  BY <1>1, <1>4, <1>5 DEF DecisionsHold
<1>14. OnlyCommittedIsSent
  BY <1>2 DEF OnlyCommittedIsSent
<1>15. QED  BY <1>6, <1>7, <1>8, <1>9, <1>10, <1>11, <1>12, <1>13, <1>14 DEF CommentsInv

LEMMA NextKeeps ==
    ASSUME CommentsInv, [Next]_vars
    PROVE  CommentsInv'
<1>1. CASE UNCHANGED vars
  BY <1>1, FanOutKeeps DEF vars
<1>2. ASSUME NEW n \in Request, NEW a \in Ask, Arrive(n, a) PROVE CommentsInv'
  BY <1>2, ArriveKeeps
<1>3. ASSUME NEW n \in Request, Step(n) PROVE CommentsInv'
  BY <1>3, RecordKeeps, CommentReadKeeps, CreateReadKeeps, InsertKeeps, NotifyKeeps,
     ModerateReadKeeps, NoteReadKeeps, ChangesKeep, DeleteKeeps, CommitKeeps
     DEF Step
<1>4. ASSUME NEW n \in Request, Die(n) \/ NotifyFails(n) \/ Refuse(n) PROVE CommentsInv'
  BY <1>4, DieKeeps
<1>5. ASSUME NEW n \in Request, FanOut(n) PROVE CommentsInv'
  BY <1>5, FanOutKeeps DEF FanOut
<1>6. CASE Quiescent
  BY <1>1, <1>6 DEF Quiescent
<1>7. QED  BY <1>1, <1>2, <1>3, <1>4, <1>5, <1>6 DEF Next

(***************************************************************************)
(* The theorems                                                            *)
(***************************************************************************)
\* The inductive invariant: what each request has in hand, how the activities about a
\* note follow each other, what a lock holder has made of its rows, and how replies hang
\* on their parents.
THEOREM CommentsInvariant == Safety => []CommentsInv
<1>1. Init => CommentsInv
  BY CommentsInit
<1>2. CommentsInv /\ [Next]_vars => CommentsInv'
  BY NextKeeps
<1>3. QED  BY <1>1, <1>2, PTL DEF Safety

\* Every variable keeps to the values the handlers give it.
THEOREM CommentsTypeCorrect == Spec => []CommentsTypeOK
<1>1. CommentsInv => CommentsTypeOK
  BY DEF CommentsInv
<1>2. QED  BY <1>1, CommentsInvariant, PTL DEF Spec

\* A Create{Note} that has found its note missing finds it missing when it inserts it:
\* the row of the note's server, locked by record_instance, stands between duplicates.
THEOREM NotesAreStoredOnce == Spec => []NoteStoredOnce
<1>1. ASSUME CommentsInv PROVE NoteStoredOnce
  <2> SUFFICES ASSUME NEW n \in Request, pc[n] \in {"insert", "notify"}, FromInbox(n)
               PROVE  Stored(ask[n].note) = {}
    BY DEF NoteStoredOnce
  <2>1. Hand(n) /\ pc[n] \in Running
    BY <1>1 DEF CommentsInv, Hands, Running
  <2>2. ask[n] \in Ask /\ ask[n].kind = "create"
    BY <2>1 DEF Hand, New, FromInbox
  <2>3. PICK x \in Note : x = About(n)
    BY <2>2, AskFacts DEF About
  <2>4. Alone(n, x)
    BY <1>1 DEF CommentsInv, OneByOne
  <2>5. QED  BY <2>1, <2>2, <2>3, <2>4 DEF Alone, About
<1>2. QED  BY <1>1, CommentsInvariant, PTL DEF Spec

\* A comment says what its server has last said of it, and is gone once its server has
\* deleted it, whatever a moderator does meanwhile: they write different columns.
THEOREM CommentsSayWhatWasSaid == Spec => []SaysWhatItsServerSaid
<1>1. CommentsInv => SaysWhatItsServerSaid
  BY DEF CommentsInv
<1>2. QED  BY <1>1, CommentsInvariant, PTL DEF Spec

\* What moderate_comment has decided of a comment stays, also when an Update{Note} that
\* read it before is written after it.
THEOREM DecisionsAreKept == Spec => []DecisionsHold
<1>1. CommentsInv => DecisionsHold
  BY DEF CommentsInv
<1>2. QED  BY <1>1, CommentsInvariant, PTL DEF Spec

\* No reply outlives its parent: a Delete{Note} takes the replies it finds and those the
\* foreign key finds, and an insert below a row being deleted waits and fails.
THEOREM RepliesKeepParents == Spec => []RepliesHaveParents
<1>1. CommentsInv => RepliesHaveParents
  <2> SUFFICES ASSUME CommentsInv, NEW c \in Comment, There(c), parent[c] # Top
               PROVE  There(parent[c])
    BY DEF RepliesHaveParents
  <2>1. PICK p \in Comment : p = parent[c]
    BY DEF CommentsInv, CommentsTypeOK
  <2>2. QED  BY <2>1 DEF CommentsInv, Families, Family
<1>2. QED  BY <1>1, CommentsInvariant, PTL DEF Spec

\* The fan-out is enqueued before the commit, but what it sends has been committed: the
\* worker looks the comment up.
THEOREM SentIsCommitted == Spec => []OnlyCommittedIsSent
<1>1. CommentsInv => OnlyCommittedIsSent
  BY DEF CommentsInv
<1>2. QED  BY <1>1, CommentsInvariant, PTL DEF Spec
=============================================================================
