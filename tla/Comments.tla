------------------------------ MODULE Comments -------------------------------
(***************************************************************************)
(* Comments on one recipe (cooked_this): local ones through                *)
(* app/routers/comments.py and comments_form.py, federated ones through    *)
(* Create, Update and Delete of a Note in app/routers/activitypub.py, the  *)
(* moderation of both, and the fan-out of local comments in                *)
(* app/tasks/delivery.py.                                                  *)
(*                                                                         *)
(* Comments form threads: a reply points to its parent with a foreign key  *)
(* that cascades.  A comment is named after the request that inserts it;   *)
(* comment Earlier was made before.  The recipe is not deleted, a note has *)
(* an identity that belongs to the server that sends it (the handler takes *)
(* whatever identity comes), and these servers are known (first contact is *)
(* in KnownInstances).                                                     *)
(***************************************************************************)
EXTENDS Integers, RowVersions

CONSTANTS Note,         \* notes of other servers, one of each server
          Moderated,    \* COMMENTS_MODERATION is on
          MaxRequests,  \* bound: HTTP requests
          MaxFaults     \* bound: transactions that die

Local == "local"          \* instead of a note, for comments made here

ASSUME NoteAssumption == Local \notin Note
ASSUME ModeratedAssumption == Moderated \in BOOLEAN
ASSUME RequestsAssumption == MaxRequests \in Nat \ {0}
ASSUME FaultsAssumption == MaxFaults \in Nat

Request == 1..MaxRequests
Earlier == 0
Comment == Request \cup {Earlier}
Top == MaxRequests + 1    \* the parent of a comment on the recipe itself

Status == {"pending", "published", "rejected"}
Text == {"posted", "edited"}
Gone == [status |-> "none", text |-> "none"]
Body == [status : Status, text : Text]

Ask == [kind : {"comment"}, parent : Comment \cup {Top}]
       \cup [kind : {"moderate"}, target : Comment, to : {"published", "rejected"}]
       \cup [kind : {"create"}, note : Note, parent : Comment \cup {Top}]
       \cup [kind : {"update"}, note : Note, text : Text]
       \cup [kind : {"delete"}, note : Note]
Nothing == << >>

VARIABLES comment,  \* the rows
          note,     \* whose note each row is, or Local
          parent,   \* its parent
          domain,   \* known_instances: the row of each note's server
          pc,       \* where each request is
          ask,      \* what it asks for
          found,    \* the comment its SELECT has found
          was,      \* and what it said
          fanout,   \* the task a local comment has enqueued
          arrived, faults,
          told,     \* history: what the note's server has last been heard to say of it
          verdict   \* history: the status each comment was last given

local == <<ask, found, was>>
bounds == <<arrived, faults>>
history == <<told, verdict>>
rows == <<comment, note, parent, domain>>
vars == <<rows, pc, local, fanout, bounds, history>>

Running == {"record", "read", "insert", "notify", "enqueue", "write", "commit"}
Ended == {"done", "failed"}

CommentsTypeOK ==
    /\ comment \in [Comment -> Versions(Body \cup {Gone}, Request)]
    /\ note \in [Comment -> Note \cup {Local}]
    /\ parent \in [Comment -> Comment \cup {Top}]
    /\ domain \in [Note -> Versions({"seen"}, Request)]
    /\ pc \in [Request -> {"idle"} \cup Running \cup Ended]
    /\ ask \in [Request -> Ask \cup {Nothing}]
    /\ found \in [Request -> Comment \cup {Top}]
    /\ was \in [Request -> Body \cup {Gone}]
    /\ fanout \in [Request -> {"none", "queued", "sent", "missed"}]
    /\ arrived \in 0..MaxRequests
    /\ faults \in 0..MaxFaults
    /\ told \in [Note -> Text \cup {"nothing"}]
    /\ verdict \in [Comment -> Status \cup {"none"}]

Init ==
    /\ \E who \in Note \cup {Local}, what \in {Gone} \cup [status : Status, text : {"posted"}] :
          /\ comment = [c \in Comment |-> Committed(IF c = Earlier THEN what ELSE Gone)]
          /\ note = [c \in Comment |-> IF c = Earlier THEN who ELSE Local]
          /\ told = [x \in Note |-> IF x = who /\ what # Gone THEN "posted" ELSE "nothing"]
          /\ verdict = [c \in Comment |-> IF c = Earlier THEN what.status ELSE "none"]
          /\ who = Local => what.status # "pending"
    /\ parent = [c \in Comment |-> Top]
    /\ domain = [x \in Note |-> Committed("seen")]
    /\ pc = [n \in Request |-> "idle"]
    /\ ask = [n \in Request |-> Nothing]
    /\ found = [n \in Request |-> Top]
    /\ was = [n \in Request |-> Gone]
    /\ fanout = [n \in Request |-> "none"]
    /\ arrived = 0
    /\ faults = 0

(***************************************************************************)
(* Requests and transactions                                               *)
(***************************************************************************)
Goto(n, there) == pc' = [pc EXCEPT ![n] = there]

\* What a handler held in variables goes with it.
End(n, there) ==
    /\ Goto(n, there)
    /\ ask' = [ask EXCEPT ![n] = Nothing]
    /\ found' = [found EXCEPT ![n] = Top]
    /\ was' = [was EXCEPT ![n] = Gone]

\* Mutant: a failed request's session is not rolled back and keeps its locks.
RollbackLater(n) ==
    /\ comment' = RollbackRows(comment, n)
    /\ End(n, "failed")
    /\ UNCHANGED <<note, parent, domain, history>>

Rollback(n) ==
    /\ comment' = RollbackRows(comment, n)
    /\ domain' = RollbackRows(domain, n)
    /\ End(n, "failed")
    /\ UNCHANGED <<note, parent, history>>

FromInbox(n) == ask[n].kind \in {"create", "update", "delete"}
There(c) == comment[c].old # Gone

\* Identities are random: a request can only speak of comments there have been.
Arrive(n, a) ==
    /\ n = arrived + 1
    /\ a.kind \in {"comment", "create"} => a.parent < n \/ a.parent = Top
    /\ a.kind = "moderate" => a.target < n
    /\ arrived' = n
    /\ ask' = [ask EXCEPT ![n] = a]
    /\ Goto(n, IF a.kind \in {"create", "update", "delete"} THEN "record" ELSE "read")
    /\ UNCHANGED <<rows, found, was, fanout, faults, history>>

\* Mutant: last_seen is not written.
RecordNothing(n) ==
    /\ pc[n] = "record"
    /\ Goto(n, "read")
    /\ UNCHANGED <<rows, local, fanout, bounds, history>>

\* record_instance, for a server that is known: its row stays locked.
Record(n) ==
    /\ pc[n] = "record"
    /\ MayWrite(domain, ask[n].note, n)
    /\ domain' = Write(domain, ask[n].note, "seen", n)
    /\ Goto(n, "read")
    /\ UNCHANGED <<comment, note, parent, local, fanout, bounds, history>>

\* Who asks, the signature, the policy or the text turns a request away: with an
\* error, or with an answer like any other.
Refuse(n) ==
    /\ pc[n] = "read"
    /\ UNCHANGED <<fanout, bounds>>
    /\ \/ Rollback(n)
       \/ Goto(n, "commit") /\ UNCHANGED <<rows, local, history>>

(***************************************************************************)
(* create_comment, submit_comment; Create{Note}                            *)
(***************************************************************************)
\* A parent that is not there is a 404 to the API; the form drops it.
CommentRead(n) ==
    /\ pc[n] = "read" /\ ask[n].kind = "comment"
    /\ UNCHANGED <<fanout, bounds>>
    /\ \/ /\ ask[n].parent # Top /\ ~There(ask[n].parent)
          /\ Rollback(n)
       \/ /\ Goto(n, "insert")
          /\ found' = [found EXCEPT ![n] =
                         IF ask[n].parent # Top /\ There(ask[n].parent) THEN ask[n].parent ELSE Top]
          /\ UNCHANGED <<rows, ask, was, history>>

Stored(x) == {c \in Comment : There(c) /\ note[c] = x}

\* A reply to nothing of ours and a note already stored are acknowledged.
CreateRead(n) ==
    /\ pc[n] = "read" /\ ask[n].kind = "create"
    /\ IF (ask[n].parent # Top /\ ~There(ask[n].parent)) \/ Stored(ask[n].note) # {}
       THEN Goto(n, "commit") /\ UNCHANGED found
       ELSE Goto(n, "insert") /\ found' = [found EXCEPT ![n] = ask[n].parent]
    /\ UNCHANGED <<rows, ask, was, fanout, bounds, history>>

\* Mutant: local comments wait for approval too, in a status of their own.
NewStatusHeld(n) == IF Moderated THEN "held" ELSE "published"

\* Local comments are always published directly.
NewStatus(n) == IF FromInbox(n) /\ Moderated THEN "pending" ELSE "published"

\* The foreign key waits for whoever is deleting the parent, and fails when it is
\* gone; an UPDATE of the parent is not waited for.
Insert(n) ==
    LET p == found[n] IN
    /\ pc[n] = "insert"
    /\ p # Top => comment[p].new # Gone \/ MayWrite(comment, p, n)
    /\ IF p # Top /\ comment[p].new = Gone
       THEN Rollback(n)
       ELSE /\ comment' = Write(comment, n, [status |-> NewStatus(n), text |-> "posted"], n)
            /\ note' = [note EXCEPT ![n] = IF FromInbox(n) THEN ask[n].note ELSE Local]
            /\ parent' = [parent EXCEPT ![n] = p]
            /\ Goto(n, "notify")
            /\ UNCHANGED <<domain, local, history>>
    /\ UNCHANGED <<fanout, bounds>>

\* The author of the recipe is notified, unless it is their own comment.
Notify(n) ==
    /\ pc[n] = "notify"
    /\ Goto(n, IF FromInbox(n) THEN "commit" ELSE "enqueue")
    /\ UNCHANGED <<rows, local, fanout, bounds, history>>

\* A title or name too long for the notification's columns: the error is
\* swallowed, but it has rolled back the comment; the fan-out is enqueued still.
NotifyFails(n) ==
    /\ pc[n] = "notify"
    /\ \E done \in IF FromInbox(n) THEN {"none"} ELSE {"none", "queued"} :
          fanout' = [fanout EXCEPT ![n] = done]
    /\ Rollback(n)
    /\ UNCHANGED bounds

\* Before the commit; a broker that cannot be reached is only logged.
Enqueue(n) ==
    /\ pc[n] = "enqueue"
    /\ \E done \in {"none", "queued"} : fanout' = [fanout EXCEPT ![n] = done]
    /\ Goto(n, "commit")
    /\ UNCHANGED <<rows, local, bounds, history>>

(***************************************************************************)
(* moderate_comment, Update{Note}, Delete{Note}                            *)
(***************************************************************************)
ModerateRead(n) ==
    LET c == ask[n].target IN
    /\ pc[n] = "read" /\ ask[n].kind = "moderate"
    /\ IF There(c)
       THEN /\ found' = [found EXCEPT ![n] = c]
            /\ was' = [was EXCEPT ![n] = comment[c].old]
            /\ Goto(n, "write")
            /\ UNCHANGED <<rows, ask, history>>
       ELSE Rollback(n)
    /\ UNCHANGED <<fanout, bounds>>

\* The note is looked up by its identity and its actor.
NoteRead(n) ==
    /\ pc[n] = "read" /\ ask[n].kind \in {"update", "delete"}
    /\ \/ /\ Stored(ask[n].note) = {}
          /\ Goto(n, "commit")
          /\ UNCHANGED <<found, was>>
       \/ \E c \in Stored(ask[n].note) :
          /\ found' = [found EXCEPT ![n] = c]
          /\ was' = [was EXCEPT ![n] = comment[c].old]
          /\ Goto(n, "write")
    /\ UNCHANGED <<rows, ask, fanout, bounds, history>>

\* An attribute set to what was read is not written; the others are left as they
\* are.  An UPDATE that matches no row raises.
UpdateTo(n, new) ==
    LET c == found[n] IN
    /\ MayWrite(comment, c, n)
    /\ IF comment[c].new = Gone
       THEN Rollback(n)
       ELSE /\ comment' = Write(comment, c, new, n)
            /\ Goto(n, "commit")
            /\ UNCHANGED <<note, parent, domain, local, history>>

WriteNothing(n) ==
    /\ Goto(n, "commit")
    /\ UNCHANGED <<rows, local, history>>

ModerateWrite(n) ==
    /\ pc[n] = "write" /\ ask[n].kind = "moderate"
    /\ IF was[n].status = ask[n].to
       THEN WriteNothing(n)
       ELSE UpdateTo(n, [comment[found[n]].new EXCEPT !.status = ask[n].to])
    /\ UNCHANGED <<fanout, bounds>>

\* Mutant: the whole row is written, as it was read.
NoteWriteRow(n) ==
    /\ pc[n] = "write" /\ ask[n].kind = "update"
    /\ UpdateTo(n, [was[n] EXCEPT !.text = ask[n].text])
    /\ UNCHANGED <<fanout, bounds>>

NoteWrite(n) ==
    /\ pc[n] = "write" /\ ask[n].kind = "update"
    /\ IF was[n].text = ask[n].text
       THEN WriteNothing(n)
       ELSE UpdateTo(n, [comment[found[n]].new EXCEPT !.text = ask[n].text])
    /\ UNCHANGED <<fanout, bounds>>

\* A comment and the replies below it, those included that another transaction is
\* inserting or deleting: those in every set that has it and, with a comment, its
\* replies.
Below(c) ==
    LET Closed(S) == c \in S /\ \A d \in Comment : parent[d] \in S => d \in S
    IN {d \in Comment : /\ \A S \in SUBSET Comment : Closed(S) => d \in S
                        /\ There(d) \/ comment[d].new # Gone}

\* Mutant: only the comment itself goes.
DeleteAlone(n) ==
    LET c == found[n] IN
    /\ pc[n] = "write" /\ ask[n].kind = "delete"
    /\ MayWrite(comment, c, n)
    /\ comment' = Write(comment, c, Gone, n)
    /\ Goto(n, "commit")
    /\ UNCHANGED <<note, parent, domain, local, fanout, bounds, history>>

\* The ORM deletes the replies it finds, children first, and the foreign key those
\* that have come since.  It waits for whoever has written one of these rows:
\* nobody else holds two of them, so taking them together hides no cycle.
Delete(n) ==
    /\ pc[n] = "write" /\ ask[n].kind = "delete"
    /\ \A d \in Below(found[n]) : MayWrite(comment, d, n)
    /\ comment' = [d \in Comment |->
                     IF d \in Below(found[n]) THEN [old |-> comment[d].old, new |-> Gone, by |-> n]
                     ELSE comment[d]]
    /\ Goto(n, "commit")
    /\ UNCHANGED <<note, parent, domain, local, fanout, bounds, history>>

(***************************************************************************)
(* get_db                                                                  *)
(***************************************************************************)
\* History: what the commit adds to what the note's server has said, and to what
\* has been decided of the comments n has written.
Heard(n) ==
    CASE ask[n].kind = "create" /\ comment[n].by = n -> "posted"
      [] ask[n].kind = "update" /\ found[n] # Top    -> ask[n].text
      [] ask[n].kind = "delete" /\ found[n] # Top    -> "nothing"
      [] OTHER                                       -> told[ask[n].note]

Commit(n) ==
    /\ pc[n] = "commit"
    /\ comment' = CommitRows(comment, n)
    /\ domain' = CommitRows(domain, n)
    /\ told' = IF FromInbox(n) THEN [told EXCEPT ![ask[n].note] = Heard(n)] ELSE told
    /\ verdict' = [c \in Comment |->
                     IF c = n /\ comment[n].by = n THEN comment[n].new.status
                     ELSE IF ask[n].kind = "moderate" /\ comment[c].by = n THEN ask[n].to
                     ELSE verdict[c]]
    /\ End(n, "done")
    /\ UNCHANGED <<note, parent, fanout, bounds>>

Die(n) ==
    /\ pc[n] \in Running
    /\ faults < MaxFaults
    /\ faults' = faults + 1
    /\ Rollback(n)
    /\ UNCHANGED <<fanout, arrived>>

(***************************************************************************)
(* deliver_comment_to_followers                                            *)
(***************************************************************************)
\* Mutant: the task is given the comment instead of its identity.
FanOutBlindly(n) ==
    /\ fanout[n] = "queued"
    /\ fanout' = [fanout EXCEPT ![n] = "sent"]
    /\ UNCHANGED <<rows, pc, local, bounds, history>>

\* The worker looks the comment up, whatever its status.
FanOut(n) ==
    /\ fanout[n] = "queued"
    /\ fanout' = [fanout EXCEPT ![n] = IF There(n) THEN "sent" ELSE "missed"]
    /\ UNCHANGED <<rows, pc, local, bounds, history>>

Quiescent ==
    /\ arrived = MaxRequests
    /\ \A n \in Request : pc[n] \in Ended /\ fanout[n] # "queued"
    /\ UNCHANGED vars

Step(n) ==
    \/ Record(n)
    \/ CommentRead(n) \/ CreateRead(n) \/ Insert(n) \/ Notify(n) \/ Enqueue(n)
    \/ ModerateRead(n) \/ ModerateWrite(n)
    \/ NoteRead(n) \/ NoteWrite(n) \/ Delete(n)
    \/ Commit(n)

Next ==
    \/ \E n \in Request :
        \/ \E a \in Ask : Arrive(n, a)
        \/ Step(n) \/ Refuse(n) \/ NotifyFails(n) \/ Die(n)
        \/ FanOut(n)
    \/ Quiescent

Safety == Init /\ [][Next]_vars

\* The event loop resumes what can run, PostgreSQL hands on released locks, and a
\* worker takes each queued task.
Fairness == \A n \in Request : WF_vars(Step(n)) /\ WF_vars(FanOut(n))

Spec == Safety /\ Fairness

(***************************************************************************)
(* Properties                                                              *)
(***************************************************************************)
\* A note is stored once however often its own server sends it: what a Create has
\* found missing is missing still when it is inserted, so such a duplicate is
\* acknowledged and does not run into the unique constraint.
NoteStoredOnce ==
    \A n \in Request :
        pc[n] \in {"insert", "notify"} /\ FromInbox(n) => Stored(ask[n].note) = {}

\* A comment says what its server has last said of it, whatever was moderated
\* meanwhile, and is gone once its server has deleted it.
SaysWhatItsServerSaid ==
    \A c \in Comment : There(c) /\ note[c] # Local => comment[c].old.text = told[note[c]]

\* A decision is not undone by an edit that had read the comment before it.
DecisionsHold == \A c \in Comment : There(c) => comment[c].old.status = verdict[c]

\* No reply outlives its parent, also not one inserted while it was being deleted.
RepliesHaveParents == \A c \in Comment : There(c) /\ parent[c] # Top => There(parent[c])

\* What followers are sent has been committed, although it is enqueued before: the
\* comment of a failed request is not delivered.
OnlyCommittedIsSent == \A n \in Request : fanout[n] = "sent" => pc[n] = "done"

\* Every request and every fan-out ends.
CommentsEnd == []<>(\A n \in Request : pc[n] \notin Running /\ fanout[n] # "queued")
=============================================================================
