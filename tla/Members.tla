------------------------------- MODULE Members -------------------------------
(***************************************************************************)
(* What a signed-in user keeps and decides: one block or mute, one         *)
(* bookmark (routers/moderation.py, routers/bookmark_form.py), the rule of *)
(* one domain, and the page that shows the notifications of the user and   *)
(* marks them read (routers/dashboard.py).                                 *)
(*                                                                         *)
(* A bookmark and a notification are named after the request that inserts  *)
(* them.  Who may do what is in Accounts; here a request may be refused    *)
(* before it has done anything.                                            *)
(***************************************************************************)
EXTENDS Integers, FiniteSets, RowVersions

CONSTANTS Reason,       \* what an admin writes into a rule
          PageSize,     \* bound: notifications on a page; the page has 50
          MaxRequests,  \* bound: HTTP requests
          MaxFaults     \* bound: transactions that die

ASSUME PageAssumption == PageSize \in Nat \ {0}
ASSUME RequestsAssumption == MaxRequests \in Nat \ {0}
ASSUME FaultsAssumption == MaxFaults \in Nat

Request == 1..MaxRequests
Earlier == 0
Before == -1..0            \* notifications older than all requests
Notification == Before \cup Request
Id == Request \cup {Earlier}

Gone == "none"
BlockType == {"block", "mute"}
NoRule == [rule_type |-> "none", reason |-> "none"]
InstanceRule == [rule_type : {"block", "allow"}, reason : Reason]
NoBookmark == MaxRequests + 1

Ask == [kind : {"add", "drop"}, on : {"pair"}, type : BlockType]
       \cup [kind : {"add"}, on : {"mark"}]
       \cup [kind : {"drop"}, on : {"mark"}, id : Id]
       \cup [kind : {"add"}, on : {"rule"}, new : InstanceRule]
       \cup [kind : {"drop"}, on : {"rule"}]
       \cup [kind : {"notify", "page"}, on : {"none"}]
Nothing == << >>
Table == {"pair", "mark", "rule"}

VARIABLES user_block,   \* the row of the pair
          bookmark,     \* the bookmark of the recipe
          rule,         \* the rule of the domain
          notification, \* the user's notifications
          pc, ask,
          old,          \* the rule as the SELECT has read it
          loaded,       \* unread notifications at the page's SELECT
          targets,      \* unread notifications as the page's UPDATE has found them
          arrived, faults,
          overtaken,    \* history: the row has changed since the request looked at it
          settled,      \* history: the last answer about each row, if not overtaken
          late,         \* history: what was committed between a page's two statements
          shown,        \* history: notifications that have been on a page
          passed        \* history: those late for a page, or more than it holds

Row == {"it"}
rows == <<user_block, bookmark, rule, notification>>
local == <<ask, old, loaded, targets>>
bounds == <<arrived, faults>>
history == <<overtaken, settled, late, shown, passed>>
vars == <<rows, pc, local, bounds, history>>

Running == {"read", "write", "mark", "commit"}
Ended == {"done", "failed", "clash"}

MembersTypeOK ==
    /\ user_block \in [Row -> Versions(BlockType \cup {Gone}, Request)]
    /\ bookmark \in [Row -> Versions(Id \cup {NoBookmark}, Request)]
    /\ rule \in [Row -> Versions(InstanceRule \cup {NoRule}, Request)]
    /\ notification \in [Notification -> Versions({"unread", "read", Gone}, Request)]
    /\ pc \in [Request -> {"idle"} \cup Running \cup Ended]
    /\ ask \in [Request -> Ask \cup {Nothing}]
    /\ old \in [Request -> InstanceRule \cup {NoRule}]
    /\ loaded \in [Request -> SUBSET Notification]
    /\ targets \in [Request -> SUBSET Notification]
    /\ arrived \in 0..MaxRequests
    /\ faults \in 0..MaxFaults
    /\ overtaken \in [Request -> BOOLEAN]
    /\ late \in [Request -> SUBSET Notification]
    /\ settled \in [Table -> Ask \cup {Nothing}]
    /\ shown \subseteq Notification
    /\ passed \subseteq Notification

\* At most one of the tables holds something from before.
Init ==
    /\ \E b \in BlockType \cup {Gone}, m \in {Earlier, NoBookmark}, r \in InstanceRule \cup {NoRule},
          x \in {{}, {0}, Before} :
          /\ Cardinality({b, Gone}) + Cardinality({m, NoBookmark}) + Cardinality({r, NoRule})
             + Cardinality({x, {}}) <= 5
          /\ user_block = [i \in Row |-> Committed(b)]
          /\ bookmark = [i \in Row |-> Committed(m)]
          /\ rule = [i \in Row |-> Committed(r)]
          /\ notification = [n \in Notification |-> Committed(IF n \in x THEN "unread" ELSE Gone)]
    /\ pc = [n \in Request |-> "idle"]
    /\ ask = [n \in Request |-> Nothing]
    /\ old = [n \in Request |-> NoRule]
    /\ loaded = [n \in Request |-> {}]
    /\ targets = [n \in Request |-> {}]
    /\ arrived = 0
    /\ faults = 0
    /\ overtaken = [n \in Request |-> FALSE]
    /\ settled = [t \in Table |-> Nothing]
    /\ late = [n \in Request |-> {}]
    /\ shown = {}
    /\ passed = {}

(***************************************************************************)
(* Requests and transactions                                               *)
(***************************************************************************)
Goto(n, there) == pc' = [pc EXCEPT ![n] = there]

End(n, there) ==
    /\ Goto(n, there)
    /\ ask' = [ask EXCEPT ![n] = Nothing]
    /\ old' = [old EXCEPT ![n] = NoRule]
    /\ loaded' = [loaded EXCEPT ![n] = {}]
    /\ targets' = [targets EXCEPT ![n] = {}]

RollbackAll(n) ==
    /\ user_block' = RollbackRows(user_block, n)
    /\ bookmark' = RollbackRows(bookmark, n)
    /\ rule' = RollbackRows(rule, n)
    /\ notification' = RollbackRows(notification, n)

Fail(n, how) == RollbackAll(n) /\ End(n, how) /\ UNCHANGED history

Asks(n, kind, on) == ask[n].kind = kind /\ ask[n].on = on

\* The handlers that begin with a SELECT, and those that write at once.
Start(a) ==
    IF a.kind = "notify" \/ a.on = "pair" \/ (a.kind = "drop" /\ a.on = "rule")
    THEN "write" ELSE "read"

\* Identities are random: nobody asks for a bookmark to come.
Arrive(n, a) ==
    /\ n = arrived + 1
    /\ a.kind = "drop" /\ a.on = "mark" => a.id < n
    /\ arrived' = n
    /\ ask' = [ask EXCEPT ![n] = a]
    /\ Goto(n, Start(a))
    /\ UNCHANGED <<rows, old, loaded, targets, faults, history>>

\* Not signed in, no admin, oneself, or no rule type there is.
Refuse(n) ==
    /\ pc[n] \in {"read", "write"} /\ pc[n] = Start(ask[n]) /\ ask[n].on # "none"
    /\ Fail(n, "failed")
    /\ UNCHANGED bounds

(***************************************************************************)
(* block_user, mute_user, unblock_user, unmute_user                        *)
(***************************************************************************)
\* Mutant: the entry is named after what is done, not after its type.
BlockInsertKind(n) ==
    /\ pc[n] = "write" /\ Asks(n, "add", "pair")
    /\ MayWrite(user_block, "it", n)
    /\ user_block' = IF user_block["it"].new = Gone THEN Write(user_block, "it", ask[n].kind, n)
                     ELSE user_block
    /\ Goto(n, "commit")
    /\ UNCHANGED <<bookmark, rule, notification, local, bounds, history>>

\* The pair is unique, whatever the type: a violation is rolled back and answered
\* like a success.
BlockInsert(n) ==
    /\ pc[n] = "write" /\ Asks(n, "add", "pair")
    /\ MayWrite(user_block, "it", n)
    /\ user_block' = IF user_block["it"].new = Gone THEN Write(user_block, "it", ask[n].type, n)
                     ELSE user_block
    /\ Goto(n, "commit")
    /\ UNCHANGED <<bookmark, rule, notification, local, bounds, history>>

BlockDelete(n) ==
    /\ pc[n] = "write" /\ Asks(n, "drop", "pair")
    /\ IF user_block["it"].old = ask[n].type
       THEN /\ MayWrite(user_block, "it", n)
            /\ user_block' = Write(user_block, "it", Gone, n)
       ELSE UNCHANGED user_block
    /\ Goto(n, "commit")
    /\ UNCHANGED <<bookmark, rule, notification, local, bounds, history>>

(***************************************************************************)
(* add_bookmark, remove_bookmark and their forms                           *)
(***************************************************************************)
\* A bookmark there is already is answered as it is; one that is not there is a 404,
\* or nothing to the form.
MarkRead(n) ==
    LET id == bookmark["it"].old
        found == IF ask[n].kind = "add" THEN id # NoBookmark ELSE id = ask[n].id
    IN
    /\ pc[n] = "read" /\ ask[n].on = "mark"
    /\ Goto(n, IF found = (ask[n].kind = "drop") THEN "write" ELSE "commit")
    /\ UNCHANGED <<rows, local, bounds, history>>

\* The unique constraint waits for another insert, and fails if that one commits.
MarkInsert(n) ==
    /\ pc[n] = "write" /\ Asks(n, "add", "mark")
    /\ MayWrite(bookmark, "it", n)
    /\ UNCHANGED bounds
    /\ IF bookmark["it"].new # NoBookmark
       THEN Fail(n, "clash")
       ELSE /\ bookmark' = Write(bookmark, "it", n, n)
            /\ Goto(n, "commit")
            /\ UNCHANGED <<user_block, rule, notification, local, history>>

\* Only the row that was read; a DELETE that finds it gone is content.
MarkDelete(n) ==
    /\ pc[n] = "write" /\ Asks(n, "drop", "mark")
    /\ MayWrite(bookmark, "it", n)
    /\ bookmark' = IF bookmark["it"].new = ask[n].id THEN Write(bookmark, "it", NoBookmark, n)
                   ELSE bookmark
    /\ Goto(n, "commit")
    /\ UNCHANGED <<user_block, rule, notification, local, bounds, history>>

(***************************************************************************)
(* add_instance_rule, remove_instance_rule                                 *)
(***************************************************************************)
\* A rule that says what is asked for is still written if another admin made it, for
\* created_by_id, which is not modelled.
RuleRead(n) ==
    /\ pc[n] = "read" /\ Asks(n, "add", "rule")
    /\ old' = [old EXCEPT ![n] = rule["it"].old]
    /\ \/ Goto(n, "write")
       \/ rule["it"].old = ask[n].new /\ Goto(n, "commit")
    /\ UNCHANGED <<rows, ask, loaded, targets, bounds, history>>

\* Only what differs from what was read is written.
Changed(row, n) ==
    [f \in {"rule_type", "reason"} |-> IF ask[n].new[f] = old[n][f] THEN row[f] ELSE ask[n].new[f]]

\* Mutant: a rule there is already keeps its type.
RuleWriteReason(n) ==
    /\ pc[n] = "write" /\ Asks(n, "add", "rule")
    /\ MayWrite(rule, "it", n)
    /\ UNCHANGED bounds
    /\ IF (old[n] = NoRule) = (rule["it"].new = NoRule)
       THEN /\ rule' = Write(rule, "it", IF old[n] = NoRule THEN ask[n].new
                                         ELSE [rule["it"].new EXCEPT !.reason = ask[n].new.reason], n)
            /\ Goto(n, "commit")
            /\ UNCHANGED <<user_block, bookmark, notification, local, history>>
       ELSE Fail(n, "clash")

\* A row that has come since stops an INSERT, one that has gone since an UPDATE.
RuleWrite(n) ==
    /\ pc[n] = "write" /\ Asks(n, "add", "rule")
    /\ MayWrite(rule, "it", n)
    /\ UNCHANGED bounds
    /\ IF (old[n] = NoRule) = (rule["it"].new = NoRule)
       THEN /\ rule' = Write(rule, "it", IF old[n] = NoRule THEN ask[n].new
                                         ELSE Changed(rule["it"].new, n), n)
            /\ Goto(n, "commit")
            /\ UNCHANGED <<user_block, bookmark, notification, local, history>>
       ELSE Fail(n, "clash")

RuleDelete(n) ==
    /\ pc[n] = "write" /\ Asks(n, "drop", "rule")
    /\ IF rule["it"].old # NoRule
       THEN MayWrite(rule, "it", n) /\ rule' = Write(rule, "it", NoRule, n)
       ELSE UNCHANGED rule
    /\ Goto(n, "commit")
    /\ UNCHANGED <<user_block, bookmark, notification, local, bounds, history>>

(***************************************************************************)
(* create_notification, notifications_page                                 *)
(***************************************************************************)
Notify(n) ==
    /\ pc[n] = "write" /\ ask[n].kind = "notify"
    /\ notification' = Write(notification, n, "unread", n)
    /\ Goto(n, "commit")
    /\ UNCHANGED <<user_block, bookmark, rule, local, bounds, history>>

Unread == {x \in Notification : notification[x].old = "unread"}

PageLoad(n) ==
    /\ pc[n] = "read" /\ ask[n].kind = "page"
    /\ loaded' = [loaded EXCEPT ![n] = Unread]
    /\ Goto(n, IF Unread = {} THEN "commit" ELSE "write")
    /\ UNCHANGED <<rows, ask, old, targets, bounds, history>>

\* Mutant: one less than the limit.
NewestButOne(s) == {x \in s : Cardinality({y \in s : y > x}) < PageSize - 1}

\* The newest first, up to the limit.
Newest(s) == {x \in s : Cardinality({y \in s : y > x}) < PageSize}

\* The UPDATE of all that are unread, whichever were loaded: it goes by what is
\* committed when it begins, and waits for the rows another page is marking.
PageAim(n) ==
    /\ pc[n] = "write" /\ ask[n].kind = "page"
    /\ targets' = [targets EXCEPT ![n] = Unread]
    /\ Goto(n, "mark")
    /\ UNCHANGED <<rows, ask, old, loaded, bounds, history>>

\* Those found read by now are left; those that have come since are not seen.
PageMark(n) ==
    /\ pc[n] = "mark"
    /\ \A x \in targets[n] : MayWrite(notification, x, n)
    /\ notification' = [x \in Notification |->
                          IF x \in targets[n] /\ notification[x].new = "unread"
                          THEN [notification[x] EXCEPT !.new = "read", !.by = n]
                          ELSE notification[x]]
    /\ Goto(n, "commit")
    /\ UNCHANGED <<user_block, bookmark, rule, local, bounds, history>>

(***************************************************************************)
(* get_db                                                                  *)
(***************************************************************************)
\* History: requests that have looked at the row n has changed, and go on from that.
Looked(n) ==
    {m \in Request \ {n} :
        /\ pc[m] \in Running /\ pc[m] # Start(ask[m]) /\ ask[m].on = ask[n].on
        /\ n \in Holders(user_block) \cup Holders(bookmark) \cup Holders(rule)}

\* History: a page loaded its list and has not begun its UPDATE.
BetweenTwo(p) == pc[p] = "write" /\ ask[p].kind = "page"

\* History: more than a page holds.
Beyond(s) == {x \in s : Cardinality({y \in s : y > x}) >= PageSize}

Commit(n) ==
    /\ pc[n] = "commit"
    /\ user_block' = CommitRows(user_block, n)
    /\ bookmark' = CommitRows(bookmark, n)
    /\ rule' = CommitRows(rule, n)
    /\ notification' = CommitRows(notification, n)
    /\ overtaken' = [m \in Request |-> overtaken[m] \/ m \in Looked(n)]
    /\ settled' = [t \in Table |-> IF ask[n].on # t THEN settled[t]
                                   ELSE IF overtaken[n] THEN Nothing ELSE ask[n]]
    /\ late' = [p \in Request |-> IF ask[n].kind = "notify" /\ BetweenTwo(p)
                                  THEN late[p] \cup {n} ELSE late[p]]
    /\ shown' = shown \cup Newest(loaded[n])
    /\ passed' = passed \cup Beyond(loaded[n]) \cup late[n]
    /\ End(n, "done")
    /\ UNCHANGED bounds

Die(n) ==
    /\ pc[n] \in Running
    /\ faults < MaxFaults
    /\ faults' = faults + 1
    /\ Fail(n, "failed")
    /\ UNCHANGED arrived

Quiescent ==
    /\ arrived = MaxRequests
    /\ \A n \in Request : pc[n] \in Ended
    /\ UNCHANGED vars

Next ==
    \/ \E n \in Request :
        \/ \E a \in Ask : Arrive(n, a)
        \/ Refuse(n)
        \/ BlockInsert(n) \/ BlockDelete(n)
        \/ MarkRead(n) \/ MarkInsert(n) \/ MarkDelete(n)
        \/ RuleRead(n) \/ RuleWrite(n) \/ RuleDelete(n)
        \/ Notify(n) \/ PageLoad(n) \/ PageAim(n) \/ PageMark(n)
        \/ Commit(n) \/ Die(n)
    \/ Quiescent

Spec == Init /\ [][Next]_vars

(***************************************************************************)
(* Properties                                                              *)
(***************************************************************************)
\* What each answer says of the row.
Keeps(a) ==
    CASE a.on = "pair" /\ a.kind = "add"  -> user_block["it"].old = a.type
      [] a.on = "pair" /\ a.kind = "drop" -> user_block["it"].old # a.type
      [] a.on = "mark" /\ a.kind = "add"  -> bookmark["it"].old # NoBookmark
      [] a.on = "mark" /\ a.kind = "drop" -> bookmark["it"].old # a.id
      [] a.on = "rule" /\ a.kind = "add"  -> rule["it"].old = a.new
      [] a.on = "rule" /\ a.kind = "drop" -> rule["it"].old = NoRule

\* A user is asked to be blocked who is muted, or the other way round.
OtherEntry(a) == a.on = "pair" /\ a.kind = "add" /\ user_block["it"].old \in BlockType \ {a.type}

\* The handlers look before they write, and lock nothing in between.  The last answer
\* about a row is true until the row changes again, and no request fails on a
\* constraint, unless another request changed the row after this one had looked at it:
\* two admins' writes may end as the type of one with the reason of the other.  The
\* one answer that needs nobody else to be untrue is that of a block on a user who is
\* muted, or of a mute on one who is blocked.
AnswersHold ==
    /\ \A t \in Table : settled[t] \in Ask => Keeps(settled[t]) \/ OtherEntry(settled[t])
    /\ \A n \in Request : pc[n] = "clash" => overtaken[n]


\* A notification marked read has been on a page, unless it was committed between the
\* SELECT and the UPDATE of a page, or a page had loaded more than it holds.  And
\* what has been on a page is read: it is not shown again, whatever else was under way.
ReadIsAccountedFor ==
    \A x \in Notification :
        /\ notification[x].old = "read" => x \in shown \cup passed
        /\ x \in shown => notification[x].old = "read"
=============================================================================
