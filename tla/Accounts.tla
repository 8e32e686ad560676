------------------------------ MODULE Accounts -------------------------------
(***************************************************************************)
(* Accounts of the instance: registration through the API (routers/auth.py)*)
(* and through the form (routers/frontend_auth.py), the link that confirms *)
(* the address (email.py, a key in Redis), login, the check of the account *)
(* behind every request of a user, ban and unban (routers/moderation.py).  *)
(*                                                                         *)
(* An account is named after the request that inserts it; account First    *)
(* was made before.  A name stands for the username and the address taken  *)
(* together: both are unique, and both are looked up by one SELECT.        *)
(* Redis takes part in no transaction: a key that is set or deleted stays  *)
(* so whatever becomes of the request.                                     *)
(***************************************************************************)
EXTENDS Integers, RowVersions

CONSTANTS Name,         \* usernames
          MaxRequests,  \* bound: HTTP requests
          MaxFaults     \* bound: transactions that die

ASSUME NameAssumption == "none" \notin Name  \* which is what stands for no row
ASSUME RequestsAssumption == MaxRequests \in Nat \ {0}
ASSUME FaultsAssumption == MaxFaults \in Nat

Request == 1..MaxRequests
First == 0
Account == Request \cup {First}
NoAccount == MaxRequests + 1
Never == 0

Gone == [name |-> "none", active |-> FALSE]
User == [name : Name, active : BOOLEAN]

Ask == [kind : {"register"}, via : {"form", "api"}, name : Name]
       \cup [kind : {"verify", "ban", "unban", "act"}, who : Account]
       \cup [kind : {"login"}, name : Name]
Nothing == << >>

VARIABLES account,  \* the rows of users
          link,     \* the confirmation link of each account, as Redis has it
          token,    \* accounts somebody holds a signed token of
          pc,       \* where each request is
          ask,      \* what it asks for
          was,      \* is_active as its SELECT has read it
          arrived, faults,
          banned,   \* history: how many requests had come when the account was banned
          open,     \* history: that ban left a way back in
          missed    \* history: the account's link was spent on nothing

local == <<ask, was>>
bounds == <<arrived, faults>>
history == <<banned, open, missed>>
vars == <<account, link, token, pc, local, bounds, history>>

\* A request that has got the account's identity out of Redis: the link has been
\* followed.
Following == {"delete", "read", "write", "commit"}
Running == {"get", "insert", "link", "work"} \cup Following
Ended == {"done", "failed"}

AccountsTypeOK ==
    /\ account \in [Account -> Versions(User \cup {Gone}, Request)]
    /\ link \in [Account -> {"none", "live", "used", "expired"}]
    /\ token \subseteq Account
    /\ pc \in [Request -> {"idle"} \cup Running \cup Ended]
    /\ ask \in [Request -> Ask \cup {Nothing}]
    /\ was \in [Request -> BOOLEAN]
    /\ arrived \in 0..MaxRequests
    /\ faults \in 0..MaxFaults
    /\ banned \in [Account -> 0..MaxRequests]
    /\ open \in [Account -> BOOLEAN]
    /\ missed \in [Account -> BOOLEAN]

\* First came through the API, or through the form and has followed its link, or
\* has the link still to follow.
Init ==
    /\ \E name \in Name, l \in {"none", "live", "used"} :
          /\ account = [a \in Account |->
                          Committed(IF a = First THEN [name |-> name, active |-> l # "live"] ELSE Gone)]
          /\ link = [a \in Account |-> IF a = First THEN l ELSE "none"]
          /\ token \in SUBSET (IF l = "live" THEN {} ELSE {First})
    /\ pc = [n \in Request |-> "idle"]
    /\ ask = [n \in Request |-> Nothing]
    /\ was = [n \in Request |-> FALSE]
    /\ arrived = 0
    /\ faults = 0
    /\ banned = [a \in Account |-> Never]
    /\ open = [a \in Account |-> FALSE]
    /\ missed = [a \in Account |-> FALSE]

(***************************************************************************)
(* Requests and transactions                                               *)
(***************************************************************************)
Goto(n, there) == pc' = [pc EXCEPT ![n] = there]

End(n, there) ==
    /\ Goto(n, there)
    /\ ask' = [ask EXCEPT ![n] = Nothing]
    /\ was' = [was EXCEPT ![n] = FALSE]

Rollback(n) ==
    /\ account' = RollbackRows(account, n)
    /\ End(n, "failed")

There(a) == account[a].old # Gone
Kind(n) == ask[n].kind

\* Identities and links are random: nobody asks for those of an account to come.
Arrive(n, a) ==
    /\ n = arrived + 1
    /\ a.kind \in {"verify", "ban", "unban"} => a.who < n
    /\ a.kind = "act" => a.who \in token
    /\ arrived' = n
    /\ ask' = [ask EXCEPT ![n] = a]
    /\ Goto(n, IF a.kind = "verify" THEN "get" ELSE "read")
    /\ UNCHANGED <<account, link, token, was, faults, history>>

(***************************************************************************)
(* register, register_submit                                               *)
(***************************************************************************)
Taken(name) == \E a \in Account : account[a].old.name = name

\* Closed registrations, a name that will not do and a name that is taken end here.
RegisterRead(n) ==
    /\ pc[n] = "read" /\ Kind(n) = "register"
    /\ UNCHANGED <<link, token, bounds, history>>
    /\ \/ Rollback(n)
       \/ ~Taken(ask[n].name) /\ Goto(n, "insert") /\ UNCHANGED <<account, local>>

\* An account made through the API is active at once.  The unique index waits for
\* another registration of the name, and fails if that one commits.
Insert(n) ==
    /\ pc[n] = "insert"
    /\ \A a \in Account : account[a].new.name = ask[n].name => account[a].by = Nobody
    /\ UNCHANGED <<link, token, bounds, history>>
    /\ IF Taken(ask[n].name)
       THEN Rollback(n)
       ELSE /\ account' = Write(account, n, [name |-> ask[n].name, active |-> ask[n].via = "api"], n)
            /\ Goto(n, IF ask[n].via = "api" THEN "commit" ELSE "link")
            /\ UNCHANGED local

\* The link is stored and sent before the account is committed.  A mail that cannot
\* be sent is only logged: such a link is one that nobody follows.
Link(n) ==
    /\ pc[n] = "link"
    /\ UNCHANGED <<token, bounds, history>>
    /\ \/ Rollback(n) /\ UNCHANGED link
       \/ /\ link' = [link EXCEPT ![n] = "live"]
          /\ Goto(n, "commit")
          /\ UNCHANGED <<account, local>>

(***************************************************************************)
(* verify_email                                                            *)
(***************************************************************************)
\* Mutant: a token that has been used is good again.
VerifyGetAgain(n) ==
    /\ pc[n] = "get"
    /\ IF link[ask[n].who] \in {"live", "used"}
       THEN Goto(n, "delete") /\ UNCHANGED local
       ELSE End(n, "done")
    /\ UNCHANGED <<account, link, token, bounds, history>>

VerifyGet(n) ==
    /\ pc[n] = "get"
    /\ IF link[ask[n].who] = "live"
       THEN Goto(n, "delete") /\ UNCHANGED local
       ELSE End(n, "done")
    /\ UNCHANGED <<account, link, token, bounds, history>>

\* Mutant: the key is emptied, not deleted.
VerifyEmpty(n) ==
    /\ pc[n] = "delete"
    /\ link' = [link EXCEPT ![ask[n].who] = "empty"]
    /\ Goto(n, "read")
    /\ UNCHANGED <<account, token, local, bounds, history>>

\* By now another request may have deleted it too, or it has run out.
VerifyDelete(n) ==
    /\ pc[n] = "delete"
    /\ link' = [link EXCEPT ![ask[n].who] = "used"]
    /\ Goto(n, "read")
    /\ UNCHANGED <<account, token, local, bounds, history>>

\* No account is a 404, an active one is sent on to the login page.
VerifyRead(n) ==
    LET a == ask[n].who IN
    /\ pc[n] = "read" /\ Kind(n) = "verify"
    /\ UNCHANGED <<link, token, bounds, banned, open>>
    /\ IF There(a) /\ ~account[a].old.active
       THEN Goto(n, "write") /\ UNCHANGED <<account, local, missed>>
       ELSE /\ missed' = [missed EXCEPT ![a] = @ \/ ~There(a)]
            /\ End(n, "done")
            /\ UNCHANGED account

(***************************************************************************)
(* ban_user, unban_user                                                    *)
(***************************************************************************)
\* No account is a 404, whoever is no admin is refused, and so is the ban of one.
DecideRead(n) ==
    LET a == ask[n].who IN
    /\ pc[n] = "read" /\ Kind(n) \in {"ban", "unban"}
    /\ UNCHANGED <<link, token, bounds, history>>
    /\ \/ Rollback(n)
       \/ /\ There(a)
          /\ was' = [was EXCEPT ![n] = account[a].old.active]
          /\ Goto(n, IF account[a].old.active = (Kind(n) = "unban") THEN "commit" ELSE "write")
          /\ UNCHANGED <<account, ask>>

\* Mutant: verify_email writes nothing.
ActivateNot(n) ==
    /\ pc[n] = "write"
    /\ account' = IF Kind(n) = "verify" THEN account
                  ELSE Write(account, ask[n].who, [account[ask[n].who].new EXCEPT !.active = Kind(n) # "ban"], n)
    /\ Goto(n, "commit")
    /\ UNCHANGED <<link, token, local, bounds, history>>

\* verify_email, ban_user and unban_user set is_active, if they have read the other.
SetActive(n) ==
    LET a == ask[n].who IN
    /\ pc[n] = "write"
    /\ MayWrite(account, a, n)
    /\ account' = Write(account, a, [account[a].new EXCEPT !.active = Kind(n) # "ban"], n)
    /\ Goto(n, "commit")
    /\ UNCHANGED <<link, token, local, bounds, history>>

(***************************************************************************)
(* login, login_submit, get_current_user                                   *)
(***************************************************************************)
\* One SELECT, then the answer; a token is signed and kept nowhere.
Login(n) ==
    /\ pc[n] = "read" /\ Kind(n) = "login"
    /\ UNCHANGED <<account, link, bounds, history>>
    /\ \/ End(n, "failed") /\ UNCHANGED token
       \/ \E a \in Account :
            /\ There(a) /\ account[a].old.name = ask[n].name /\ account[a].old.active
            /\ token' = token \cup {a}
            /\ End(n, "done")

\* What is behind the check is not this module's: a request that has passed it is
\* at work, until it commits.
Check(n) ==
    /\ pc[n] = "read" /\ Kind(n) = "act"
    /\ IF account[ask[n].who].old.active
       THEN Goto(n, "work") /\ UNCHANGED <<account, local>>
       ELSE Rollback(n)
    /\ UNCHANGED <<link, token, bounds, history>>

Work(n) ==
    /\ pc[n] = "work"
    /\ Goto(n, "commit")
    /\ UNCHANGED <<account, link, token, local, bounds, history>>

(***************************************************************************)
(* get_db                                                                  *)
(***************************************************************************)
\* Another request has followed the account's link and not come to an end.
Followed(a, n) ==
    \E m \in Request \ {n} : pc[m] \in Following /\ Kind(m) = "verify" /\ ask[m].who = a

\* A ban that has read the account inactive writes nothing.  The way back in is a
\* link not yet followed to its end, or that somebody was let in since that SELECT.
WayBack(a, n) ==
    \/ link[a] = "live"
    \/ Followed(a, n)
    \/ account[a].old.active /\ ~was[n]

Commit(n) ==
    /\ pc[n] = "commit"
    /\ account' = CommitRows(account, n)
    /\ CASE Kind(n) = "ban" ->
              /\ banned' = [banned EXCEPT ![ask[n].who] = arrived]
              /\ open' = [open EXCEPT ![ask[n].who] = WayBack(ask[n].who, n)]
         [] Kind(n) = "unban" /\ account[ask[n].who].by = n ->
              /\ banned' = [banned EXCEPT ![ask[n].who] = Never]
              /\ UNCHANGED open
         [] OTHER -> UNCHANGED <<banned, open>>
    /\ End(n, "done")
    /\ UNCHANGED <<link, token, bounds, missed>>

\* An error, or the connection is lost.
Die(n) ==
    /\ pc[n] \in Running
    /\ faults < MaxFaults
    /\ faults' = faults + 1
    /\ missed' = IF Kind(n) = "verify" /\ pc[n] \in Following \ {"delete"}
                 THEN [missed EXCEPT ![ask[n].who] = TRUE] ELSE missed
    /\ Rollback(n)
    /\ UNCHANGED <<link, token, arrived, banned, open>>

(***************************************************************************)
(* Redis                                                                   *)
(***************************************************************************)
\* Two hours after it was sent.
Expire(a) ==
    /\ link[a] = "live"
    /\ link' = [link EXCEPT ![a] = "expired"]
    /\ UNCHANGED <<account, token, pc, local, bounds, history>>

Quiescent ==
    /\ arrived = MaxRequests
    /\ \A n \in Request : pc[n] \in Ended
    /\ UNCHANGED vars

Next ==
    \/ \E n \in Request :
        \/ \E a \in Ask : Arrive(n, a)
        \/ RegisterRead(n) \/ Insert(n) \/ Link(n)
        \/ VerifyGet(n) \/ VerifyDelete(n) \/ VerifyRead(n)
        \/ DecideRead(n) \/ SetActive(n)
        \/ Login(n) \/ Check(n) \/ Work(n)
        \/ Commit(n) \/ Die(n)
    \/ \E a \in Account : Expire(a)
    \/ Quiescent

Spec == Init /\ [][Next]_vars

(***************************************************************************)
(* Properties                                                              *)
(***************************************************************************)
\* A ban that is answered holds until an unban: the account stays inactive, and no
\* request that comes later gets past the check with a token signed before.  The one
\* way back in is a confirmation link that was not followed to its end when the ban
\* was committed: is_active does not tell who is banned from who is not confirmed.
BanHolds ==
    \A a \in Account : banned[a] # Never /\ ~open[a] =>
        /\ ~account[a].old.active
        /\ \A n \in Request :
              pc[n] = "work" /\ ask[n].who = a => n <= banned[a]

\* A link that has been followed has activated its account, unless the request died
\* on the way or came before the account was committed: then the link is spent, the
\* account stays inactive, and its name stays taken.
FollowedLinkActivates ==
    \A a \in Account :
        /\ link[a] = "used" /\ There(a) /\ banned[a] = Never
        /\ ~\E n \in Request : pc[n] \in Following /\ Kind(n) = "verify" /\ ask[n].who = a
        => account[a].old.active \/ missed[a]
=============================================================================
