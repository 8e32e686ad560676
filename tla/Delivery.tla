------------------------------- MODULE Delivery -------------------------------
(***************************************************************************)
(* The Celery tasks of app/tasks/delivery.py, fed by the requests of       *)
(* Recipes: deliver_to_followers fans an announcement out into one         *)
(* deliver_activity message per inbox; deliver_activity POSTs it, and      *)
(* retries.                                                                *)
(*                                                                         *)
(* A message is acknowledged when its task ends (task_acks_late), and put  *)
(* back on the queue when the worker is lost (task_reject_on_worker_lost). *)
(* The fan-out of request n is task n; a second run of it, after a crash,  *)
(* enqueues messages of its own.  Publishing the retry and acknowledging   *)
(* the message it replaces is one step.                                    *)
(***************************************************************************)
EXTENDS Sequences, Recipes

CONSTANTS Follower,    \* rows of the followers table
          InboxOf,     \* follower_inbox of each; instances share inboxes
          MaxCrashes,  \* bound: workers lost while they run a task
          MaxLost      \* bound: POSTs carried out whose answer does not arrive

ASSUME CrashesAssumption == MaxCrashes \in Nat
ASSUME LostAssumption == MaxLost \in Nat

Inbox == {InboxOf[f] : f \in Follower}
Run == 1..MaxCrashes + 1
Message == Request \X Follower \X Run

VARIABLES task,      \* where the fan-out of each request is
          run,       \* which run of it this is
          carried,   \* the lists in the article it has built
          audience,  \* the followers it has read
          message,   \* where each deliver_activity message is
          retries,   \* its self.request.retries
          received,  \* how often an inbox has been given the activity of a request
          crashes, lost

taskVars == <<task, run, carried, audience>>
messageVars == <<message, retries, received>>
deliveryVars == <<taskVars, messageVars, crashes, lost>>
vars == <<recipeVars, deliveryVars>>

RetryDelays == <<60, 300, 1800>>

TaskRunning == {"followers", "send"}

DeliveryTypeOK ==
    /\ task \in [Request -> {"queued", "done"} \cup TaskRunning]
    /\ run \in [Request -> Run]
    /\ carried \in [Request -> SUBSET Request]
    /\ audience \in [Request -> SUBSET Follower]
    /\ message \in [Message -> {"none", "queued", "done", "failed"}]
    /\ retries \in [Message -> 0..Len(RetryDelays)]
    /\ received \in [Request \X Inbox -> Nat]
    /\ crashes \in 0..MaxCrashes
    /\ lost \in 0..MaxLost

\* Types of the tables, the requests and the tasks they feed: only known activities are
\* enqueued, and no message is retried more often than there are delays.
SystemTypeOK == RecipeTypeOK /\ DeliveryTypeOK

DeliveryInit ==
    /\ task = [n \in Request |-> "queued"]
    /\ run = [n \in Request |-> 1]
    /\ carried = [n \in Request |-> {}]
    /\ audience = [n \in Request |-> {}]
    /\ message = [m \in Message |-> "none"]
    /\ retries = [m \in Message |-> 0]
    /\ received = [i \in Request \X Inbox |-> 0]
    /\ crashes = 0
    /\ lost = 0

(***************************************************************************)
(* deliver_to_followers                                                    *)
(***************************************************************************)
TaskTo(n, there) == task' = [task EXCEPT ![n] = there]

\* The recipe is read, whatever its status; one that is not there ends the task.
FanRead(n) ==
    /\ task[n] = "queued" /\ fanout[n] # "none"
    /\ IF recipe[on[n]].old = "absent"
       THEN TaskTo(n, "done") /\ UNCHANGED carried
       ELSE TaskTo(n, "followers") /\ carried' = [carried EXCEPT ![n] = Lists(on[n])]
    /\ UNCHANGED <<recipeVars, run, audience, messageVars, crashes, lost>>

\* Whoever follows the author by now.
FanFollowers(n) ==
    /\ task[n] = "followers"
    /\ \E F \in SUBSET Follower : audience' = [audience EXCEPT ![n] = F]
    /\ TaskTo(n, "send")
    /\ UNCHANGED <<recipeVars, run, carried, messageVars, crashes, lost>>

\* Mutant: one message per follower.
EveryFollower(F) == F

\* One follower for each inbox.
UniqueInboxes(F) == {CHOOSE f \in F : InboxOf[f] = i : i \in {InboxOf[f] : f \in F}}

FanSend(n, f) ==
    LET m == <<n, f, run[n]>> IN
    /\ task[n] = "send"
    /\ f \in UniqueInboxes(audience[n])
    /\ message[m] = "none"
    /\ message' = [message EXCEPT ![m] = "queued"]
    /\ UNCHANGED <<recipeVars, taskVars, retries, received, crashes, lost>>

FanEnd(n) ==
    /\ task[n] = "send"
    /\ \A f \in UniqueInboxes(audience[n]) : message[<<n, f, run[n]>>] # "none"
    /\ TaskTo(n, "done")
    /\ UNCHANGED <<recipeVars, run, carried, audience, messageVars, crashes, lost>>

(***************************************************************************)
(* deliver_activity: a POST, and what becomes of its message.              *)
(***************************************************************************)
\* The inbox has the activity, whether or not the worker learns it.
Give(m) == received' = [received EXCEPT ![<<m[1], InboxOf[m[2]]>>] = @ + 1]

MessageTo(m, there) == message' = [message EXCEPT ![m] = there]

\* The inbox answers 2xx or 409.
Delivered(m) ==
    /\ message[m] = "queued"
    /\ Give(m)
    /\ MessageTo(m, "done")
    /\ UNCHANGED <<recipeVars, taskVars, retries, crashes, lost>>

\* The inbox refuses, cannot be reached, or takes it and the answer is lost.
NotAccepted(m) ==
    /\ message[m] = "queued"
    /\ \/ UNCHANGED <<received, lost>>
       \/ lost < MaxLost /\ lost' = lost + 1 /\ Give(m)
    /\ UNCHANGED <<recipeVars, taskVars, crashes>>

\* Mutant: after the last delay the schedule starts again.
RetryForever(m) ==
    /\ NotAccepted(m)
    /\ retries' = [retries EXCEPT ![m] = IF @ < Len(RetryDelays) THEN @ + 1 ELSE 0]
    /\ UNCHANGED message

\* Mutant: max_retries is checked after the delay is looked up.
RetryOnceMore(m) ==
    /\ retries[m] <= Len(RetryDelays)
    /\ NotAccepted(m)
    /\ retries' = [retries EXCEPT ![m] = @ + 1]
    /\ UNCHANGED message

Retry(m) ==
    /\ retries[m] < Len(RetryDelays)
    /\ NotAccepted(m)
    /\ retries' = [retries EXCEPT ![m] = @ + 1]
    /\ UNCHANGED message

\* RETRY_DELAYS has no fourth element: the IndexError ends the task.
GiveUp(m) ==
    /\ retries[m] = Len(RetryDelays)
    /\ NotAccepted(m)
    /\ MessageTo(m, "failed")
    /\ UNCHANGED retries

(***************************************************************************)
(* A worker is lost.                                                       *)
(***************************************************************************)
\* Mutant: task_acks_late = False.
LoseTask(n) ==
    /\ task[n] \in TaskRunning
    /\ crashes < MaxCrashes
    /\ crashes' = crashes + 1
    /\ TaskTo(n, "done")
    /\ UNCHANGED <<recipeVars, run, carried, audience, messageVars, lost>>

CrashTask(n) ==
    /\ task[n] \in TaskRunning
    /\ crashes < MaxCrashes
    /\ crashes' = crashes + 1
    /\ TaskTo(n, "queued")
    /\ run' = [run EXCEPT ![n] = @ + 1]
    /\ UNCHANGED <<recipeVars, carried, audience, messageVars, lost>>

\* Before the POST or after it: the message is delivered again.
CrashDelivery(m) ==
    /\ message[m] = "queued"
    /\ crashes < MaxCrashes
    /\ crashes' = crashes + 1
    /\ UNCHANGED received \/ Give(m)
    /\ UNCHANGED <<recipeVars, taskVars, message, retries, lost>>

TaskStep(n) == FanRead(n) \/ FanFollowers(n) \/ (\E f \in Follower : FanSend(n, f)) \/ FanEnd(n)

MessageStep(m) == Delivered(m) \/ Retry(m) \/ GiveUp(m)

TasksEnded ==
    /\ \A n \in Request : fanout[n] # "none" => task[n] = "done"
    /\ \A m \in Message : message[m] \in {"none", "done", "failed"}

Init == RecipeInit /\ DeliveryInit

Next ==
    \/ RecipeNext /\ UNCHANGED deliveryVars
    \/ \E n \in Request : TaskStep(n) \/ CrashTask(n)
    \/ \E m \in Message : MessageStep(m) \/ CrashDelivery(m)
    \/ RecipesEnded /\ TasksEnded /\ UNCHANGED vars

\* The handlers' steps are the event loop's; a worker takes every message that
\* waits, and a retry when its countdown is over.
Fairness ==
    /\ \A n \in Request : WF_vars(RecipeStep(n) /\ UNCHANGED deliveryVars)
    /\ \A n \in Request : WF_vars(TaskStep(n))
    /\ \A m \in Message : WF_vars(MessageStep(m))

Spec == Init /\ [][Next]_vars /\ Fairness

(***************************************************************************)
(* Properties                                                              *)
(***************************************************************************)
\* No follower is left out: when a fan-out is over, each inbox that followed
\* when it was read has a message of its own, also if a worker was lost half way.
FanOutComplete ==
    \A n \in Request : task[n] = "done" =>
        \A f \in audience[n] : \E m \in Message :
            m[1] = n /\ InboxOf[m[2]] = InboxOf[f] /\ message[m] # "none"

\* An inbox is given one activity more than once only if a worker was lost or an
\* answer was: neither retries nor followers who share the inbox repeat it.
RepeatsExplained ==
    \A i \in Request \X Inbox : received[i] <= 1 + crashes + lost

\* Every announcement comes to an end: delivered to each inbox or given up.
AnnouncementsEnd == []<>TasksEnded
=============================================================================
