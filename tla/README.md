# Pasticcio in TLA+

Pasticcio is a federated recipe server: a FastAPI application over PostgreSQL,
with Redis for counters, tokens and the Celery queue, and ActivityPub between
instances. This directory specifies the parts of it where requests, transactions,
background tasks and other servers overlap. TLC checks the specifications on
small instances; TLAPS proves the theorems for every value of the constants.
Paths are relative to the root of the repository.

    tlc -workers 2 -config FollowRequests.cfg MCFollowRequests
    tlapm FollowRequestsProofs.tla
    tlapm InboxProofs.tla
    tlapm LimitsProofs.tla
    tlapm AccountsProofs.tla
    tlapm DeliveryProofs.tla
    tlapm CommentsProofs.tla
    tlapm MembersProofs.tla
    tlapm RecipePartsProofs.tla

## The system

| Component | State | Operations | What is hard |
|---|---|---|---|
| Sessions (`app/database.py`) | one transaction per request, pool of 15 | commit after the handler, rollback on any exception | everything read before another commit is stale when used |
| Follow requests (`routers/follow.py`) | `follow_requests`, `followers` | follow, unfollow, accept, reject | stale reads, swallowed constraint errors, an HTTP call to itself inside a transaction |
| Inbox (`routers/activitypub.py`) | `followers`, `reactions`, `cooked_this`, `follow_requests` | Follow, Undo, Accept, Like, Announce, Create, Update, Delete; shared inbox | duplicated and reordered activities, rollback inside a handler |
| Recipes (`routers/recipes.py`, `recipe_form.py`, `recipe_edit.py`, `recipe_fork.py`) | `recipes`, `recipe_ingredients`, `recipe_translations` | create, edit, publish, delete, fork | blind writes of a status read earlier; replacing rows read earlier |
| Delivery (`tasks/delivery.py`, `worker.py`) | Celery messages | fan-out, POST, retry | enqueued before the commit; at-least-once tasks; give-up |
| Comments (`routers/comments*.py`) | `cooked_this` | comment, moderate, Create, Update and Delete of a note, fan-out | notes repeated or overlapping, threads deleted while they grow, what waits for approval |
| Notifications (`routers/dashboard.py`) | `notifications` | create, list and mark read, count | arrivals between the SELECT and the UPDATE; more unread than a page holds |
| Rate limits (`ap/ratelimit.py`, `middleware.py`) | Redis counters | count, expire | two calls for one intent; Redis failing; an activity counted twice |
| Known instances (`ap/instances.py`, `tasks/instances.py`) | `known_instances` | record, NodeInfo check | two first activities of one domain |
| Moderation (`routers/moderation.py`, `bookmark_form.py`, `ap/federation.py`) | `user_blocks`, `instance_rules`, `bookmarks` | block, mute, rules, ban, bookmark | one constraint for two meanings |
| Accounts (`routers/auth.py`, `frontend_auth.py`, `email.py`) | `users`, Redis tokens | register, verify, log in, ban | token consumed before the commit; `is_active` with two meanings |
| Translations (`routers/translations.py`) | `recipe_translations` | save, review, delete | single columns written over a row read earlier |
| Photos (`routers/photos.py`, `recipe_edit.py`) | `recipe_photos`, files under `MEDIA_ROOT` | upload, update, delete, replace the cover | one cover without a constraint; a disk that does not roll back |
| Nutrition (`services/nutrition_calculator.py`, `routers/nutrition.py`, `food_items.py`) | `recipe_nutrition`, links of ingredients to foods | calculate, link, unlink | a cache nothing invalidates |
| Signatures, builders, serializers, search, pages, configuration | none | | not modelled: cryptography, formatting, reads |

Components meet through the database (shared tables), through Celery messages
(recipes and comments to delivery), and through HTTP (delivery and accept to
inboxes, this instance's own included). `PROJECT.json` lists for each component
what is modelled, and under `hazards` what can go wrong at which line.

## Modules

| Module | Models |
|---|---|
| `RowVersions` | what the handlers rely on of PostgreSQL: committed and uncommitted version of each row, and the lock of the transaction that wrote it |
| `FollowRequests` | the follow handlers and the inbox's Accept branch, one action per statement that other requests can notice |
| `FollowLifecycle` | the abstract specification: what the follow tables go through, seen at commits |
| `FollowRequestsProofs` | type correctness and the lock order of `FollowRequests`, and what its inductive invariant says of commits, of `FollowLifecycle` and of the Accept |
| `KnownInstances` | `record_instance` at the top of the inbox, and the NodeInfo task a new domain starts |
| `Inbox` | extends it by the inbox's Follow, Like, Announce and the Undo of each |
| `InboxProofs` | type correctness, the lock on a domain's row, and what follows from it for the rows of followers and reactions |
| `Comments` | the thread of one recipe: local comments, moderation, notes of other servers, and the comment fan-out |
| `CommentsProofs` | that notes are stored once, that edits, decisions and deletions do not undo each other, and that no reply outlives its parent |
| `Recipes` | create, edit, publish, delete and fork of recipes, with the announcement each enqueues |
| `RecipeLife` | the abstract specification of `Recipes`: what a recipe's status and lists go through, seen at commits |
| `Delivery` | extends `Recipes` by the Celery tasks that carry announcements to inboxes |
| `DeliveryProofs` | what a recipe's status and lists can become, that the handlers implement `RecipeLife`, that a fan-out leaves out no follower, how often an inbox can be given one activity |
| `Accounts` | registration, the confirmation link in Redis, login, the check behind every request, ban and unban |
| `AccountsProofs` | that bans hold, and that links followed to their end activate, for every set of names and every bound |
| `Members` | blocks and mutes, bookmarks, instance rules, the notifications page |
| `MembersProofs` | what it takes to make an answer untrue, and that what was marked read is accounted for |
| `Limits` | the counters in front of every request and of the two inboxes |
| `LimitsProofs` | what the counters hold, and that the limits are kept, for every limit and bound |
| `RecipeRequests` | what requests about the parts of a recipe share: arrival, reading, the end of the transaction |
| `Translations`, `Photos`, `Nutrition` | one such part each, extending `RecipeRequests` |
| `RecipeParts` | the three as INSTANCEs, one of them in use in a behaviour |
| `RecipePartsProofs` | what it takes for two covers, for a file without its row and for columns that do not belong together, for every set of texts, foods and servings and every bound |
| `MC...` | the instances TLC checks |

### How a handler becomes actions

`get_db` opens one transaction per request and commits it after the handler
returns. PostgreSQL runs at READ COMMITTED: a statement reads what is committed
when it starts, and a write to a row another transaction has written waits for
that transaction. `RowVersions` keeps `old` (what others read), `new` (what the
holder wrote) and `by` (the holder). A SELECT reads `old`; an UPDATE, INSERT or
DELETE is guarded by `MayWrite`; `Commit` and `Rollback` settle all rows of a
transaction. Each handler is a program counter `pc[n]` that goes from statement
to statement, and what it read stays in variables of its own (`seen`, `was`,
`read`), so that other requests can overtake it. Requests whose first SELECT
ends them (wrong user, nothing pending, already following) change nothing and
are stuttering.

A process crash, a lost connection or an unexpected exception is `Die`: the
transaction is rolled back at any step. SQLAlchemy details that decide an
outcome are actions or branches: an UPDATE of a row that is gone raises
(`SetStatus`), a DELETE of it only warns; autoflush sends a pending DELETE before
the next SELECT; a rollback expires loaded objects, so that `_deliver_ap` fails
on an expired user (`AcceptExpired`).

### FollowRequests

`request[p]` is the row of the pair requester-followee (`uq_follow_request_pending`
allows one whatever its status), with the identity of the request that inserted
it; `follower[p]` says whether the followers row exists. `notified` is a history
variable: the follow requests whose notification is committed. Accepting POSTs
an Accept to the requester's inbox, which is on this instance: request `n` starts
the transaction `Inbox(n)` and waits for it in `accept_await`, holding its locks.
The inbox looks its request up (`InboxLookup`), and by the requester alone if
that fails (`InboxFallback`). Left out: following across instances, the row of
`known_instances` that every inbox request touches (it can only delay the inbox,
which may be delayed at will), and the limit of the connection pool.

### KnownInstances and Inbox

`known[d]` is the row of a server in `known_instances`: absent, seen, or checked
once NodeInfo has told its software. Each delivered activity is a request `n`
that first records its domain in its own transaction, so that row stays locked
until the request ends; its NodeInfo task is the transaction `Checker(n)`. A
failed flush whose error `record_instance` swallows leaves the session unusable
(`poisoned`). `row[k]` is a row of followers or of reactions: `k` names the sender,
the kind and the target, the value is the identity of the activity that made it.
`message[n]` does something, or undoes an activity that it names (`of`) and says what
it was about; `found[n]` is what an Undo has read before it deletes. Two rules say
which row that is: `LookedUp` is the handler's, by actor and type, and `Names` the one
`models/reaction.py` documents, by the identity of the activity. `due` is a history
variable that serves the activities by the documented rule, and `crossed` the reactions
an Undo of another has been looked up over. The Accept of a Follow is POSTed inside the
transaction (`accept`). A refusal by policy (`is_federation_allowed`, a read), actor
fetch or signature is one action. Left out: activities that touch none of these rows,
and the rate limit at the door (an activity it refuses is one that never came).

### Comments

`comment[c]` is the row of `cooked_this` that request `c` inserts, or that was
there before (`Earlier`); `note[c]` says whose note it is and `parent[c]` what it
replies to. What comes from the inbox takes the row of its server in
`known_instances` first (`Record`), as in `KnownInstances`; here the servers are
known already, and a note's identity belongs to the server that sends it, which the
handler does not verify (`activitypub.py:508-529`). Local comments come through the API or the form, which differ in
what they do with a parent that is not there (`CommentRead`). SQLAlchemy writes
only attributes that change: a moderation writes the status and an Update the
text, each onto the row as it then is, and nothing at all when the value is the
one read (`WriteNothing`). `Delete` takes the replies below a comment with it. A
notification that cannot be stored has rolled the comment back (`NotifyFails`).
`told` and `verdict` are history variables: what a note's server has last said,
and the status each comment was last given. Left out: photos of comments, notes
without an identity, the deletion of the recipe, `Update` and `Delete` of an Article.

### Recipes and Delivery

`recipe[r]` is the status of a recipe, `list[n]` the ingredient rows request `n`
wrote. Whatever else a request writes moves with its list. `was` and `read` are
what the handler loaded first, `announce` what it decided to enqueue, `fanout`
what it did enqueue - before the commit. `Delivery` takes it from there: the
fan-out reads the recipe (whatever its status), then the followers, then enqueues
one message per distinct inbox; a message is POSTed up to four times. A lost
worker puts its message back: a fan-out starts over under a new `run` number, a
delivery keeps its retry count. A task's retry and the acknowledgement of the
message it replaces are one step. The set of followers is any set at each read:
it belongs to the follow component. Slugs (a concurrent create of the same
title fails by the unique constraint: `Die`) and the text of recipes are left out.

### Accounts

An account is named after the request that inserts it. `account[a]` is its row: a
name and `is_active`. `link[a]` is the confirmation key in Redis, which takes part
in no transaction: what `VerifyDelete` removes stays removed if the request dies.
Requests that verify go through GET, DELETE, SELECT and UPDATE one by one, as
`verify_email` and its caller do; the link of a new account is stored and mailed
before the account is committed (`Link`). A token is signed and kept nowhere, so
`token` only remembers who has one; `Check` is `get_current_user`, and what a
request does behind it is `Work`. `banned`, `open` and `missed` are history
variables: when an account was banned, whether that ban left a way back in, and
whether the account's link was spent on nothing. A username and an address are
taken as one name: one SELECT looks for both.

### Members

One pair of users, one recipe and one domain: `user_block`, `bookmark` and `rule`
are single rows, `notification[x]` the row a request or an earlier one has made.
`overtaken[n]` remembers that the row was changed after request `n` had looked at it,
`settled` the last answer about a row; `shown` is what pages have shown, `late[n]` what was
committed between the two statements of page `n`, and `passed` that and what was more than a
page holds. None of them looks at what a page marks. The UPDATE of the page goes by
what is committed when it begins (`PageAim`) and then waits for rows another page is
marking (`PageMark`). The pair is unique whatever the
type, so `BlockInsert` leaves a mute where it answers that the user is blocked.
`Changed` writes the columns of a rule that differ from what was read; a rule that is as
asked is still written if another admin made it, for `created_by_id` (`RuleRead`), and a
translation likewise (`Onward`).
Nothing in the code enforces a block: `user_blocks` is written and listed, and
neither the inbox nor follow or comment handlers look at it.

### Limits

`Checks` lists the counters each kind of request passes in order. The middleware
counts a signed-in user's calls by user and other requests by address; the
personal inbox counts by IP and by domain; the shared inbox does so too and then
calls the personal inbox's function, which counts again - but not through the middleware.
`Incr` and `Expire` are the two calls to Redis; a failure of Redis lets the request
pass (`RedisFails`), having done the call or not (`HalfDone`). The window is the
life of the key: a fixed window from its first request, where the comment of
`middleware.py` speaks of a sliding one. `let`, `lapsed`, `stuck` and `spared` are history
variables.

### Translations, Photos, Nutrition

Each request reads, then writes what it has decided (`old[n]`). In
`Translations` the recipe's translations are loaded with the recipe, and the
SELECT of the single one afterwards returns that loaded object, columns as they were
(`Found`). In `Photos` the file is written before the row and removed before it. The
UPDATE that demotes covers goes by those that are committed when it begins (`Aim`), waits
for their holders and demotes those that still are covers (`Demote`): one that has been
committed while it waited is none of its rows. The edit form deletes the rows of the covers it read and leaves their files. In
`Nutrition` a total is the set of linked foods, and the facts per serving are the
pair it was divided from (`PerServing`; of no food there is nothing to divide), so that
columns of different calculations can be told apart. Facts that are there are answered as they are: neither an edit, which drops
all links, nor a link invalidates them, and the servings a caller names are
kept for everybody. Histories: `before[n]`, the requests that were over when `n` came, from which `Overlap` is
defined; `wrote`, who has last set each column; `maker`, who has made each photo the cover;
`adrift`, photos a request has left behind; `calc` and `relinked`, the last saved
calculation and the requests that changed the ingredients; `vetted`, the texts a review
has read or the author has saved as reviewed. What the page showed when the author pressed
Review may have been an older text: the handler is not told.
`app/services/unit_converter.py` is imported by nothing.

## What is checked

| Run | Shows |
|---|---|
| `follow` | the invariants, action properties, refinement and liveness of `FollowRequests` |
| `follow_accepted` | *violated*: an accepted request has a follower row |
| `inbox` | one activity of a domain at a time, rows as serving them in order leaves them, NodeInfo kept, everything ends |
| `inbox_first` | *violated*: an error of `record_instance` does not block the activity |
| `inbox_undo` | *violated*: an Undo takes back the activity it names |
| `comments` | stored notes, edits, decisions and threads under overlapping requests; everything ends |
| `recipes` | status, announcements and ingredient lists of one recipe under overlapping requests; each takes effect at once (refinement of `RecipeLife`) |
| `delivery` | fan-out and retries under crashes and lost answers |
| `accounts` | what a ban and a followed link are good for, however requests and Redis overlap |
| `members` | answers about blocks, bookmarks and rules hold unless the row changed behind the request's back; what is read was shown, or came late, or was too much for the page |
| `limits` | no window lets more pass than it allows; counters run out |
| `recipe_parts` | covers, files with their rows, and rows whose columns belong together |

A violated run states what a comment or docstring of the code says; `PROJECT.json`
quotes it with its line under `findings`. `inbox_undo` and `ServedInOrder` are about the
same rows: the passing property says how far the code keeps the promise, the violated one that
it does not keep all of it. Other passing properties carry exceptions of that kind, each
stated exactly and each reached by its run; *Where the code falls short* lists them.

FollowRequests:

- `LockOrder`: rows of followers are locked before rows of follow_requests, and a
  transaction that holds a request row asks for nothing more; so the database
  never deadlocks.
- `OwnAcceptNotServed`: the Accept a handler sends to its own instance cannot be
  answered with success while the handler waits. The code always ends this
  through the 10 second timer, a refusal or a failure.
- `FollowerOnlyByConsent`, `RowsOnlyWithdrawn`: where followers come from and
  where request rows go, whatever overlapped.
- `FollowsLifecycle`: refinement of `FollowLifecycle`; accepting is atomic.
- `RequestsEnd`: no request or lock outlives the timer.

The lifecycle is deliberately as weak as the code: a followers row can outlive
its request (unfollow overlapping accept), and a request can be rejected while
its followers row stays (accept and reject overlapping). `FollowLifecycle` says
so in `Refuse` and `Withdraw`.

Inbox: no handler locks what it reads, yet `ServedInOrder` holds: nothing is stored that
is not due by the documented rule, served one activity after another in the order of the
commits, and nothing due is missing unless an Undo that names another activity has crossed
it. That exception is `inbox_undo`: with one like stored, an Undo of another takes it
(`UndoMatchesItsActivity`); with two, the Undo fails. It is the timestamp
`record_instance` writes that keeps the rest in order (`ServedAlone`): without that UPDATE
activities of one domain are served side by side. The price is `ActivitiesEnd` and its 10 second timer: all activities of a
domain wait for one that waits for the domain's own server. `InfoIsKept`: a
handler that read the row before NodeInfo was written does not blank it.

Comments: `NoteStoredOnce` and `SaysWhatItsServerSaid` hold by the same row of
`known_instances`, although the handlers look for a note and write it later without
a lock: a duplicate from the note's own server is never stopped by the unique constraint of
`ap_id`. Another server that sends a note with the same identity is not in the model.
`DecisionsHold` depends on the ORM writing single attributes; a moderator whose
decision is the status they read writes nothing, and an overlapping opposite one
stands. `RepliesHaveParents` needs the cascade and the foreign key's lock together.
`OnlyCommittedIsSent` is all that holds of the fan-out: it may miss a comment that
is not committed yet, and it looks at no status.

Recipes: `DeletedStaysDeleted` and `DeletionAnnounced` hold with the one exception
each names (a handler that had read the draft). Two overlapping edits each replace the
rows they have read and leave both lists; `DoubledOnlyByOverlap` says that nothing
else does. `FollowsLife`: although a handler writes in several flushes and anything may
overlap or die between them, what is committed is the whole of one request: a new recipe with its list, an
edit with its status and its list, or a deletion that touches neither list nor anything
else. `RecipeLife` is as weak as the code where that is needed: `Save` may leave lists its
request has not read, and may publish a recipe deleted meanwhile. Delivery: `FanOutComplete` (nobody left out by a
crash), `RepeatsExplained` (duplicates only from crashes and lost answers),
`AnnouncementsEnd`. The comment at the top of `delivery.py` speaks of 3 attempts;
the code makes four POSTs, the last failure leaving by an `IndexError`. An announcement
that a worker takes before the commit finds no recipe and is dropped for good;
`AnnouncementsEnd` promises an end, not an arrival.

Accounts: `BanHolds` says exactly when a ban can be undone without an unban.
`is_active` is false for who has not confirmed the address and for who is banned,
so a link not yet followed to its end when the ban commits lets the banned account
back in, and a ban that has read the account inactive writes nothing. A request that passed
the check before goes on. `FollowedLinkActivates`: a link is spent on an account
exactly if it activates it, but for a request that dies after the DELETE in Redis or comes
before the account is committed; the name then stays taken by an account nobody can activate.

Members: `AnswersHold` relates answers to rows. To make an answer untrue, or to run into a
constraint, another request must have changed the row after this one had looked at it - one
admin's rule type with the reason of the other, a bookmark inserted twice. The exception it
names needs nobody else: a block of who is muted is answered and not made. `ReadIsAccountedFor`: a notification marked read has been on a page, was
committed between a page's SELECT and its UPDATE or was beyond the page's limit; and what
was on a page is read.

Limits: `LimitHolds` for every interleaving of INCR and EXPIRE; an activity through
the shared inbox takes two places in the IP's and the domain's window, so these allow half as many.
`CountersRunOut`: only a failure between the two calls leaves a counter that never
expires and refuses its requests for good once it is full.

Recipe parts: two covers need two makers that overlapped (`OneCover`): each
demotes only the covers its statement could see. `FilesFollowRows` names the
requests that part a row from its file: ones that fail between disk and database, a disk
that will not delete, the edit form. `NothingMixes`: a text shown as reviewed is one a review
has read or the author has saved as reviewed, unless its text and its status were set by two
requests that overlapped, a save and a review or two saves; kept facts are those of one calculation
unless two of the columns were set by two that overlapped, and of the ingredients there are
unless these have changed since or the total was set by another that overlapped. That is
the price of the ORM writing single columns, which `DecisionsHold` profits from.

### Where the code falls short

What the code says of itself and does not keep, besides the three violated runs. Each is a
behaviour of the models, but for the one about replies, which is a read; none has a run of its own.

- `OneCover` without its exception is *Only one photo per recipe can be the cover image*
  (`models/recipe.py:407`): of two uploads that overlap each misses the other's cover.
- `ReviewedIsVetted` without its exception: a member saves a new text while the author's save
  of the old one as reviewed, or a review, is under way; each sets the column that differs
  from what it read, and the member's text is shown as reviewed. And a review vets what its
  request reads, which need not be the text on the page the author pressed the button on.
- `FactsAgree` without its exceptions: of two calculations for different servings each sets the
  columns that differ, and the facts per serving are not the total divided by the servings the row names
  (`models/nutrition.py:13`).
- `ReadIsAccountedFor` without `passed`: notifications beyond the 50 of a page, and those
  committed between its two statements, are read unseen, where `dashboard.py:126-127`
  speaks of the loaded ones.
- `AnswersHold` without `OtherEntry`: *Silently succeeds if already blocked*
  (`moderation.py:104`) is also what happens to who is only muted.
- An announcement taken by a worker before the commit (`FanRead`), against *Deliver to followers if published
  immediately* (`recipes.py:286`).
- A notification that fails costs the comment (`NotifyFails`), against *a notification failure
  never breaks the main action* (`dashboard.py:48-49`).
- An accept that finds the follower row there (`AcceptExpired`) fails on the
  expired user and leaves the request pending for good, against *rollback just this
  flush, then continue* (`follow.py:369`).
- Replies are shown whatever their status (`comments.py:70-74`), against *only shown after
  approval* (`models/cooked_this.py:14-15`).
- A second follow after a rejection notifies the followee although the insert failed on the old row.

### Bounds

`follow`: one requester and two followees (two open requests of one requester are
what confuses the fallback), four HTTP requests, one death. Two requests race on
a pair and a third makes the row they race for; the fourth gives the other
followee a request. The violations need three. `inbox`: two activities, each of any verb and key, over any rows stored by earlier
ones, with one death; two recipes, because an Undo confuses them. One domain:
servers share no row of the three tables, and the theorems are about any number.
The two activities, their two tasks and the rows of earlier activities are every
pair the hazards speak of; three activities exceed five minutes. `recipes`: one
recipe (requests on
different ones share no row), four requests, one death: a create and three that
overlap. `delivery`: one announcement, three followers on two inboxes, the real
three delays, one crash, one lost answer, one death; fan-outs share no state, so
several add nothing to these properties. `comments`: two
servers with a note each, two requests of any kind, one death, moderation on, and
one comment made before in any status: a reply and the deletion of its parent,
two activities about one note, a moderation and an edit are all pairs. Threads are
two deep. `accounts`: three requests (a link followed, a ban and one
that lets somebody in; or two registrations of a name and a link), one death, two
names, which are symmetric, and the account from before in every state of its
link. `members`: three requests over rows from before, one death, a page of one
notification where the code has 50 (its limit is reached by two), two reasons. `limits`: two requests, of any kind,
with limits small enough to be reached by them: the user counter allows 1, the IP
3, the others 2; two failures, so that one can leave a counter without an expiry and the next
meet it. `recipe_parts`: three requests, one death, two texts, one food, one
number of servings besides the default, the texts symmetric; `Die` happens only where there is something to undo, as
otherwise the request ends like one refused.

The violated runs take the same instances without deaths, and as few requests as the
violation needs.

### Fairness

Weak fairness of every handler's next step: the event loop resumes a coroutine
whose statement can run, PostgreSQL hands a released lock to a waiter, and
httpx's timer fires (`AcceptTimeout`). Requests need not arrive, connections need
not fail, inboxes need not refuse. Requests about comments likewise, and a worker takes each comment
fan-out. The inbox's activities and the NodeInfo tasks
likewise: each goes on when it can, none need arrive. For the tasks: a worker takes each waiting
message, and a retry after its countdown. No fairness makes an inbox accept. A
request at a rate limit goes on, and Redis expires a key whose time is over; no
fairness makes a failure happen or not.
Weak fairness suffices for lock waits because every holder ends on its own.

## What is proved

`FollowRequestsProofs` proves, for every set of users, `MaxRequests` and
`MaxFaults` (assumed natural numbers, `MaxRequests` positive):

- `TypeCorrect`: `Spec => []TypeOK`. `TypeOK` alone is not inductive: what a
  transaction may do depends on what it carries, so `Typed` adds `Local` (the
  pair, user and identity each program counter needs).
- `LocksAreOrdered`: `Spec => []LockOrder`. The inductive invariant `IInv` adds
  `Locks`: for each row, where its holder can be, and what an uncommitted version
  may say. `InboxAfter` says that an inbox transaction exists only
  after its accept has been sent.

`StepCases` sorts the steps of `Next` by what they
touch, and `OnlyCommitsShow` concludes that what other transactions read changes
only in a commit; `RequestWrite` and `FollowerWrite`, parts of `Locks`, say what a
committing transaction can have written. From these:

- `FollowersNeedConsent`: `Safety => FollowerOnlyByConsent`.
- `RowsLeaveWhenWithdrawn`: `Safety => RowsOnlyWithdrawn`.
- `HandlersFollowLifecycle`: `Safety => FollowsLifecycle`, the refinement: a
  commit is one step of `FollowLifecycle` on the transaction's own pair, or a
  stutter, and every other step is a stutter.
- `AcceptWaitsForItself`: `Safety => []OwnAcceptNotServed`, by one more invariant
  (`OwnAccept`): the inbox transaction of a waiting accept carries the same pair
  and row identity, and the row lock keeps it where it is.

`InboxProofs` does the same for `Inbox`, for every set of servers, recipes and
kinds of reaction and every bound:

- `InboxTypeCorrect`: `Spec => []InboxTypeOK`, with `Carries` (what each program
  counter has in hand).
- `DomainServedAlone`: `Spec => []ServedAlone`, from `Holding`: past
  `record_instance` an activity is the holder of its domain's row.
- `StoredAsServed`: `Spec => []ServedInOrder`, from `Holding`, `RowOK` (what a
  written row says of its writer) and `Sees` (what an activity may rely on). `OwnRows`
  is the heart: while an activity is served, no other holds a row of its domain. What is
  due is computed by `DueAfter` from the activity an Undo names, the rows from the lookup by actor
  and type; the proof has to relate the two, which is what `crossed` is for.
- `NodeInfoIsKept`: `Spec => InfoIsKept`, from `Learned`: a row NodeInfo has told
  about carries that in its uncommitted version too.

`LimitsProofs`, for every limit and every number of requests and failures
(assumed naturals):

- `LimitsTypeCorrect`: `Spec => []LimitsTypeOK`, which bounds each counter by the
  requests that have come. Its invariant `Counted` compares the counter with the set of
  requests that have raised it (`Raised`).
- `LimitsAreKept`: `Spec => []LimitHolds`. `Windows` keeps a place in the window for
  the one request that stands between INCR and EXPIRE: its key was created by it and has no
  expiry, so nobody else can be there and the window cannot end under it. `Admitted`
  counts who has passed each check (`Passed`) against what the counter has let pass and
  what a failing Redis has spared. The lemmas `OneMore` and `AtMostOneMore` are all the
  arithmetic of sets they need.

`AccountsProofs`, for every set of names (assumed only to lack the value that stands for no
row) and every number of requests and failures:

- `AccountsTypeCorrect`: `Spec => []AccountsTypeOK`. The written version of a row may be the
  version of no row as far as the type says; `Rows` says that whoever holds a row is the
  request that inserts it or one that has set `is_active`, and `Asked` that a request is
  only where its kind can be.
- `BansHold`: `Spec => []BanHolds`. `Banned` adds what keeps a ban in force: the link is not
  live, no request carries the account's identity from Redis, and the account is there.
  `CommitWrites` and `CommitNotes` are the heart: a request that commits a write to a
  banned account's row can only be a `verify`, which `Banned` excludes, or the unban that
  ends the ban. `Decided` is needed because a ban that has read the account inactive
  commits nothing.
- `FollowedLinksActivate`: `Spec => []FollowedLinkActivates`, from `Activated`: a spent link
  whose request is past the DELETE is accounted for by that request (`Spends`), by the
  account, or by `missed`.

`DeliveryProofs`, for every set of recipes, followers and inboxes, every map of followers to
inboxes, and every number of requests, faults, crashes and retries:

- `RecipesTypeCorrect`: `RecipeSpec => []RecipeTypeOK`; `DeliveryTypeCorrect`: `Spec => []SystemTypeOK`, which
  includes it.
- `ListsDoubleOnlyByOverlap`: `RecipeSpec => []DoubledOnlyByOverlap`, from
  `RecipesInvariant`. `ListsReplaced` is the heart: once a request has written its own list, the
  lists it has read are gone or go with its commit.
- `DeletedRecipesStay`: `RecipeSpec => DeletedStaysDeleted`, and `DeletionsAreAnnounced`:
  `RecipeSpec => DeletionAnnounced`, two action properties. Only a commit changes a
  committed status (`CommitShows`), and `Writes` says which status a request can have written,
  given the one it had read. `Sole` is needed for creation: nobody else can work on a recipe
  that is not committed.
- `HandlersFollowLife`: `RecipeSpec => FollowsLife`, the refinement. `AtOnce` is what
  `RecipeInv` lacks for it: past its first write a creation holds both its recipe and its list, whoever
  holds a list holds its own, and whoever has written `deleted` holds none.
  `CommitIsLifeStep` then finds the step of `RecipeLife` a commit is, and `StillLife` says
  that everything else is a stutter.
- `FanOutsComplete`: `Spec => []FanOutComplete`, from `Sent`: the messages of the present run
  are for its audience, one to an inbox, and a run that is over has them all.
- `RepeatsAreExplained`: `Spec => []RepeatsExplained`, from `Counted`: what an inbox was
  given, with the runs that were started over, is bounded by the runs whose message it
  accepted, the crashes and the lost answers. It is an argument about cardinalities:
  the set of accepted runs grows by one with each delivery that is acknowledged.

`CommentsProofs`, for every set of notes (assumed only to lack `Local`) and every number of
requests and faults, from one inductive invariant, `CommentsInv`:

- `CommentsTypeCorrect`: `Spec => []CommentsTypeOK`.
- `NotesAreStoredOnce`: `Spec => []NoteStoredOnce`, from `Alone`: past `record_instance` an
  activity holds the row of its note's server until it ends, so what it has found of the note
  stays so. `AloneStays` says why a step of another request cannot disturb that.
- `CommentsSayWhatWasSaid` and `DecisionsAreKept`: `Spec => []SaysWhatItsServerSaid` and
  `Spec => []DecisionsHold`, from `Wrote`: the uncommitted version of a comment differs from
  the committed one in the one column its holder changes. `HeardFacts` and `CommitKeeps`
  carry the commit.
- `RepliesKeepParents`: `Spec => []RepliesHaveParents`, from `Family`: a reply was inserted
  after its parent was committed, and is there, committed or not, only while its parent
  is; who deletes the parent holds the reply. `BelowFacts` says that the replies of what a
  deletion takes are taken too: `Below` is the least set closed under replies, which needs
  no recursion.
- `SentIsCommitted`: `Spec => []OnlyCommittedIsSent`.

Most steps show nothing to other requests (`Calm`); `CalmKeeps` keeps most of the invariant for
all of these at once, and `LookKeeps` all of it for those that only read.

`MembersProofs`, for every set of reasons, page size and number of
requests and faults, from one inductive invariant, `MembersInv`:

- `MembersTypeCorrect`: `Spec => []MembersTypeOK`.
- `AnswersHoldUnlessOvertaken`: `Spec => []AnswersHold`. A request holds rows only of the table
  it asks about, from its write to its commit (`Holds`). Until another request commits a change
  of the row it has looked at, the row is what it read, its insert meets no constraint, and what it
  will answer is true of its own, uncommitted version (`Relies`, `WillKeep`); a commit that
  changes the row leaves all that had looked at it overtaken (`CommitLooks`), and
  `CommitAnswers` carries what held of the uncommitted version to the committed one. The exceptions
  are stated, not derived from a log of overlaps: an overtaken request, and a block answered
  over a mute (`OtherEntry`).
- `ReadNotificationsAreAccountedFor`: `Spec => []ReadIsAccountedFor`. `Page` follows the page
  from its first query to its UPDATE: what the UPDATE aims at was loaded or came between the two
  (`late`), and everything loaded is read once it commits. `NewestAll` is the counting: what is
  no more than a page is loaded whole; `CommitReads` puts both together at the commit.

What one request does to the rows others look at is `Frame`, and `OthersKeep` that they keep the
invariant through it; `GoKeeps`, `FailKeeps` and `CommitKeeps` are the three ways a request goes on, and the
lemma of each handler says only why it is one of them.

`RecipePartsProofs`, for every set of texts, foods and servings and every number of requests
and faults, from one inductive invariant, `PartsInv`, which is that of the part in use:

- `PartsTypeCorrect`: `Spec => []PartsTypeOK`.
- `CoverIsOne`: `Spec => []OneCover`. A cover made by a request that was over when this one
  came is among the rows its statement sees when it begins (`Dated`, `Aims`), and is demoted or
  deleted by it before it commits (`Clears`); so the maker of any cover that is left is a request
  it overlaps (`CoverSettled`). `Promotes` says that a request makes one photo the cover and `Makers` that
  two covers have two makers.
- `RowsHaveFiles`: `Spec => []FilesFollowRows`, from `Whole`: a photo that is not adrift has a
  row exactly if it has a file, or a request under way is at work on it. `Files` and
  `Takes` say how far that request is, which is what its commit or its rollback needs. `Unborn`
  keeps others away from a photo that is still to be inserted.
- `ColumnsBelongTogether`: `Spec => []NothingMixes`. The ORM writes the columns that differ
  from what was read. `Recalls` (in `Nutrition`, `Compares`) says, of each column, that what was
  read of it is what is there, unless a request that was not over when this one came has set it;
  `Drafts` (`Sums`, `Calculates`) what the uncommitted row is made of. So a column that is left alone
  at the commit and is not what the request had in hand was set by a request it overlaps
  (`ReviewSettled`, `CookSettled`), which is the exception the property names. `Cached` says that
  the row of facts that was read is still there to be written over.

The next commit is made of what a request has read and written before, and a photo or a row of
facts is only typed as long as each request is where its kind can be: hence the parts about
requests under way. `Past` and `Befores` carry the word *overlap*: what was over when a request came is
over for good, and of two requests under way neither was over when the other came (`Meets`).
`GoingKeeps` and `ComingKeeps` keep that through a step and an arrival.

Not provable with the tools at hand and left to TLC: liveness (`RequestsEnd`,
`ActivitiesEnd`, `AnnouncementsEnd`, `CommentsEnd`, `CountersRunOut`) and ENABLED; induction over data; anything about RECURSIVE
operators, of which there are none so far.

## Plan

In this order, each with its MC module, runs and mutants:

1. `FollowRequests`, `FollowLifecycle` with proofs; `Recipes`, `Delivery`, with proofs - done.
2. `KnownInstances` and `Inbox` (Follow, Like, Announce, Undo) with proofs - done;
   Create, Update and Delete are in `Comments`, the shared inbox in `Limits`.
3. `Comments`: threads, moderation, notes of other servers, fan-out, with proofs - done.
4. `Limits` with proofs - done.
5. `Accounts` with proofs - done.
6. `Members`: blocks, bookmarks, rules, the notifications page, with proofs - done.
7. `Translations`, `Photos`, `Nutrition`, with proofs - done.

Every invariant and action property a passing run checks is stated by a theorem; what is left to TLC is
liveness. Abstract specifications to come: at-least-once delivery implemented by
`Delivery`; a one-time token implemented, or not, by `Accounts`. Also to come: the connection
pool as a counter, the photos of steps and comments.

## Not modelled

The inbox's Delete of an Article (`activitypub.py:616-632`): the instance's own Delete
carries a Tombstone (`ap/builder.py:253`), which the inbox takes for a note, so
nothing in the repository sends one; the second Delete branch (`674-708`) is
unreachable behind the first. `get_follow_status`, the feed, user pages, the outbox,
search, lookup and discovery are reads. A second instance: what it does with activities out of
order is not in this repository. The text of recipes, slugs, and the amounts of
ingredients.

Not planned: HTTP signatures (cryptography; the verdict is an input), builders and
serializers (formatting), search, lookup, discovery, pages (reads), configuration,
migrations (their constraints are used) and the seed script.
