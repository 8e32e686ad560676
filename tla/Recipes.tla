------------------------------- MODULE Recipes --------------------------------
(***************************************************************************)
(* Creating, editing, publishing and deleting recipes: the API handlers of *)
(* app/routers/recipes.py and the form handlers of recipe_form.py and      *)
(* recipe_edit.py, over the tables recipes and recipe_ingredients.         *)
(*                                                                         *)
(* A request is one database transaction, committed by get_db after the    *)
(* handler returns.  It hands its announcement to Celery before that       *)
(* commit.  What a request writes beside the status (title, steps, photos, *)
(* tags) goes with its list of ingredients, the part that is replaced and  *)
(* not overwritten, and is not told apart from it.  The list written by    *)
(* request n is list n.                                                    *)
(***************************************************************************)
EXTENDS Integers, RowVersions

CONSTANTS Recipe,       \* recipe rows
          MaxRequests,  \* bound: HTTP requests
          MaxFaults     \* bound: transactions that die half way

ASSUME RequestsAssumption == MaxRequests \in Nat \ {0}
ASSUME FaultsAssumption == MaxFaults \in Nat

Request == 1..MaxRequests

VARIABLES recipe,    \* recipes: the status of each row
          list,      \* recipe_ingredients: whether the rows request n wrote are there
          pc,        \* where each request is
          on,        \* the recipe it works on
          was,       \* the status it read
          read,      \* the lists it read
          announce,  \* the activity_type it is to enqueue
          fanout,    \* deliver_to_followers messages enqueued, by request
          arrived, faults

locals == <<on, was, read, announce>>
recipeVars == <<recipe, list, pc, on, was, read, announce, fanout, arrived, faults>>

NoRecipe == "no recipe"
Status == {"absent", "draft", "published", "deleted"}
Activity == {"create", "update", "delete"}
Running == {"create", "publish", "edit", "enqueue", "delete_form", "delete_enqueue",
            "delete_flush", "commit"}
PC == {"idle", "done", "failed"} \cup Running

RecipeTypeOK ==
    /\ recipe \in [Recipe -> Versions(Status, Request)]
    /\ list \in [Request -> Versions(BOOLEAN, Request)]
    /\ pc \in [Request -> PC]
    /\ on \in [Request -> Recipe \cup {NoRecipe}]
    /\ was \in [Request -> Status]
    /\ read \in [Request -> SUBSET Request]
    /\ announce \in [Request -> Activity \cup {"none"}]
    /\ fanout \in [Request -> Activity \cup {"none"}]
    /\ arrived \in 0..MaxRequests
    /\ faults \in 0..MaxFaults

RecipeInit ==
    /\ recipe = [r \in Recipe |-> Committed("absent")]
    /\ list = [n \in Request |-> Committed(FALSE)]
    /\ pc = [n \in Request |-> "idle"]
    /\ on = [n \in Request |-> NoRecipe]
    /\ was = [n \in Request |-> "absent"]
    /\ read = [n \in Request |-> {}]
    /\ announce = [n \in Request |-> "none"]
    /\ fanout = [n \in Request |-> "none"]
    /\ arrived = 0
    /\ faults = 0

Goto(n, there) == pc' = [pc EXCEPT ![n] = there]

\* The lists a transaction that begins now sees on recipe r.
Lists(r) == {n \in Request : on[n] = r /\ list[n].old}

\* The next request, on r: what it reads, what it is to announce, its next step.
Arrive(r, activity, there) ==
    LET n == arrived + 1 IN
    /\ n \in Request
    /\ arrived' = n
    /\ on' = [on EXCEPT ![n] = r]
    /\ was' = [was EXCEPT ![n] = recipe[r].old]
    /\ read' = [read EXCEPT ![n] = Lists(r)]
    /\ announce' = [announce EXCEPT ![n] = activity]
    /\ Goto(n, there)
    /\ UNCHANGED <<recipe, list, fanout, faults>>

\* After its writes a request enqueues its announcement if it has one.
AfterWrites(n) == IF announce[n] = "none" THEN "commit" ELSE "enqueue"

SetRecipeStatus(n, s) ==
    /\ MayWrite(recipe, on[n], n)
    /\ recipe' = Write(recipe, on[n], s, n)

(***************************************************************************)
(* POST /api/v1/recipes/ and the recipe form; forks.                       *)
(***************************************************************************)
CreateBegin(r, publish) ==
    /\ \A n \in Request : on[n] = r => pc[n] = "failed"
    /\ Arrive(r, IF publish THEN "create" ELSE "none", "create")

\* A fork is a draft, filled with what was fetched before the first write.
ForkBegin(r) == CreateBegin(r, FALSE)

\* Mutant: the new recipe is committed to get its id.
CreateInsertCommits(n) ==
    /\ pc[n] = "create"
    /\ MayWrite(recipe, on[n], n)
    /\ recipe' = [recipe EXCEPT ![on[n]] =
                     Committed(IF announce[n] = "create" THEN "published" ELSE "draft")]
    /\ list' = Write(list, n, TRUE, n)
    /\ Goto(n, AfterWrites(n))
    /\ UNCHANGED <<locals, fanout, arrived, faults>>

CreateInsert(n) ==
    /\ pc[n] = "create"
    /\ SetRecipeStatus(n, IF announce[n] = "create" THEN "published" ELSE "draft")
    /\ list' = Write(list, n, TRUE, n)
    /\ Goto(n, AfterWrites(n))
    /\ UNCHANGED <<locals, fanout, arrived, faults>>

(***************************************************************************)
(* PUT /api/v1/recipes/{id} and the edit form.                             *)
(***************************************************************************)
EditAnnounces(status, publish) ==
    IF status = "published" THEN "update" ELSE IF publish THEN "create" ELSE "none"

\* Mutant: the handlers do not turn away a deleted recipe.
EditBeginDeleted(r, publish) ==
    /\ recipe[r].old # "absent"
    /\ LET activity == EditAnnounces(recipe[r].old, publish)
       IN  Arrive(r, activity, IF activity = "create" THEN "publish" ELSE "edit")

EditBegin(r, publish) ==
    /\ recipe[r].old \in {"draft", "published"}
    /\ LET activity == EditAnnounces(recipe[r].old, publish)
       IN  Arrive(r, activity, IF activity = "create" THEN "publish" ELSE "edit")

\* The status is flushed by the first SELECT that follows.
EditPublish(n) ==
    /\ pc[n] = "publish"
    /\ SetRecipeStatus(n, "published")
    /\ Goto(n, "edit")
    /\ UNCHANGED <<list, locals, fanout, arrived, faults>>

\* Mutant: the old rows are looked up by what is flushed, not by what was read.
EditAddsList(n) ==
    /\ pc[n] = "edit"
    /\ list' = Write(list, n, TRUE, n)
    /\ Goto(n, AfterWrites(n))
    /\ UNCHANGED <<recipe, locals, fanout, arrived, faults>>

\* The rows read are deleted (rows already gone only make SQLAlchemy warn) and
\* the new ones inserted; the API may leave the ingredients as they are.
EditWrite(n) ==
    /\ pc[n] = "edit"
    /\ \/ UNCHANGED list
       \/ /\ \A m \in read[n] : MayWrite(list, m, n)
          /\ list' = [m \in Request |->
                        IF m = n THEN [list[m] EXCEPT !.new = TRUE, !.by = n]
                        ELSE IF m \in read[n] /\ list[m].new
                        THEN [list[m] EXCEPT !.new = FALSE, !.by = n]
                        ELSE list[m]]
    /\ Goto(n, AfterWrites(n))
    /\ UNCHANGED <<recipe, locals, fanout, arrived, faults>>

(***************************************************************************)
(* DELETE /api/v1/recipes/{id} and the delete form.                        *)
(***************************************************************************)
DeleteAnnounces(status) == IF status = "published" THEN "delete" ELSE "none"

\* Mutant: was_published is read after the status has been set.
DeleteAnnouncesNothing(r) ==
    /\ recipe[r].old \in {"draft", "published"}
    /\ Arrive(r, "none", "delete_form")

DeleteFormBegin(r) ==
    /\ recipe[r].old \in {"draft", "published"}
    /\ Arrive(r, DeleteAnnounces(recipe[r].old), "delete_form")

DeleteFormWrite(n) ==
    /\ pc[n] = "delete_form"
    /\ SetRecipeStatus(n, "deleted")
    /\ Goto(n, AfterWrites(n))
    /\ UNCHANGED <<list, locals, fanout, arrived, faults>>

\* The API handler does not flush: the status is written by the commit.
DeleteBegin(r) ==
    /\ recipe[r].old \in {"draft", "published"}
    /\ LET activity == DeleteAnnounces(recipe[r].old)
       IN  Arrive(r, activity, IF activity = "delete" THEN "delete_enqueue" ELSE "delete_flush")

DeleteFlush(n) ==
    /\ pc[n] = "delete_flush"
    /\ SetRecipeStatus(n, "deleted")
    /\ Goto(n, "commit")
    /\ UNCHANGED <<list, locals, fanout, arrived, faults>>

(***************************************************************************)
(* _trigger_delivery, and the end of the transaction.                      *)
(***************************************************************************)
\* An unreachable broker is logged and forgotten.
Enqueue(n) ==
    /\ \/ pc[n] = "enqueue" /\ Goto(n, "commit")
       \/ pc[n] = "delete_enqueue" /\ Goto(n, "delete_flush")
    /\ fanout' \in {fanout, [fanout EXCEPT ![n] = announce[n]]}
    /\ UNCHANGED <<recipe, list, locals, arrived, faults>>

Commit(n) ==
    /\ pc[n] = "commit"
    /\ recipe' = CommitRows(recipe, n)
    /\ list' = CommitRows(list, n)
    /\ Goto(n, "done")
    /\ UNCHANGED <<locals, fanout, arrived, faults>>

\* A photo cannot be saved, a constraint fails, the connection drops or the
\* process stops: everything is rolled back but what was enqueued.
Die(n) ==
    /\ pc[n] \in Running
    /\ faults < MaxFaults
    /\ faults' = faults + 1
    /\ recipe' = RollbackRows(recipe, n)
    /\ list' = RollbackRows(list, n)
    /\ Goto(n, "failed")
    /\ UNCHANGED <<locals, fanout, arrived>>

RecipeBegin == \E r \in Recipe :
    \/ \E publish \in BOOLEAN : CreateBegin(r, publish) \/ EditBegin(r, publish)
    \/ ForkBegin(r) \/ DeleteFormBegin(r) \/ DeleteBegin(r)

RecipeStep(n) ==
    \/ CreateInsert(n) \/ EditPublish(n) \/ EditWrite(n)
    \/ DeleteFormWrite(n) \/ DeleteFlush(n)
    \/ Enqueue(n) \/ Commit(n)

RecipesEnded == \A n \in Request : pc[n] \notin Running

RecipeNext == RecipeBegin \/ \E n \in Request : RecipeStep(n) \/ Die(n)

Quiescent == RecipesEnded /\ UNCHANGED recipeVars

RecipeSpec == RecipeInit /\ [][RecipeNext \/ Quiescent]_recipeVars

(***************************************************************************)
(* Properties                                                              *)
(***************************************************************************)
CommitOf(n) == pc[n] = "commit" /\ pc'[n] = "done"

\* A recipe goes from draft to published to deleted and never back, whatever
\* requests overlap, with one exception: a publish that read the draft brings
\* back a recipe deleted meanwhile, because it writes the status blindly.
DeletedStaysDeleted ==
    [][\A r \in Recipe :
         /\ recipe[r].old = "published" => recipe'[r].old \in {"published", "deleted"}
         /\ recipe[r].old = "deleted" /\ recipe'[r].old # "deleted" =>
              /\ recipe'[r].old = "published"
              /\ \E n \in Request : CommitOf(n) /\ on[n] = r /\ was[n] = "draft"
      ]_recipeVars

\* Followers are told of every deletion they can have noticed: when a published
\* recipe is committed deleted, the request set out to announce it, unless it had
\* read the draft and the recipe was published while it ran.
DeletionAnnounced ==
    [][\A r \in Recipe : recipe[r].old = "published" /\ recipe'[r].old = "deleted" =>
         \E n \in Request : /\ CommitOf(n) /\ on[n] = r
                            /\ announce[n] = "delete" \/ was[n] = "draft"
      ]_recipeVars

\* A recipe shows two lists of ingredients only if neither edit could see the
\* other's: an edit never leaves a list that it has read.
DoubledOnlyByOverlap ==
    \A m, n \in Request : m # n /\ on[m] = on[n] /\ list[m].old /\ list[n].old
                          => m \notin read[n] /\ n \notin read[m]

\* What is committed goes through RecipeLife: whatever requests overlap or die, each takes
\* effect at once and on one recipe, if it ends well, and a recipe is never without its list.
Life == INSTANCE RecipeLife WITH
    Writer <- Request,
    status <- [r \in Recipe |-> recipe[r].old],
    shown <- [r \in Recipe |-> Lists(r)],
    ended <- {n \in Request : pc[n] = "done"}

FollowsLife == Life!Spec
=============================================================================
