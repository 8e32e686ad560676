------------------------------ MODULE RecipeLife ------------------------------
(***************************************************************************)
(* What becomes of recipes, seen only at commits.  Each request takes      *)
(* effect at most once, on one recipe, in one of three steps: the status   *)
(* and the list of ingredients change together or not at all.              *)
(***************************************************************************)
CONSTANTS Recipe,  \* recipe rows
          Writer   \* requests; a list is named after the request that wrote it

VARIABLES status,  \* of each recipe
          shown,   \* the lists of ingredients each recipe shows
          ended    \* the requests that have taken effect

vars == <<status, shown, ended>>

Init == /\ status = [r \in Recipe |-> "absent"]
        /\ shown = [r \in Recipe |-> {}]
        /\ ended = {}

\* A recipe appears with its list, for its author or for everybody.
Create(r, n) == /\ status[r] = "absent"
                /\ \E s \in {"draft", "published"} : status' = [status EXCEPT ![r] = s]
                /\ shown' = [shown EXCEPT ![r] = {n}]

\* An edit leaves the list or puts its own in the place of those it has read, and may
\* publish the recipe.
Save(r, n) == /\ status[r] # "absent"
              /\ status' \in {status, [status EXCEPT ![r] = "published"]}
              /\ \/ UNCHANGED shown
                 \/ \E L \in SUBSET shown[r] : shown' = [shown EXCEPT ![r] = (@ \ L) \cup {n}]

\* A deletion changes nothing but the status.
Delete(r) == /\ status[r] # "absent"
             /\ status' = [status EXCEPT ![r] = "deleted"]
             /\ UNCHANGED shown

Next == \E n \in Writer \ ended :
            /\ ended' = ended \cup {n}
            /\ \E r \in Recipe : Create(r, n) \/ Save(r, n) \/ Delete(r)

Spec == Init /\ [][Next]_vars
=============================================================================
