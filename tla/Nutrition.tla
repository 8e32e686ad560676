------------------------------ MODULE Nutrition ------------------------------
(***************************************************************************)
(* The nutrition facts of one recipe: what they are computed from (the     *)
(* servings, and the foods the author has linked to the ingredients:       *)
(* routers/food_items.py, the edit form) and the row of recipe_nutrition   *)
(* they are kept in (services/nutrition_calculator.py, routers/nutrition.py)*)
(*                                                                         *)
(* The facts are abstract: the total is the set of linked foods, the facts *)
(* per serving are the total and the number it was divided by.             *)
(***************************************************************************)
EXTENDS RecipeRequests

CONSTANTS Food,     \* foods an ingredient can be linked to
          Servings  \* positive numbers

Ingredient == Request \cup {Earlier}   \* named after the request that inserts it

\* The recipe does not say, or the caller does not: 0 and None are one.
Unsaid == 0
Serves == Servings \cup {Unsaid}
Or(s, t) == IF s # Unsaid THEN s ELSE t

\* Of no food there is nothing to divide.
PerServing(total, servings) == <<total, IF total = {} THEN 1 ELSE servings>>

FactsOf(total, servings) ==
    [total |-> total, servings |-> servings, per |-> PerServing(total, servings)]
Facts == [total : SUBSET Food, servings : Servings \cup {1},
          per : (SUBSET Food) \X (Servings \cup {1})]
Gone == [servings |-> 0]

Link == {{}} \cup {{f} : f \in Food}

\* A GET with recalculate=true is a recalculation in which the caller says nothing.
Ask == [kind : {"get"}]
       \cup [kind : {"recalculate"}, servings : Serves]
       \cup [kind : {"link"}, who : Ingredient, food : Link]
       \cup [kind : {"edit"}, servings : Serves]

VARIABLES recipe,     \* the recipe's servings
          ingredient, \* its ingredients: the linked food, if any, or no row
          cache,      \* the row of recipe_nutrition
          wrote,      \* history: the request that has last set each column of the cache
          calc,       \* history: the last calculation that was saved
          relinked    \* history: the requests that have changed the ingredients

Row == {"it"}
Column == {"total", "servings", "per"}
rows == <<recipe, ingredient, cache>>
history == <<wrote, calc, relinked>>
vars == <<rows, requests, history>>

NoRow == {"no row"}
Unread == [servings |-> Unsaid, total |-> {}, cache |-> Gone, list |-> {}]

NutritionTypeOK ==
    /\ recipe \in [Row -> Versions(Serves, Request)]
    /\ ingredient \in [Ingredient -> Versions(Link \cup {NoRow}, Request)]
    /\ cache \in [Row -> Versions(Facts \cup {Gone}, Request)]
    /\ RequestsTypeOK(Ask, {"lookup", "recipe", "ingredients", "select", "save",
                            "read", "link", "serves", "list", "commit"},
                      [servings : Serves, total : SUBSET Food, cache : Facts \cup {Gone},
                       list : SUBSET Ingredient])
    /\ wrote \in [Column -> Request \cup {Earlier}]
    /\ calc \in Request \cup {Earlier}
    /\ relinked \subseteq Request

\* A cache there is may have been made of a recipe that has changed since.
Init ==
    /\ \E s \in Serves, link \in Link :
          /\ recipe = [i \in Row |-> Committed(s)]
          /\ ingredient = [i \in Ingredient |-> Committed(IF i = Earlier THEN link ELSE NoRow)]
    /\ \E row \in {Gone} \cup {FactsOf(link, s) : link \in Link, s \in Servings} :
          cache = [i \in Row |-> Committed(row)]
    /\ InitRequests(Unread)
    /\ wrote = [c \in Column |-> Earlier]
    /\ calc = Earlier
    /\ relinked = {}

Fail(n) ==
    /\ recipe' = RollbackRows(recipe, n)
    /\ ingredient' = RollbackRows(ingredient, n)
    /\ cache' = RollbackRows(cache, n)
    /\ Leave(n, "failed", Unread)
    /\ UNCHANGED history

Start(a) ==
    CASE a.kind = "get" -> "lookup"
      [] a.kind = "recalculate" -> "recipe"
      [] OTHER -> "read"

\* Identities are random: nobody asks for an ingredient to come.
Arrive(n, a) ==
    /\ a.kind = "link" => a.who < n
    /\ ArriveAt(n, a, Start(a))
    /\ UNCHANGED <<rows, history>>

\* Not signed in, not the author; no recipe, ingredient or food.
Refuse(n) ==
    /\ pc[n] \in {"read", "recipe"}
    /\ Fail(n)
    /\ UNCHANGED faults

\* A statement that changes no table.
Reads(n, what, there) ==
    /\ Read(n, what, there)
    /\ UNCHANGED <<rows, history>>

Listed == {i \in Ingredient : ingredient[i].old # NoRow}
Linked == UNION {ingredient[i].old : i \in Listed}

(***************************************************************************)
(* get_or_calculate_nutrition, recalculate_recipe_nutrition                *)
(***************************************************************************)
\* A cache there is is answered as it is.
Lookup(n) ==
    /\ pc[n] = "lookup"
    /\ Reads(n, old[n], IF cache["it"].old = Gone THEN "recipe" ELSE "commit")

\* The recipe and its ingredients are two SELECTs.
ReadRecipe(n) ==
    /\ pc[n] = "recipe"
    /\ Reads(n, [old[n] EXCEPT !.servings = recipe["it"].old], "ingredients")

ReadIngredients(n) ==
    /\ pc[n] = "ingredients"
    /\ Reads(n, [old[n] EXCEPT !.total = Linked], "select")

\* Mutant: the recipe's servings are kept with the facts of the caller's.
CalculatedForCaller(n) ==
    LET said == IF ask[n].kind = "recalculate" THEN ask[n].servings ELSE Unsaid
        own == Or(old[n].servings, 1)
    IN [FactsOf(old[n].total, Or(said, own)) EXCEPT !.servings = own]

\* A caller's servings stand for the recipe's, for everybody.
Calculated(n) ==
    FactsOf(old[n].total,
            Or(IF ask[n].kind = "recalculate" THEN ask[n].servings ELSE Unsaid, Or(old[n].servings, 1)))

\* save_nutrition_cache
SelectCache(n) ==
    /\ pc[n] = "select"
    /\ Reads(n, [old[n] EXCEPT !.cache = cache["it"].old], "save")

\* The unique constraint lets one of two inserts through; an UPDATE writes only the
\* columns that differ from what was read.
Save(n) ==
    LET row == cache["it"].new
        new == Calculated(n)
        was == old[n].cache
        saved == IF was = Gone THEN new
                 ELSE [c \in DOMAIN new |-> IF new[c] = was[c] THEN row[c] ELSE new[c]]
    IN
    /\ pc[n] = "save"
    /\ MayWrite(cache, "it", n)
    /\ IF was = Gone /\ row # Gone
       THEN Fail(n) /\ UNCHANGED faults
       ELSE /\ cache' = Write(cache, "it", saved, n)
            /\ Step(n, "commit")
            /\ UNCHANGED <<recipe, ingredient, history>>

(***************************************************************************)
(* link_ingredient, unlink_ingredient, inline_edit_submit                  *)
(***************************************************************************)
AuthorReads(n) ==
    /\ pc[n] = "read"
    /\ ask[n].kind = "link" => ask[n].who \in Listed
    /\ Reads(n, [old[n] EXCEPT !.servings = recipe["it"].old, !.list = Listed],
             IF ask[n].kind = "edit" THEN "serves"
             ELSE IF ingredient[ask[n].who].old = ask[n].food THEN "commit" ELSE "link")

\* An UPDATE that finds its row gone raises.
SetLink(n) ==
    LET i == ask[n].who IN
    /\ pc[n] = "link"
    /\ MayWrite(ingredient, i, n)
    /\ IF ingredient[i].new = NoRow
       THEN Fail(n) /\ UNCHANGED faults
       ELSE /\ ingredient' = Write(ingredient, i, ask[n].food, n)
            /\ Step(n, "commit")
            /\ UNCHANGED <<recipe, cache, history>>

SetServings(n) ==
    /\ pc[n] = "serves"
    /\ IF ask[n].servings = old[n].servings
       THEN UNCHANGED recipe
       ELSE /\ MayWrite(recipe, "it", n)
            /\ recipe' = Write(recipe, "it", ask[n].servings, n)
    /\ Step(n, "list")
    /\ UNCHANGED <<ingredient, cache, history>>

\* The rows that were read are deleted, and rows without a link put in their place;
\* the cache stays.
ReplaceList(n) ==
    /\ pc[n] = "list"
    /\ \A i \in old[n].list : MayWrite(ingredient, i, n)
    /\ ingredient' = [i \in Ingredient |->
                        IF i \in old[n].list THEN [ingredient[i] EXCEPT !.new = NoRow, !.by = n]
                        ELSE IF i = n THEN [ingredient[i] EXCEPT !.new = {}, !.by = n]
                        ELSE ingredient[i]]
    /\ Step(n, "commit")
    /\ UNCHANGED <<recipe, cache, history>>

(***************************************************************************)
(* get_db                                                                  *)
(***************************************************************************)
\* History: the columns a calculation sets.
Sets(n) ==
    {c \in Column : /\ cache["it"].by = n
                    /\ old[n].cache = Gone \/ Calculated(n)[c] # old[n].cache[c]}

Commit(n) ==
    /\ pc[n] = "commit"
    /\ recipe' = CommitRows(recipe, n)
    /\ ingredient' = CommitRows(ingredient, n)
    /\ cache' = CommitRows(cache, n)
    /\ wrote' = [c \in Column |-> IF c \in Sets(n) THEN n ELSE wrote[c]]
    /\ calc' = IF cache["it"].by = n THEN n ELSE calc
    /\ relinked' = relinked \cup ({n} \cap Holders(ingredient))
    /\ Leave(n, "done", Unread)
    /\ UNCHANGED faults

Die(n) ==
    /\ Dies(n)
    /\ n \in Holders(recipe) \cup Holders(ingredient) \cup Holders(cache)
    /\ Fail(n)

Quiescent == AllEnded /\ UNCHANGED vars

Next ==
    \/ \E n \in Request :
        \/ \E a \in Ask : Arrive(n, a)
        \/ Refuse(n) \/ Lookup(n) \/ ReadRecipe(n) \/ ReadIngredients(n) \/ SelectCache(n) \/ Save(n)
        \/ AuthorReads(n) \/ SetLink(n) \/ SetServings(n) \/ ReplaceList(n)
        \/ Commit(n) \/ Die(n)
    \/ Quiescent

Spec == Init /\ [][Next]_vars

\* The facts that are kept are those of one calculation: the facts per serving are the
\* kept total divided by the kept servings, unless two of the columns were set by two
\* calculations that overlapped.  And the total is that of the ingredients if all who
\* changed them were over when the last calculation began, unless the total was set by
\* another that overlapped with it.
FactsAgree ==
    LET row == cache["it"].old IN
    row # Gone =>
       /\ \/ row.per = PerServing(row.total, row.servings)
          \/ \E c, d \in Column : Overlap(wrote[c], wrote[d])
       /\ calc \in Request /\ relinked \subseteq before[calc] =>
             row.total = Linked \/ Overlap(calc, wrote["total"])
=============================================================================
