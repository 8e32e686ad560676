--------------------------- MODULE RecipePartsProofs ---------------------------
(***************************************************************************)
(* Proofs about RecipeParts for every set of texts, foods and servings and *)
(* every number of requests and faults: one cover, files and rows that     *)
(* come and go together, columns that belong together.                     *)
(***************************************************************************)
EXTENDS RecipeParts, FiniteSetTheorems, TLAPS

(***************************************************************************)
(* What the three parts share                                              *)
(***************************************************************************)
Comings == \A n \in Request : pc[n] = "idle" <=> n > arrived

\* What is over, of which the state before all requests is the first.
Past == {Earlier} \cup {m \in Request : pc[m] \in Ended}

\* What was over when a request came is over.
Befores ==
    \A n \in Request : /\ before[n] \subseteq Past
                       /\ Running(n) => Earlier \in before[n]

\* A row nobody holds has one version.
OneVersion(row) == row.by = Nobody => row.new = row.old

(***************************************************************************)
(* Translations                                                            *)
(***************************************************************************)
\* What a request has read of a column is what there is, unless somebody who was not
\* over when the request came has set the column.
Recalls(n) ==
    LET row == translation["it"].old IN
    \A f \in T!Column :
        row # T!Gone /\ wrote[f] \in before[n] => old[n] # T!Gone /\ old[n][f] = row[f]

\* What a request makes of the row it holds.
Drafts(n) ==
    LET row == translation["it"].old
        new == translation["it"].new
        wanted == T!Wanted(old[n], ask[n])
    IN
    /\ ask[n].kind = "delete" => new = T!Gone
    /\ ask[n].kind # "delete" /\ old[n] = T!Gone =>
          \A f \in T!Column : new[f] = wanted[f]
    /\ ask[n].kind # "delete" /\ old[n] # T!Gone =>
          row # T!Gone /\ \A f \in T!Column : new[f] = IF wanted[f] = old[n][f] THEN row[f] ELSE wanted[f]

Reviews(n) ==
    /\ Running(n) => ask[n] \in T!Ask
    /\ pc[n] \in {"write", "commit"} /\ ask[n].kind = "review" => old[n] # T!Gone
    /\ pc[n] \in {"read", "write", "commit"} => Recalls(n)
    /\ translation["it"].by = n => pc[n] = "commit" /\ Drafts(n)

TranslationsInv ==
    /\ T!TranslationsTypeOK
    /\ Comings /\ Befores
    /\ OneVersion(translation["it"])
    /\ \A f \in T!Column : wrote[f] \in Past
    /\ \A n \in Request : Reviews(n)
    /\ T!ReviewedIsVetted

(***************************************************************************)
(* Nutrition                                                               *)
(***************************************************************************)
\* Where each kind of request can be.
Cooking(n) ==
    /\ Running(n) => ask[n] \in N!Ask
    /\ pc[n] \in {"lookup", "recipe", "ingredients", "select", "save"} => ask[n].kind \in {"get", "recalculate"}
    /\ pc[n] \in {"read", "link", "serves", "list"} => ask[n].kind \in {"link", "edit"}
    /\ pc[n] = "link" => ask[n].kind = "link"
    /\ pc[n] \in {"serves", "list"} => ask[n].kind = "edit"

\* What request n holds, and where.
Keeps(n) ==
    /\ recipe["it"].by = n => pc[n] \in {"list", "commit"} /\ ask[n].kind = "edit"
    /\ \A i \in N!Ingredient : ingredient[i].by = n => pc[n] = "commit" /\ ask[n].kind \in {"link", "edit"}
    /\ cache["it"].by = n => pc[n] = "commit" /\ ask[n].kind \in {"get", "recalculate"}

\* A cache that has been seen is never removed.
Cached(n) == old[n].cache # N!Gone => cache["it"].old # N!Gone

\* The total a calculation has in hand is that of the ingredients, unless somebody who
\* was not over when it came has changed them.
Sums(n) ==
    (pc[n] \in {"select", "save"} \/ cache["it"].by = n) /\ relinked \subseteq before[n] => old[n].total = N!Linked

\* What it has read of a column of the cache is what there is, unless such a one has set
\* the column.
Compares(n) ==
    LET row == cache["it"].old IN
    pc[n] = "save" \/ cache["it"].by = n =>
        \A c \in N!Column :
            row # N!Gone /\ wrote[c] \in before[n] => old[n].cache # N!Gone /\ old[n].cache[c] = row[c]

\* What it makes of the cache it holds.
Calculates(n) ==
    LET new == cache["it"].new
        was == old[n].cache
        facts == N!Calculated(n)
    IN
    cache["it"].by = n =>
        /\ was = N!Gone => new = facts
        /\ was # N!Gone =>
              \A c \in N!Column : new[c] = IF facts[c] = was[c] THEN cache["it"].old[c] ELSE facts[c]

NutritionInv ==
    /\ N!NutritionTypeOK
    /\ Comings /\ Befores
    /\ OneVersion(recipe["it"]) /\ OneVersion(cache["it"])
    /\ \A i \in N!Ingredient : OneVersion(ingredient[i])
    /\ cache["it"].old # N!Gone => cache["it"].new # N!Gone
    /\ calc \in Past /\ \A c \in N!Column : wrote[c] \in Past
    /\ \A n \in Request : Cooking(n) /\ Keeps(n) /\ Cached(n)
    /\ \A n \in Request : Sums(n) /\ Compares(n) /\ Calculates(n)
    /\ N!FactsAgree

(***************************************************************************)
(* Photos                                                                  *)
(***************************************************************************)
\* Photos that have been there.
Born == {p \in P!Photo : p = P!Earlier \/ pc[p] = "done"}

\* Where each kind of request can be, and what it can have seen.
Poses(n) ==
    /\ Running(n) => ask[n] \in P!Ask
    /\ pc[n] \in {"file", "insert"} => ask[n].kind \in {"upload", "replace"}
    /\ pc[n] \in {"aim", "demote"} => ask[n].kind \in {"upload", "update"} /\ ask[n].cover
    /\ pc[n] = "set" => ask[n].kind = "update"
    /\ pc[n] \in {"unlink", "delete"} => ask[n].kind = "remove"
    /\ pc[n] = "drop" => ask[n].kind = "replace"
    /\ Running(n) /\ pc[n] # "read" /\ ask[n].kind \in {"update", "remove"} => ask[n].who \in Born
    /\ old[n] \subseteq Born

\* The photo a request is to insert: nobody else knows of it.
Unborn(n) ==
    /\ pc[n] # "done" => photo[n].old = "gone" /\ photo[n].by \in {Nobody, n}
    /\ pc[n] \in {"idle", "read", "drop", "file"} => ~file[n]

\* What request n makes of photo p, of which it holds the row.
Takes(n, p) ==
    /\ pc[n] \in {"set", "insert", "file", "commit"}
    /\ \/ p = n /\ ask[n].kind \in {"upload", "replace"} /\ pc[n] = "commit" /\ photo[p].new # "gone"
       \/ ask[n].kind = "remove" /\ p = ask[n].who /\ pc[n] = "commit" /\ photo[p].new = "gone"
       \/ p \in old[n] /\ ask[n].kind = "replace" /\ photo[p].new = "gone"
       \/ /\ ask[n].kind \in {"upload", "update"} /\ pc[n] # "file"
          /\ photo[p].old # "gone" /\ photo[p].new # "gone"

\* How far the file and the row of a photo have come with the request that makes or removes it.
Files(n) ==
    /\ pc[n] = "insert" \/ (pc[n] \in {"aim", "demote"} /\ ask[n].kind = "upload") => file[n]
    /\ pc[n] = "commit" /\ ask[n].kind = "upload" => file[n] /\ photo[n].new # "gone"  /\ photo[n].by = n
    /\ pc[n] = "commit" /\ ask[n].kind = "replace" => file[n] = (photo[n].new # "gone") /\ file[n] = (photo[n].by = n)
    /\ pc[n] = "delete" => ~file[ask[n].who] \/ ask[n].who \in adrift
    /\ pc[n] = "commit" /\ ask[n].kind = "remove" =>
          /\ ~file[ask[n].who] \/ ask[n].who \in adrift
          /\ photo[ask[n].who].by = n /\ photo[ask[n].who].new = "gone"

\* A photo is whole, or a request is at work on it.
Whole ==
    \A p \in P!Photo \ adrift :
        \/ (photo[p].old # "gone") = file[p]
        \/ \E n \in Request : Running(n) /\ pc[n] # "read" /\ p \in P!Touched(n)

\* A request makes one photo the cover, the last thing it does.
Promotes(n, p) ==
    /\ pc[n] = "commit" /\ ask[n].kind # "remove"
    /\ ask[n].kind \in {"upload", "update"} => ask[n].cover
    /\ p = IF ask[n].kind = "update" THEN ask[n].who ELSE n

\* The covers that were made so before it came it has seen, ...
Dated(n) == {p \in P!Covers \ P!Own(n) : maker[p] \in before[n]}

Aims(n) == pc[n] \in {"demote", "drop"} => Dated(n) \subseteq old[n]

\* ... and then demoted or removed.
Clears(n) ==
    /\ pc[n] \in {"file", "insert", "commit"} /\ ask[n].kind = "replace" => \A p \in Dated(n) : photo[p].by = n
    /\ pc[n] \in {"insert", "set", "commit"} /\ ask[n].kind \in {"upload", "update"} /\ ask[n].cover =>
          \A p \in Dated(n) : photo[p].by = n

\* Two covers have been made so by two requests.
Makers ==
    /\ \A p \in P!Photo : maker[p] \in Past
    /\ \A p, q \in P!Covers : maker[p] = maker[q] => p = q

PhotosInv ==
    /\ P!PhotosTypeOK
    /\ Comings /\ Befores
    /\ \A p \in P!Photo : OneVersion(photo[p])
    /\ \A n \in Request : Poses(n) /\ Unborn(n) /\ Files(n)
    /\ \A n \in Request : \A p \in P!Photo : photo[p].by = n => Takes(n, p)
    /\ \A n \in Request : \A p \in P!Photo : photo[p].by = n /\ photo[p].new = "cover" => Promotes(n, p)
    /\ Whole
    /\ Makers
    /\ \A n \in Request : Aims(n) /\ Clears(n)
    /\ P!OneCover

(***************************************************************************)
(* The inductive invariant: that of the part in use                        *)
(***************************************************************************)
PartsInv ==
    /\ part \in {"translation", "photos", "nutrition"}
    /\ part = "translation" => TranslationsInv
    /\ part = "photos" => PhotosInv
    /\ part = "nutrition" => NutritionInv

(***************************************************************************)
(* Requests                                                                *)
(***************************************************************************)
LEMMA RequestFacts ==
    /\ \A n \in Request : n \in Nat /\ n # Nobody /\ n # 0
    /\ Nobody \notin Request /\ 0 \notin Request /\ Earlier = 0
    /\ T!Request = Request /\ P!Request = Request /\ N!Request = Request
    /\ T!Nobody = Nobody /\ P!Nobody = Nobody /\ N!Nobody = Nobody
    /\ T!Nothing = Nothing /\ P!Nothing = Nothing /\ N!Nothing = Nothing
    /\ T!Earlier = Earlier /\ P!Earlier = Earlier /\ N!Earlier = Earlier
  BY RequestsAssumption DEF Request, Nobody, Nothing, Earlier, T!Request, P!Request, N!Request,
     T!Nobody, P!Nobody, N!Nobody, T!Nothing, P!Nothing, N!Nothing, T!Earlier, P!Earlier, N!Earlier

LEMMA RunningFacts ==
    ASSUME NEW n \in Request
    PROVE  /\ T!Running(n) <=> Running(n)
           /\ P!Running(n) <=> Running(n)
           /\ N!Running(n) <=> Running(n)
  BY DEF Running, Ended, T!Running, T!Ended, P!Running, P!Ended, N!Running, N!Ended

LEMMA OverlapFacts ==
    /\ \A m, n : T!Overlap(m, n) <=> Overlap(m, n)
    /\ \A m, n : P!Overlap(m, n) <=> Overlap(m, n)
    /\ \A m, n : N!Overlap(m, n) <=> Overlap(m, n)
  BY DEF Overlap, Request, T!Overlap, T!Request, P!Overlap, P!Request, N!Overlap, N!Request

\* Whoever is over was over when a request that runs came, or has overlapped with it.
LEMMA Meets ==
    ASSUME Befores, NEW n \in Request, Running(n)
    PROVE  \A w \in Past : w # n /\ (w \notin before[n] => Overlap(w, n) /\ Overlap(n, w))
<1> SUFFICES ASSUME NEW w \in Past
             PROVE  w # n /\ (w \notin before[n] => Overlap(w, n) /\ Overlap(n, w))
  OBVIOUS
<1>1. w # n
  BY RequestFacts DEF Past, Running, Ended
<1>2. ASSUME w \notin before[n] PROVE w \in Request /\ n \notin before[w]
  <2>1. w \in Request
    BY <1>2 DEF Befores, Past
  <2>2. n \notin Past
    BY RequestFacts DEF Past, Running, Ended
  <2>3. QED  BY <2>1, <2>2 DEF Befores
<1>3. QED  BY <1>1, <1>2 DEF Overlap

\* A request goes on, or ends.
LEMMA GoingKeeps ==
    ASSUME Comings, Befores, DOMAIN pc = Request, NEW n \in Request, NEW there, there # "idle",
           Running(n), Goto(n, there), UNCHANGED <<arrived, before>>
    PROVE  /\ Comings' /\ Befores'
           /\ pc'[n] = there /\ \A m \in Request \ {n} : pc'[m] = pc[m]
           /\ Past \subseteq Past' /\ (there \in Ended => n \in Past')
           /\ \A u, v : Overlap(u, v)' <=> Overlap(u, v)
<1>1. pc'[n] = there /\ \A m \in Request \ {n} : pc'[m] = pc[m]
  BY DEF Goto
<1>2. Comings'
  BY <1>1 DEF Comings, Running
<1>3. Past \subseteq Past' /\ (there \in Ended => n \in Past')
  BY <1>1 DEF Past, Running
<1>4. \A m \in Request : Running(m)' => Running(m)
  BY <1>1 DEF Running
<1>5. Befores'
  BY <1>3, <1>4 DEF Befores
<1>6. \A u, v : Overlap(u, v)' <=> Overlap(u, v)
  BY DEF Overlap
<1>7. QED  BY <1>1, <1>2, <1>3, <1>5, <1>6

\* A request arrives: what is over now it has not met.
LEMMA ComingKeeps ==
    ASSUME Comings, Befores, DOMAIN pc = Request, DOMAIN ask = Request,
           before \in [Request -> SUBSET (Request \cup {Earlier})],
           arrived \in 0..MaxRequests, NEW n \in Request, NEW a,
           NEW there, there # "idle", there \notin Ended, ArriveAt(n, a, there)
    PROVE  /\ Comings' /\ Befores'
           /\ before' \in [Request -> SUBSET (Request \cup {Earlier})] /\ arrived' \in 0..MaxRequests
           /\ pc[n] = "idle" /\ pc'[n] = there /\ ask'[n] = a
           /\ \A m \in Request \ {n} : pc'[m] = pc[m] /\ ask'[m] = ask[m] /\ before'[m] = before[m]
           /\ Past' = Past /\ n \notin Past
           /\ \A u, v \in Past : Overlap(u, v)' <=> Overlap(u, v)
<1>1. /\ n = arrived + 1 /\ arrived' = n
      /\ pc' = [pc EXCEPT ![n] = there] /\ ask' = [ask EXCEPT ![n] = a]
      /\ before' = [before EXCEPT ![n] = Past]
  BY DEF ArriveAt, Goto, Past
<1>2. arrived \in Nat /\ n \in Nat /\ n > arrived /\ n \in 0..MaxRequests
  BY <1>1, RequestsAssumption DEF Request
<1>3. pc[n] = "idle"
  BY <1>2 DEF Comings
<1>4. /\ pc'[n] = there /\ ask'[n] = a /\ before'[n] = Past
      /\ \A m \in Request \ {n} : pc'[m] = pc[m] /\ ask'[m] = ask[m] /\ before'[m] = before[m]
  BY <1>1
<1>5. Comings'
  <2>1. \A m \in Request \ {n} : m > arrived' <=> m > arrived
    BY <1>1, <1>2, RequestFacts
  <2>2. ~(n > arrived')
    BY <1>1, <1>2
  <2>3. QED  BY <1>4, <2>1, <2>2 DEF Comings
<1>6. Past' = Past /\ n \notin Past
  <2>1. n \notin Past /\ n \notin Past'
    BY <1>3, <1>4, RequestFacts DEF Past, Ended
  <2>2. \A m \in Request \ {n} : m \in Past' <=> m \in Past
    BY <1>4 DEF Past
  <2>3. Past \subseteq Request \cup {Earlier} /\ Past' \subseteq Request \cup {Earlier} /\ Earlier \in Past /\ Earlier \in Past'
    BY DEF Past
  <2>4. QED  BY <2>1, <2>2, <2>3
<1>7. Befores'
  <2>1. before'[n] \subseteq Past' /\ Earlier \in before'[n]
    BY <1>4, <1>6 DEF Past
  <2>2. \A m \in Request \ {n} : before'[m] \subseteq Past' /\ (Running(m)' => Earlier \in before'[m])
    BY <1>4, <1>6 DEF Befores, Running
  <2>3. QED  BY <2>1, <2>2 DEF Befores
<1>8. \A u, v \in Past : Overlap(u, v)' <=> Overlap(u, v)
  <2> SUFFICES ASSUME NEW u \in Past, NEW v \in Past PROVE Overlap(u, v)' <=> Overlap(u, v)
    OBVIOUS
  <2>1. {u, v} \subseteq Request => before'[u] = before[u] /\ before'[v] = before[v]
    BY <1>4, <1>6
  <2>2. QED  BY <2>1 DEF Overlap
<1>9. before' \in [Request -> SUBSET (Request \cup {Earlier})]
  BY <1>1 DEF Past
<1>10. QED  BY <1>1, <1>2, <1>3, <1>4, <1>5, <1>6, <1>7, <1>8, <1>9

(***************************************************************************)
(* Translations: types and values                                          *)
(***************************************************************************)
TranslationRow == T!Translation \cup {T!Gone}

TranslationsTypes ==
    /\ translation \in [{"it"} -> [old : TranslationRow, new : TranslationRow, by : Request \cup {Nobody}]]
    /\ pc \in [Request -> {"idle", "load", "read", "write", "commit", "done", "failed"}]
    /\ ask \in [Request -> T!Ask \cup {Nothing}]
    /\ old \in [Request -> TranslationRow]
    /\ arrived \in 0..MaxRequests /\ faults \in 0..MaxFaults
    /\ before \in [Request -> SUBSET (Request \cup {Earlier})]
    /\ vetted \subseteq Text
    /\ wrote \in [{"text", "status"} -> Request \cup {Earlier}]

LEMMA TranslationsTypedNow == T!TranslationsTypeOK <=> TranslationsTypes
<1>1. {"idle"} \cup {"load", "read", "write", "commit"} \cup {"done", "failed"}
        = {"idle", "load", "read", "write", "commit", "done", "failed"}
  OBVIOUS
<1>2. QED
  BY <1>1, RequestFacts DEF TranslationsTypes, T!TranslationsTypeOK, T!RequestsTypeOK, T!Row, T!Column, T!Versions,
     T!Ended, TranslationRow

LEMMA TranslationsTyped ==
    /\ T!TranslationsTypeOK <=> TranslationsTypes
    /\ T!TranslationsTypeOK' <=> TranslationsTypes'
  BY TranslationsTypedNow, PTL

LEMMA TranslationFacts ==
    /\ T!Gone.status = "none" /\ T!Gone \notin T!Translation
    /\ \A r \in T!Translation : /\ r.id \in Request \cup {Earlier} /\ r.text \in Text
                                /\ r.status \in {"draft", "reviewed", "original"}
                                /\ DOMAIN r = {"id", "text", "status"}
    /\ \A a \in T!Ask : /\ a.kind \in {"save", "review", "delete"}
                        /\ a.kind = "save" => a.text \in Text /\ a.status \in {"draft", "reviewed"}
  BY RequestFacts DEF T!Gone, T!Translation, T!Ask

\* What a handler wants is a translation, and is reviewed only if the author has said so.
LEMMA WantedFacts ==
    ASSUME NEW a \in T!Ask, NEW row \in TranslationRow, a.kind # "delete",
           a.kind = "review" => row # T!Gone
    PROVE  /\ T!Wanted(row, a) \in T!Translation
           /\ T!Wanted(row, a).status = "reviewed" =>
                 \/ a.kind = "review" /\ T!Wanted(row, a).text = row.text
                 \/ a.kind = "save" /\ a.status = "reviewed" /\ T!Wanted(row, a).text = a.text
<1>1. CASE a.kind = "review"
  <2>1. T!Wanted(row, a) = [row EXCEPT !.status = "reviewed"]
    BY <1>1 DEF T!Wanted
  <2>2. QED  BY <1>1, <2>1 DEF T!Translation, TranslationRow
<1>2. CASE a.kind = "save" /\ row.status = "original"
  <2>1. T!Wanted(row, a) = IF a.by = "author" THEN [row EXCEPT !.text = a.text] ELSE row
    BY <1>2 DEF T!Wanted
  <2>2. QED  BY <1>2, <2>1, TranslationFacts DEF T!Translation, TranslationRow
<1>3. CASE a.kind = "save" /\ row.status # "original"
  <2>1. T!Wanted(row, a) = [row EXCEPT !.text = a.text, !.status = a.status]
    BY <1>3 DEF T!Wanted
  <2>2. a.text \in Text /\ a.status \in {"draft", "reviewed"}
    BY <1>3, TranslationFacts
  <2>3. row \in [id : Request \cup {0}, text : Text \cup {"none"}, status : {"draft", "reviewed", "original", "none"}]
    BY RequestFacts DEF T!Translation, T!Gone, T!Earlier, TranslationRow
  <2>4. T!Wanted(row, a) = [id |-> row.id, text |-> a.text, status |-> a.status]
    BY <2>1, <2>3
  <2>5. QED  BY <1>3, <2>2, <2>3, <2>4, RequestFacts DEF T!Translation, T!Earlier
<1>4. QED  BY <1>1, <1>2, <1>3, TranslationFacts

\* What the author has said yes to.
LEMMA VettedFacts ==
    ASSUME NEW n \in Request
    PROVE  /\ ask[n].kind = "review" => T!Vetted(n) = {old[n].text}
           /\ ask[n].kind = "save" /\ ask[n].status = "reviewed" => T!Vetted(n) = {ask[n].text}
  BY DEF T!Vetted

LEMMA VettedTyped ==
    ASSUME TranslationsInv, NEW n \in Request, pc[n] = "commit"
    PROVE  T!Vetted(n) \subseteq Text
<1>1. /\ ask[n] \in T!Ask /\ old[n] \in TranslationRow
      /\ ask[n].kind = "review" => old[n] # T!Gone
  BY TranslationsTyped DEF TranslationsTypes, TranslationsInv, Reviews, Running, Ended
<1>2. CASE ask[n].kind = "review"
  BY <1>1, <1>2, VettedFacts, TranslationFacts DEF TranslationRow
<1>3. CASE ask[n].kind = "save" /\ ask[n].status = "reviewed"
  BY <1>1, <1>3, VettedFacts, TranslationFacts
<1>4. CASE ask[n].kind # "review" /\ ~(ask[n].kind = "save" /\ ask[n].status = "reviewed")
  BY <1>4 DEF T!Vetted
<1>5. QED  BY <1>2, <1>3, <1>4

\* The columns a request has set are those that now differ from what there was.
LEMMA SetsFacts ==
    ASSUME NEW n \in Request
    PROVE  /\ T!Column = {"text", "status"} /\ T!Sets(n) \subseteq T!Column
           /\ translation["it"].by # n \/ ask[n].kind = "delete" => T!Sets(n) = {}
           /\ translation["it"].by = n /\ ask[n].kind # "delete" =>
                 \A f \in T!Column : f \in T!Sets(n) <=> old[n] = T!Gone \/ T!Wanted(old[n], ask[n])[f] # old[n][f]
  BY DEF T!Sets, T!Column

LEMMA DraftFacts ==
    ASSUME NEW n \in Request, translation["it"].by = n, Drafts(n)
    PROVE  \A f \in T!Column : translation["it"].new # T!Gone /\ f \notin T!Sets(n) =>
              translation["it"].old # T!Gone /\ translation["it"].new[f] = translation["it"].old[f]
  BY SetsFacts DEF Drafts

(***************************************************************************)
(* Translations: steps                                                     *)
(***************************************************************************)
\* A request that goes on, having looked or written.
LEMMA ReviewGoes ==
    ASSUME TranslationsInv, NEW n \in Request, pc[n] \in {"load", "read", "write"},
           NEW there \in {"read", "write", "commit"}, Goto(n, there),
           UNCHANGED <<ask, arrived, faults, before, vetted, wrote>>,
           NEW was \in TranslationRow, old' = [old EXCEPT ![n] = was],
           there \in {"write", "commit"} /\ ask[n].kind = "review" => was # T!Gone,
           Recalls(n)',
           \/ translation' = translation
           \/ \E row \in TranslationRow :
                 /\ translation' = [translation EXCEPT !["it"] = [old |-> @.old, new |-> row, by |-> n]]
                 /\ there = "commit" /\ Drafts(n)'
    PROVE  TranslationsInv'
<1>1. /\ translation \in [{"it"} -> [old : TranslationRow, new : TranslationRow, by : Request \cup {Nobody}]]
      /\ pc \in [Request -> {"idle", "load", "read", "write", "commit", "done", "failed"}]
      /\ old \in [Request -> TranslationRow]
  BY TranslationsTyped DEF TranslationsInv, TranslationsTypes
<1>2. Running(n)
  BY DEF Running, Ended
<1>3. /\ Comings' /\ Befores' /\ pc'[n] = there /\ \A m \in Request \ {n} : pc'[m] = pc[m]
      /\ Past \subseteq Past' /\ \A u, v : Overlap(u, v)' <=> Overlap(u, v)
  <2>1. DOMAIN pc = Request /\ there # "idle"
    BY <1>1
  <2>2. QED  BY <1>2, <2>1, GoingKeeps DEF TranslationsInv
<1>4. translation["it"].by # n
  BY DEF TranslationsInv, Reviews
<1>5. /\ translation' \in [{"it"} -> [old : TranslationRow, new : TranslationRow, by : Request \cup {Nobody}]]
      /\ translation'["it"].old = translation["it"].old
      /\ \/ translation'["it"] = translation["it"]
         \/ translation'["it"].by = n /\ there = "commit" /\ Drafts(n)'
  <2>1. CASE translation' = translation
    BY <1>1, <2>1
  <2>2. CASE translation' # translation
    <3>1. PICK row \in TranslationRow :
             /\ translation' = [translation EXCEPT !["it"] = [old |-> @.old, new |-> row, by |-> n]]
             /\ there = "commit" /\ Drafts(n)'
      BY <2>2
    <3>2. /\ translation'["it"].new = row /\ translation'["it"].old = translation["it"].old
          /\ translation'["it"].by = n
          /\ translation' \in [{"it"} -> [old : TranslationRow, new : TranslationRow, by : Request \cup {Nobody}]]
      BY <1>1, <3>1
    <3>3. QED  BY <3>1, <3>2
  <2>3. QED  BY <2>1, <2>2
<1>6. /\ pc' \in [Request -> {"idle", "load", "read", "write", "commit", "done", "failed"}]
      /\ old' \in [Request -> TranslationRow] /\ old'[n] = was
      /\ \A m \in Request \ {n} : old'[m] = old[m]
  BY <1>1 DEF Goto
<1>7. T!TranslationsTypeOK'
  BY <1>5, <1>6, TranslationsTyped DEF TranslationsInv, TranslationsTypes
<1>8. OneVersion(translation["it"])'
  BY <1>5, RequestFacts DEF TranslationsInv, OneVersion
<1>9. Reviews(n)'
  <2>1. ask[n] \in T!Ask
    BY <1>2 DEF TranslationsInv, Reviews
  <2>2. translation'["it"].by = n => pc'[n] = "commit" /\ Drafts(n)'
    BY <1>3, <1>4, <1>5
  <2>3. QED  BY <1>3, <1>6, <2>1, <2>2 DEF Reviews
<1>10. ASSUME NEW m \in Request \ {n} PROVE Reviews(m)'
  <2>1. Reviews(m) /\ pc'[m] = pc[m] /\ old'[m] = old[m]
    BY <1>3, <1>6 DEF TranslationsInv
  <2>2. translation'["it"].by = m => translation'["it"] = translation["it"]
    BY <1>5
  <2>3. Recalls(m) => Recalls(m)'
    BY <1>5, <2>1 DEF Recalls
  <2>4. translation'["it"].by = m /\ Drafts(m) => Drafts(m)'
    BY <2>1, <2>2 DEF Drafts
  <2>5. QED  BY <2>1, <2>2, <2>3, <2>4 DEF Reviews, Running
<1>11. T!ReviewedIsVetted'
  BY <1>3, <1>5, OverlapFacts, RequestFacts DEF TranslationsInv, T!ReviewedIsVetted, T!Overlap
<1>12. \A f \in T!Column : wrote'[f] \in Past'
  BY <1>3 DEF TranslationsInv
<1>13. QED  BY <1>3, <1>7, <1>8, <1>9, <1>10, <1>11, <1>12 DEF TranslationsInv

\* A request that ends, and releases its row.
LEMMA ReviewEnds ==
    ASSUME TranslationsInv, NEW n \in Request, Running(n), NEW there \in Ended,
           Leave(n, there, T!Gone), faults' \in 0..MaxFaults,
           translation' \in [{"it"} -> [old : TranslationRow, new : TranslationRow, by : Request \cup {Nobody}]],
           translation'["it"].by # n,
           translation'["it"] = translation["it"] \/ (OneVersion(translation["it"])' /\ translation'["it"].by = Nobody),
           vetted' \subseteq Text, wrote' \in [{"text", "status"} -> Request \cup {Earlier}],
           \A f \in T!Column : wrote'[f] \in Past \cup {n},
           \A m \in Request \ {n} : Recalls(m) => Recalls(m)',
           T!ReviewedIsVetted'
    PROVE  TranslationsInv'
<1>1. /\ pc \in [Request -> {"idle", "load", "read", "write", "commit", "done", "failed"}]
      /\ ask \in [Request -> T!Ask \cup {Nothing}]
      /\ old \in [Request -> TranslationRow]
  BY TranslationsTyped DEF TranslationsInv, TranslationsTypes
<1>2. /\ Goto(n, there) /\ ask' = [ask EXCEPT ![n] = Nothing] /\ old' = [old EXCEPT ![n] = T!Gone]
      /\ arrived' = arrived /\ before' = before
  BY DEF Leave
<1>3. /\ Comings' /\ Befores' /\ pc'[n] = there /\ \A m \in Request \ {n} : pc'[m] = pc[m]
      /\ Past \cup {n} \subseteq Past'
  <2>1. DOMAIN pc = Request /\ there # "idle"
    BY <1>1 DEF Ended
  <2>2. QED  BY <1>2, <2>1, GoingKeeps DEF TranslationsInv
<1>4. /\ pc' \in [Request -> {"idle", "load", "read", "write", "commit", "done", "failed"}]
      /\ ask' \in [Request -> T!Ask \cup {Nothing}]
      /\ old' \in [Request -> TranslationRow]
      /\ \A m \in Request \ {n} : ask'[m] = ask[m] /\ old'[m] = old[m]
  BY <1>1, <1>2 DEF Goto, Ended, TranslationRow
<1>5. T!TranslationsTypeOK'
  BY <1>2, <1>4, TranslationsTyped DEF TranslationsInv, TranslationsTypes
<1>6. OneVersion(translation["it"])'
  BY DEF TranslationsInv, OneVersion
<1>7. Reviews(n)'
  BY <1>3 DEF Reviews, Running, Ended
<1>8. ASSUME NEW m \in Request \ {n} PROVE Reviews(m)'
  <2>1. Reviews(m) /\ pc'[m] = pc[m] /\ old'[m] = old[m] /\ ask'[m] = ask[m]
    BY <1>3, <1>4 DEF TranslationsInv
  <2>2. translation'["it"].by = m => translation'["it"] = translation["it"]
    BY RequestFacts
  <2>3. translation'["it"].by = m /\ Drafts(m) => Drafts(m)'
    BY <2>1, <2>2 DEF Drafts
  <2>4. QED  BY <2>1, <2>2, <2>3 DEF Reviews, Running
<1>9. \A f \in T!Column : wrote'[f] \in Past'
  BY <1>3
<1>10. QED  BY <1>3, <1>5, <1>6, <1>7, <1>8, <1>9 DEF TranslationsInv

LEMMA ReviewRollsBack ==
    ASSUME TranslationsInv, NEW n \in Request, Running(n), T!Rollback(n), faults' \in 0..MaxFaults
    PROVE  TranslationsInv'
<1>1. /\ translation' = RollbackRows(translation, n) /\ Leave(n, "failed", T!Gone)
      /\ vetted' = vetted /\ wrote' = wrote
  BY RequestFacts DEF T!Rollback, T!RollbackRows, RollbackRows, T!Committed, Committed, T!Nobody, Nobody,
     T!Leave, Leave, T!Goto, Goto, T!history, T!Nothing, Nothing
<1>2. /\ translation \in [{"it"} -> [old : TranslationRow, new : TranslationRow, by : Request \cup {Nobody}]]
      /\ vetted' \subseteq Text /\ wrote' \in [{"text", "status"} -> Request \cup {Earlier}]
      /\ \A f \in T!Column : wrote'[f] \in Past
  BY <1>1, TranslationsTyped DEF TranslationsInv, TranslationsTypes
<1>3. translation'["it"] = IF translation["it"].by = n THEN Committed(translation["it"].old) ELSE translation["it"]
  BY <1>1, <1>2 DEF RollbackRows
<1>4. translation' \in [{"it"} -> [old : TranslationRow, new : TranslationRow, by : Request \cup {Nobody}]]
  BY <1>1, <1>2 DEF RollbackRows, Committed
<1>5. /\ translation'["it"].by # n /\ translation'["it"].old = translation["it"].old
      /\ translation'["it"] = translation["it"] \/ (OneVersion(translation["it"])' /\ translation'["it"].by = Nobody)
  BY <1>3, RequestFacts DEF Committed, OneVersion
<1>6. before' = before /\ \A m \in Request \ {n} : old'[m] = old[m]
  BY <1>1, TranslationsTyped DEF Leave, TranslationsInv, TranslationsTypes
<1>7. T!ReviewedIsVetted'
  BY <1>1, <1>5, <1>6, RequestFacts DEF TranslationsInv, T!ReviewedIsVetted, T!Overlap
<1>8. \A m \in Request \ {n} : Recalls(m) => Recalls(m)'
  BY <1>1, <1>5, <1>6 DEF Recalls
<1>9. QED  BY <1>1, <1>2, <1>4, <1>5, <1>7, <1>8, ReviewEnds DEF Ended

\* What is shown as reviewed when a request has committed.
LEMMA ReviewSettled ==
    ASSUME TranslationsInv, NEW n \in Request, pc[n] = "commit", translation["it"].by = n,
           translation["it"].new.status = "reviewed"
    PROVE  \/ translation["it"].new.text \in vetted \cup T!Vetted(n)
           \/ "text" \in T!Sets(n) /\ "status" \notin T!Sets(n) /\ Overlap(n, wrote["status"])
           \/ "text" \notin T!Sets(n) /\ "status" \in T!Sets(n) /\ Overlap(wrote["text"], n)
           \/ T!Sets(n) = {} /\ Overlap(wrote["text"], wrote["status"])
<1> DEFINE wanted == T!Wanted(old[n], ask[n])
           new == translation["it"].new
           row == translation["it"].old
<1>1. /\ ask[n] \in T!Ask /\ Recalls(n) /\ Drafts(n) /\ Running(n)
      /\ ask[n].kind = "review" => old[n] # T!Gone
  BY DEF TranslationsInv, Reviews, Running, Ended
<1>2. old[n] \in TranslationRow /\ ask[n].kind # "delete"
  BY <1>1, TranslationsTyped, TranslationFacts DEF TranslationsInv, TranslationsTypes, Drafts
<1>3. wanted.status = "reviewed" =>
         /\ ask[n].kind = "save" \/ (ask[n].kind = "review" /\ wanted.text = old[n].text)
         /\ wanted.text \in T!Vetted(n)
  BY <1>1, <1>2, WantedFacts, VettedFacts
<1>4. \A w \in Past : w \notin before[n] => Overlap(w, n) /\ Overlap(n, w)
  BY <1>1, Meets DEF TranslationsInv
<1>5. wrote["text"] \in Past /\ wrote["status"] \in Past
  BY DEF TranslationsInv, T!Column
<1> HIDE DEF wanted
<1>6. CASE old[n] = T!Gone
  <2>1. new.text = wanted.text /\ new.status = wanted.status
    BY <1>1, <1>2, <1>6 DEF Drafts, T!Column, wanted
  <2>2. QED  BY <1>3, <2>1
<1>7. CASE old[n] # T!Gone
  <2>1. /\ row # T!Gone
        /\ new.text = IF wanted.text = old[n].text THEN row.text ELSE wanted.text
        /\ new.status = IF wanted.status = old[n].status THEN row.status ELSE wanted.status
    BY <1>1, <1>2, <1>7 DEF Drafts, T!Column, wanted
  <2>2. /\ "text" \in T!Sets(n) <=> wanted.text # old[n].text
        /\ "status" \in T!Sets(n) <=> wanted.status # old[n].status
        /\ T!Sets(n) \subseteq {"text", "status"}
    BY <1>2, <1>7, SetsFacts DEF wanted
  <2>3. /\ wrote["text"] \in before[n] => old[n].text = row.text
        /\ wrote["status"] \in before[n] => old[n].status = row.status
    BY <1>1, <2>1 DEF Recalls, T!Column
  <2>4. CASE wanted.text # old[n].text /\ wanted.status # old[n].status
    BY <1>3, <2>1, <2>4
  <2>5. CASE wanted.text = old[n].text /\ wanted.status # old[n].status
    BY <1>3, <1>4, <1>5, <2>1, <2>2, <2>3, <2>5
  <2>6. CASE wanted.text # old[n].text /\ wanted.status = old[n].status
    BY <1>3, <1>4, <1>5, <2>1, <2>2, <2>3, <2>6
  <2>7. CASE wanted.text = old[n].text /\ wanted.status = old[n].status
    <3>1. row.status = "reviewed" /\ row.text = new.text /\ T!Sets(n) = {}
      BY <2>1, <2>2, <2>7
    <3>2. QED  BY <3>1, OverlapFacts DEF TranslationsInv, T!ReviewedIsVetted
  <2>8. QED  BY <2>4, <2>5, <2>6, <2>7
<1>8. QED  BY <1>6, <1>7

LEMMA ReviewCommits ==
    ASSUME TranslationsInv, NEW n \in Request, T!Commit(n)
    PROVE  TranslationsInv'
<1>1. /\ pc[n] = "commit" /\ translation' = CommitRows(translation, n) /\ Leave(n, "done", T!Gone)
      /\ vetted' = vetted \cup T!Vetted(n) /\ faults' = faults
      /\ wrote' = [f \in T!Column |-> IF f \in T!Sets(n) THEN n ELSE wrote[f]]
  BY RequestFacts DEF T!Commit, T!CommitRows, CommitRows, T!Committed, Committed, T!Nobody, Nobody,
     T!Leave, Leave, T!Goto, Goto, T!Nothing, Nothing
<1>2. /\ translation \in [{"it"} -> [old : TranslationRow, new : TranslationRow, by : Request \cup {Nobody}]]
      /\ vetted \subseteq Text /\ faults \in 0..MaxFaults
      /\ wrote \in [{"text", "status"} -> Request \cup {Earlier}]
  BY TranslationsTyped DEF TranslationsInv, TranslationsTypes
<1>3. translation'["it"] = IF translation["it"].by = n THEN Committed(translation["it"].new) ELSE translation["it"]
  BY <1>1, <1>2 DEF CommitRows
<1>4. translation' \in [{"it"} -> [old : TranslationRow, new : TranslationRow, by : Request \cup {Nobody}]]
  BY <1>1, <1>2 DEF CommitRows, Committed
<1>5. /\ translation'["it"].by # n
      /\ translation'["it"] = translation["it"] \/ (OneVersion(translation["it"])' /\ translation'["it"].by = Nobody)
  BY <1>3, RequestFacts DEF Committed, OneVersion
<1>6. /\ before' = before /\ Running(n) /\ Reviews(n)
      /\ \A m \in Request \ {n} : old'[m] = old[m]
  BY <1>1, TranslationsTyped DEF Leave, TranslationsInv, TranslationsTypes, Running, Ended
<1>7. /\ \A f \in T!Column : wrote'[f] = IF f \in T!Sets(n) THEN n ELSE wrote[f]
      /\ T!Column = {"text", "status"}
  BY <1>1 DEF T!Column
<1>8. /\ wrote' \in [{"text", "status"} -> Request \cup {Earlier}]
      /\ \A f \in T!Column : wrote'[f] \in Past \cup {n}
  BY <1>1, <1>2, <1>7 DEF TranslationsInv
<1>9. \A u, v : Overlap(u, v)' <=> Overlap(u, v)
  BY <1>6 DEF Overlap
<1>10. T!ReviewedIsVetted'
  <2>1. T!Overlap(wrote["text"], wrote["status"])' <=> Overlap(wrote'["text"], wrote'["status"])
    BY <1>6, RequestFacts DEF T!Overlap, Overlap
  <2>2. CASE translation["it"].by = n
    <3>1. translation'["it"].old = translation["it"].new
      BY <1>3, <2>2 DEF Committed
    <3>2. /\ wrote'["text"] = IF "text" \in T!Sets(n) THEN n ELSE wrote["text"]
          /\ wrote'["status"] = IF "status" \in T!Sets(n) THEN n ELSE wrote["status"]
      BY <1>7
    <3>3. QED  BY <1>1, <2>1, <2>2, <3>1, <3>2, ReviewSettled DEF T!ReviewedIsVetted
  <2>3. CASE translation["it"].by # n
    <3>1. translation'["it"] = translation["it"] /\ T!Sets(n) = {}
      BY <1>3, <2>3, SetsFacts
    <3>2. wrote'["text"] = wrote["text"] /\ wrote'["status"] = wrote["status"]
      BY <1>7, <3>1
    <3>3. QED  BY <1>1, <2>1, <3>1, <3>2, OverlapFacts DEF TranslationsInv, T!ReviewedIsVetted
  <2>4. QED  BY <2>2, <2>3
<1>11. ASSUME NEW m \in Request \ {n}, Recalls(m) PROVE Recalls(m)'
  <2> SUFFICES ASSUME NEW f \in T!Column, translation'["it"].old # T!Gone, wrote'[f] \in before[m]
               PROVE  old[m] # T!Gone /\ old[m][f] = translation'["it"].old[f]
    BY <1>6 DEF Recalls
  <2>1. f \notin T!Sets(n) /\ wrote'[f] = wrote[f]
    <3>1. n \notin before[m]
      BY <1>6, Meets, RequestFacts DEF TranslationsInv, Befores, Past, Running
    <3>2. QED  BY <1>7, <3>1
  <2>2. translation["it"].old # T!Gone /\ translation'["it"].old[f] = translation["it"].old[f]
    <3>1. CASE translation["it"].by = n
      <4>1. translation'["it"].old = translation["it"].new
        BY <1>3, <3>1 DEF Committed
      <4>2. Drafts(n)
        BY <1>6, <3>1 DEF Reviews
      <4>3. QED  BY <2>1, <3>1, <4>1, <4>2, DraftFacts
    <3>2. CASE translation["it"].by # n
      BY <1>3, <3>2
    <3>3. QED  BY <3>1, <3>2
  <2>3. QED  BY <1>11, <2>1, <2>2 DEF Recalls
<1>12. vetted' \subseteq Text
  BY <1>1, <1>2, VettedTyped
<1>13. QED  BY <1>1, <1>2, <1>4, <1>5, <1>6, <1>8, <1>10, <1>11, <1>12, ReviewEnds DEF Ended

LEMMA ReviewArrives ==
    ASSUME TranslationsInv, NEW n \in Request, NEW a \in T!Ask, T!Arrive(n, a)
    PROVE  TranslationsInv'
<1>1. ArriveAt(n, a, "load") /\ translation' = translation /\ vetted' = vetted /\ wrote' = wrote
  BY RequestFacts DEF T!Arrive, T!ArriveAt, ArriveAt, T!Goto, Goto, T!Ended, Ended, T!history
<1>2. TranslationsTypes
  BY TranslationsTyped DEF TranslationsInv
<1>3. /\ Comings' /\ Befores'
      /\ before' \in [Request -> SUBSET (Request \cup {Earlier})] /\ arrived' \in 0..MaxRequests
      /\ pc[n] = "idle" /\ pc'[n] = "load" /\ ask'[n] = a
      /\ \A m \in Request \ {n} : pc'[m] = pc[m] /\ ask'[m] = ask[m] /\ before'[m] = before[m]
      /\ Past' = Past
      /\ \A u, v \in Past : Overlap(u, v)' <=> Overlap(u, v)
  <2>1. /\ DOMAIN pc = Request /\ DOMAIN ask = Request /\ arrived \in 0..MaxRequests
        /\ before \in [Request -> SUBSET (Request \cup {Earlier})]
    BY <1>2 DEF TranslationsTypes
  <2>2. "load" # "idle" /\ "load" \notin Ended
    BY DEF Ended
  <2>3. QED  BY <1>1, <2>1, <2>2, ComingKeeps DEF TranslationsInv
<1>4. old' = old /\ faults' = faults
  BY <1>1 DEF ArriveAt
<1>5. T!TranslationsTypeOK'
  <2>1. pc' \in [Request -> {"idle", "load", "read", "write", "commit", "done", "failed"}]
    BY <1>1, <1>2 DEF ArriveAt, Goto, TranslationsTypes
  <2>2. ask' \in [Request -> T!Ask \cup {Nothing}]
    BY <1>1, <1>2 DEF ArriveAt, TranslationsTypes
  <2>3. QED  BY <1>1, <1>2, <1>3, <1>4, <2>1, <2>2, TranslationsTyped DEF TranslationsTypes
<1>6. OneVersion(translation["it"])' /\ \A f \in T!Column : wrote'[f] \in Past'
  BY <1>1, <1>3 DEF TranslationsInv, OneVersion
<1>7. T!ReviewedIsVetted'
  <2>1. wrote["text"] \in Past /\ wrote["status"] \in Past
    BY DEF TranslationsInv, T!Column
  <2>2. T!Overlap(wrote["text"], wrote["status"])' <=> Overlap(wrote["text"], wrote["status"])'
    BY RequestFacts DEF T!Overlap, Overlap
  <2>3. T!Overlap(wrote["text"], wrote["status"])' <=> T!Overlap(wrote["text"], wrote["status"])
    BY <1>1, <1>3, <2>1, <2>2, OverlapFacts
  <2>4. QED  BY <1>1, <2>3 DEF TranslationsInv, T!ReviewedIsVetted
<1>8. Reviews(n)'
  <2>1. translation["it"].by # n
    BY <1>3 DEF TranslationsInv, Reviews
  <2>2. QED  BY <1>1, <1>3, <2>1 DEF Reviews
<1>9. ASSUME NEW m \in Request \ {n} PROVE Reviews(m)'
  <2>1. Reviews(m) /\ pc'[m] = pc[m] /\ ask'[m] = ask[m] /\ before'[m] = before[m]
    BY <1>3 DEF TranslationsInv
  <2>2. Recalls(m) => Recalls(m)'
    BY <1>1, <1>4, <2>1 DEF Recalls
  <2>3. Drafts(m) => Drafts(m)'
    BY <1>1, <1>4, <2>1 DEF Drafts
  <2>4. QED  BY <1>1, <1>4, <2>1, <2>2, <2>3 DEF Reviews, Running
<1>10. QED  BY <1>3, <1>5, <1>6, <1>7, <1>8, <1>9 DEF TranslationsInv

\* What a handler reads, and where it goes with it.
LEMMA ReviewReads ==
    ASSUME TranslationsInv, NEW n \in Request, T!Load(n) \/ T!SaveRead(n) \/ T!DecideRead(n)
    PROVE  TranslationsInv'
<1>1. TranslationsTypes
  BY TranslationsTyped DEF TranslationsInv
<1>2. translation["it"].old \in TranslationRow /\ old[n] \in TranslationRow
  BY <1>1 DEF TranslationsTypes
<1>3. pc[n] \in {"load", "read"}
  BY DEF T!Load, T!SaveRead, T!DecideRead
<1>4. Running(n)
  BY <1>3 DEF Running, Ended
<1>5. Reviews(n)
  BY DEF TranslationsInv
<1>6. CASE T!Load(n)
  <2>1. /\ Goto(n, "read") /\ old' = [old EXCEPT ![n] = translation["it"].old]
        /\ UNCHANGED <<ask, arrived, faults, before, vetted, wrote, translation>>
    BY <1>6 DEF T!Load, T!Read, T!Goto, Goto, T!bounds, T!history
  <2>2. Recalls(n)'
    <3>1. old'[n] = translation'["it"].old
      BY <1>1, <2>1 DEF TranslationsTypes
    <3>2. QED  BY <3>1 DEF Recalls
  <2>3. QED  BY <1>2, <1>3, <2>1, <2>2, ReviewGoes
<1>7. ASSUME NEW there \in {"write", "commit"}, T!Read(n, T!Found(n), there), pc[n] = "read",
             UNCHANGED <<translation, vetted, wrote>>, ask[n].kind = "review" => T!Found(n) # T!Gone
      PROVE  TranslationsInv'
  <2>1. Goto(n, there) /\ old' = [old EXCEPT ![n] = T!Found(n)] /\ UNCHANGED <<ask, arrived, faults, before>>
    BY <1>7 DEF T!Read, T!Goto, Goto, T!bounds
  <2>2. T!Found(n) \in TranslationRow
    BY <1>2 DEF T!Found
  <2>3. Recalls(n)'
    <3>1. old'[n] = T!Found(n) /\ T!Found(n) \in {old[n], translation["it"].old}
      BY <1>1, <2>1 DEF TranslationsTypes, T!Found
    <3>2. Recalls(n)
      BY <1>5, <1>7 DEF Reviews
    <3>3. QED  BY <1>7, <2>1, <3>1, <3>2 DEF Recalls
  <2>4. QED  BY <1>7, <2>1, <2>2, <2>3, ReviewGoes
<1>8. \A row : T!Onward(n, row) \subseteq {"write", "commit"}
  BY DEF T!Onward
<1>9. CASE T!SaveRead(n)
  <2>1. /\ pc[n] = "read" /\ ask[n].kind # "review"
        /\ \E there \in T!Onward(n, T!Found(n)) : T!Read(n, T!Found(n), there)
        /\ UNCHANGED <<translation, vetted, wrote>>
    BY <1>9 DEF T!SaveRead, T!history
  <2>2. QED  BY <1>7, <1>8, <2>1
<1>10. CASE T!DecideRead(n)
  <2>1. CASE T!Rollback(n) /\ faults' = faults
    BY <1>1, <1>4, <2>1, ReviewRollsBack DEF TranslationsTypes
  <2>2. CASE ~(T!Rollback(n) /\ faults' = faults)
    <3>1. /\ pc[n] = "read" /\ T!Found(n) # T!Gone
          /\ \E there \in T!Onward(n, T!Found(n)) : T!Read(n, T!Found(n), there)
          /\ UNCHANGED <<translation, vetted, wrote>>
      BY <1>10, <2>2 DEF T!DecideRead, T!history
    <3>2. QED  BY <1>7, <1>8, <3>1
  <2>3. QED  BY <2>1, <2>2
<1>11. QED  BY <1>6, <1>9, <1>10

\* What a handler writes.
LEMMA ReviewWrites ==
    ASSUME TranslationsInv, NEW n \in Request, T!Insert(n) \/ T!Update(n) \/ T!Delete(n)
    PROVE  TranslationsInv'
<1>1. TranslationsTypes
  BY TranslationsTyped DEF TranslationsInv
<1>2. /\ translation["it"].old \in TranslationRow /\ translation["it"].new \in TranslationRow
      /\ old[n] \in TranslationRow /\ old = [old EXCEPT ![n] = old[n]]
  BY <1>1 DEF TranslationsTypes
<1>3. /\ pc[n] = "write" /\ translation["it"].by \in {Nobody, n}
  BY RequestFacts DEF T!Insert, T!Update, T!Delete, T!MayWrite
<1>4. Running(n)
  BY <1>3 DEF Running, Ended
<1>5. /\ ask[n] \in T!Ask
      /\ ask[n].kind = "review" => old[n] # T!Gone
      /\ Recalls(n)
      /\ translation["it"].new = translation["it"].old
  BY <1>3, <1>4 DEF TranslationsInv, Reviews, OneVersion
<1>6. ASSUME T!Rollback(n), faults' = faults
      PROVE  TranslationsInv'
  BY <1>1, <1>4, <1>6, ReviewRollsBack DEF TranslationsTypes
<1>7. ASSUME NEW row \in TranslationRow, T!Set(n, row),
             ask[n].kind = "delete" => row = T!Gone,
             ask[n].kind # "delete" /\ old[n] = T!Gone =>
                \A f \in T!Column : row[f] = T!Wanted(old[n], ask[n])[f],
             ask[n].kind # "delete" /\ old[n] # T!Gone =>
                /\ translation["it"].old # T!Gone
                /\ \A f \in T!Column : row[f] = IF T!Wanted(old[n], ask[n])[f] = old[n][f]
                                                THEN translation["it"].old[f] ELSE T!Wanted(old[n], ask[n])[f]
      PROVE  TranslationsInv'
  <2>1. /\ translation' = [translation EXCEPT !["it"] = [old |-> @.old, new |-> row, by |-> n]]
        /\ Goto(n, "commit") /\ UNCHANGED <<ask, old, arrived, faults, before, vetted, wrote>>
    BY <1>7 DEF T!Set, T!Write, T!Step, T!Goto, Goto, T!bounds, T!history
  <2>2. translation'["it"].old = translation["it"].old /\ translation'["it"].new = row
    BY <1>1, <2>1 DEF TranslationsTypes
  <2>3. Recalls(n)'
    BY <1>5, <2>1, <2>2 DEF Recalls
  <2>4. Drafts(n)'
    BY <1>7, <2>1, <2>2 DEF Drafts
  <2>5. old' = [old EXCEPT ![n] = old[n]]
    BY <1>2, <2>1
  <2>6. QED  BY <1>2, <1>3, <1>5, <1>7, <2>1, <2>3, <2>4, <2>5, ReviewGoes
<1>8. CASE T!Insert(n)
  <2>1. CASE translation["it"].new = T!Gone
    <3> DEFINE wanted == T!Wanted(T!Gone, ask[n])
               row == [wanted EXCEPT !.id = n]
    <3>1. ask[n].kind = "save" /\ T!Set(n, row) /\ old[n] = T!Gone
      BY <1>8, <2>1 DEF T!Insert
    <3>2. wanted \in T!Translation
      BY <1>5, <3>1, WantedFacts DEF TranslationRow
    <3>3. row \in TranslationRow /\ row.status = wanted.status /\ row.text = wanted.text
      BY <3>2, RequestFacts DEF T!Translation, TranslationRow
    <3> HIDE DEF row
    <3>4. \A f \in T!Column : row[f] = T!Wanted(old[n], ask[n])[f]
      BY <3>1, <3>3 DEF T!Column
    <3>5. QED  BY <1>7, <3>1, <3>3, <3>4
  <2>2. CASE translation["it"].new # T!Gone
    BY <1>6, <1>8, <2>2 DEF T!Insert
  <2>3. QED  BY <2>1, <2>2
<1>9. CASE T!Update(n)
  <2>1. CASE translation["it"].new # T!Gone /\ translation["it"].new.id = old[n].id
    <3> DEFINE now == translation["it"].new
               wanted == T!Wanted(old[n], ask[n])
               row == [f \in DOMAIN now |-> IF wanted[f] = old[n][f] THEN now[f] ELSE wanted[f]]
    <3>1. ask[n].kind # "delete" /\ old[n] # T!Gone /\ T!Set(n, row)
      BY <1>9, <2>1 DEF T!Update
    <3>2. now \in T!Translation /\ old[n] \in T!Translation /\ wanted \in T!Translation
      BY <1>2, <1>5, <2>1, <3>1, WantedFacts DEF TranslationRow
    <3> HIDE DEF wanted, now
    <3>3. DOMAIN now = {"id", "text", "status"}
      BY <3>2 DEF T!Translation
    <3>4. /\ row = [id |-> row.id, text |-> row.text, status |-> row.status]
          /\ row.id = IF wanted.id = old[n].id THEN now.id ELSE wanted.id
          /\ row.text = IF wanted.text = old[n].text THEN now.text ELSE wanted.text
          /\ row.status = IF wanted.status = old[n].status THEN now.status ELSE wanted.status
      BY <3>3
    <3> HIDE DEF row
    <3>5. row \in TranslationRow
      BY <3>2, <3>4 DEF T!Translation, TranslationRow
    <3>6. /\ translation["it"].old = now /\ now # T!Gone
          /\ \A f \in T!Column : row[f] = IF wanted[f] = old[n][f] THEN now[f] ELSE wanted[f]
      BY <1>5, <2>1, <3>4 DEF T!Column, now
    <3>7. /\ translation["it"].old # T!Gone
          /\ \A f \in T!Column : row[f] = IF T!Wanted(old[n], ask[n])[f] = old[n][f]
                                          THEN translation["it"].old[f] ELSE T!Wanted(old[n], ask[n])[f]
      BY <3>6 DEF wanted
    <3>8. QED  BY <1>7, <3>1, <3>5, <3>7
  <2>2. CASE ~(translation["it"].new # T!Gone /\ translation["it"].new.id = old[n].id)
    BY <1>6, <1>9, <2>2 DEF T!Update
  <2>3. QED  BY <2>1, <2>2
<1>10. CASE T!Delete(n)
  <2>1. CASE translation["it"].new.id = old[n].id
    <3>1. T!Set(n, T!Gone) /\ ask[n].kind = "delete" /\ T!Gone \in TranslationRow
      BY <1>10, <2>1 DEF T!Delete, TranslationRow
    <3>2. QED  BY <1>7, <3>1
  <2>2. CASE translation["it"].new.id # old[n].id
    <3>1. /\ Goto(n, "commit") /\ UNCHANGED <<translation, ask, old, arrived, faults, before, vetted, wrote>>
      BY <1>10, <2>2 DEF T!Delete, T!Step, T!Goto, Goto, T!bounds, T!history
    <3>2. Recalls(n)'
      BY <1>5, <3>1 DEF Recalls
    <3>3. QED  BY <1>2, <1>3, <1>5, <3>1, <3>2, ReviewGoes
  <2>3. QED  BY <2>1, <2>2
<1>11. QED  BY <1>8, <1>9, <1>10

LEMMA TranslationsInitial == ASSUME part = "translation", Init PROVE TranslationsInv
<1>1. T!Init
  BY DEF Init
<1>2. PICK row \in {T!Gone} \cup {r \in T!Translation : r.id = T!Earlier} :
         /\ translation = [i \in {"it"} |-> [old |-> row, new |-> row, by |-> Nobody]]
         /\ vetted = IF row.status = "reviewed" THEN {row.text} ELSE {}
  BY <1>1, RequestFacts DEF T!Init, T!Row, T!Committed
<1>3. /\ row \in TranslationRow /\ translation["it"].old = row /\ translation["it"].new = row
      /\ translation["it"].by = Nobody /\ wrote = [f \in {"text", "status"} |-> Earlier]
  BY <1>1, <1>2, RequestFacts DEF TranslationRow, T!Init, T!Column
<1>4. /\ pc = [n \in Request |-> "idle"] /\ ask = [n \in Request |-> Nothing]
      /\ old = [n \in Request |-> T!Gone] /\ arrived = 0 /\ faults = 0
      /\ before = [n \in Request |-> {}]
  BY <1>1, RequestFacts DEF T!Init, T!InitRequests
<1>5. T!TranslationsTypeOK
  <2>1. vetted \subseteq Text
    BY <1>2, <1>3, TranslationFacts DEF TranslationRow
  <2>2. arrived \in 0..MaxRequests /\ faults \in 0..MaxFaults
    BY <1>4, RequestsAssumption, FaultsAssumption
  <2>3. translation \in [{"it"} -> [old : TranslationRow, new : TranslationRow, by : Request \cup {Nobody}]]
    BY <1>2, <1>3
  <2>4. QED  BY <1>3, <1>4, <2>1, <2>2, <2>3, TranslationsTyped DEF TranslationsTypes, TranslationRow
<1>6. Comings /\ Befores /\ \A n \in Request : ~Running(n) /\ n > 0
  BY <1>4, RequestsAssumption DEF Comings, Befores, Running, Request
<1>7. \A n \in Request : Reviews(n)
  BY <1>3, <1>4, <1>6, RequestFacts DEF Reviews
<1>8. OneVersion(translation["it"]) /\ T!ReviewedIsVetted /\ \A f \in T!Column : wrote[f] \in Past
  BY <1>2, <1>3 DEF OneVersion, T!ReviewedIsVetted, T!Column, Past
<1>9. QED  BY <1>5, <1>6, <1>7, <1>8 DEF TranslationsInv

LEMMA TranslationsStay ==
    ASSUME TranslationsInv, UNCHANGED <<translation, vetted, wrote, pc, ask, old, arrived, faults, before>>
    PROVE  TranslationsInv'
<1>1. T!TranslationsTypeOK' /\ Comings' /\ Befores' /\ OneVersion(translation["it"])' /\ Past' = Past
  BY DEF TranslationsInv, Comings, Befores, Past, Running, OneVersion, T!TranslationsTypeOK, T!RequestsTypeOK
<1>2. T!ReviewedIsVetted' /\ \A f \in T!Column : wrote'[f] \in Past'
  BY <1>1 DEF TranslationsInv, T!ReviewedIsVetted, T!Overlap
<1>3. \A n \in Request : Reviews(n)'
  BY DEF TranslationsInv, Reviews, Running, Recalls, Drafts
<1>4. QED  BY <1>1, <1>2, <1>3 DEF TranslationsInv

LEMMA TranslationsStep == ASSUME TranslationsInv, T!Next PROVE TranslationsInv'
<1>1. CASE T!Quiescent
  BY <1>1, TranslationsStay DEF T!Quiescent, T!vars, T!history, T!requests, T!bounds
<1>2. CASE ~T!Quiescent
  <2>1. PICK n \in Request :
          \/ \E a \in T!Ask : T!Arrive(n, a)
          \/ T!Refuse(n) \/ T!Load(n) \/ T!SaveRead(n) \/ T!DecideRead(n)
          \/ T!Insert(n) \/ T!Update(n) \/ T!Delete(n) \/ T!Commit(n) \/ T!Die(n)
    BY <1>2, RequestFacts DEF T!Next
  <2>2. faults \in 0..MaxFaults
    BY TranslationsTyped DEF TranslationsInv, TranslationsTypes
  <2>3. CASE T!Refuse(n)
    BY <2>2, <2>3, ReviewRollsBack DEF T!Refuse, Running, Ended
  <2>4. CASE T!Die(n)
    <3>1. T!Rollback(n) /\ Running(n) /\ faults < MaxFaults /\ faults' = faults + 1
      BY <2>4, RunningFacts DEF T!Die, T!Dies
    <3>2. faults' \in 0..MaxFaults
      BY <2>2, <3>1, FaultsAssumption
    <3>3. QED  BY <3>1, <3>2, ReviewRollsBack
  <2>5. QED  BY <2>1, <2>3, <2>4, ReviewArrives, ReviewReads, ReviewWrites, ReviewCommits
<1>3. QED  BY <1>1, <1>2

(***************************************************************************)
(* Nutrition: types and values                                             *)
(***************************************************************************)
LinkRow == N!Link \cup {N!NoRow}
CacheRow == N!Facts \cup {N!Gone}
CookPlaces == {"idle", "lookup", "recipe", "ingredients", "select", "save",
               "read", "link", "serves", "list", "commit", "done", "failed"}
Reading == [servings : N!Serves, total : SUBSET Food, cache : CacheRow, list : SUBSET N!Ingredient]

NutritionTypes ==
    /\ recipe \in [{"it"} -> [old : N!Serves, new : N!Serves, by : Request \cup {Nobody}]]
    /\ ingredient \in [N!Ingredient -> [old : LinkRow, new : LinkRow, by : Request \cup {Nobody}]]
    /\ cache \in [{"it"} -> [old : CacheRow, new : CacheRow, by : Request \cup {Nobody}]]
    /\ pc \in [Request -> CookPlaces]
    /\ ask \in [Request -> N!Ask \cup {Nothing}]
    /\ old \in [Request -> Reading]
    /\ arrived \in 0..MaxRequests /\ faults \in 0..MaxFaults
    /\ before \in [Request -> SUBSET (Request \cup {Earlier})]
    /\ wrote \in [{"total", "servings", "per"} -> Request \cup {Earlier}]
    /\ calc \in Request \cup {Earlier} /\ relinked \subseteq Request

LEMMA NutritionTypedNow == N!NutritionTypeOK <=> NutritionTypes
<1>1. {"idle"} \cup {"lookup", "recipe", "ingredients", "select", "save",
                     "read", "link", "serves", "list", "commit"} \cup {"done", "failed"} = CookPlaces
  BY DEF CookPlaces
<1>2. QED
  BY <1>1, RequestFacts DEF NutritionTypes, N!NutritionTypeOK, N!RequestsTypeOK, N!Row, N!Column, N!Versions,
     N!Ended, LinkRow, CacheRow, Reading

LEMMA NutritionTyped ==
    /\ N!NutritionTypeOK <=> NutritionTypes
    /\ N!NutritionTypeOK' <=> NutritionTypes'
  BY NutritionTypedNow, PTL

LEMMA NutritionFacts ==
    /\ N!Gone \notin N!Facts /\ Request \subseteq N!Ingredient
    /\ \A r \in N!Facts : /\ r.total \in SUBSET Food /\ r.servings \in Servings \cup {1}
                          /\ r.per \in (SUBSET Food) \X (Servings \cup {1})
                          /\ DOMAIN r = {"total", "servings", "per"}
    /\ \A a \in N!Ask : /\ a.kind \in {"get", "recalculate", "link", "edit"}
                        /\ a.kind \in {"recalculate", "edit"} => a.servings \in N!Serves
                        /\ a.kind = "link" => a.who \in N!Ingredient /\ a.food \in N!Link
    /\ N!Unread \in Reading /\ N!Unread.cache = N!Gone
<1>1. DOMAIN N!Gone = {"servings"} /\ "total" \notin {"servings"}
  BY DEF N!Gone
<1>2. N!Gone \notin N!Facts
  BY <1>1 DEF N!Facts
<1>3. N!Unread \in Reading /\ N!Unread.cache = N!Gone
  BY DEF N!Unread, Reading, CacheRow, N!Serves, N!Unsaid
<1>4. Request \subseteq N!Ingredient
  BY RequestFacts DEF N!Ingredient
<1>5. QED  BY <1>2, <1>3, <1>4 DEF N!Facts, N!Ask

LEMMA LinkedTyped ==
    ASSUME NutritionTypes
    PROVE  N!Linked \in SUBSET Food
  BY DEF NutritionTypes, N!Linked, N!Listed, LinkRow, N!Link

\* A calculation's facts, for what it has in hand.
LEMMA CalculatedFacts ==
    ASSUME NEW n \in Request, ask[n] \in N!Ask, old[n] \in Reading
    PROVE  /\ N!Calculated(n) \in N!Facts
           /\ N!Calculated(n).total = old[n].total
           /\ N!Calculated(n).per = N!PerServing(N!Calculated(n).total, N!Calculated(n).servings)
<1> DEFINE said == IF ask[n].kind = "recalculate" THEN ask[n].servings ELSE N!Unsaid
           own == N!Or(old[n].servings, 1)
           by == N!Or(said, own)
<1>1. said \in N!Serves /\ old[n].servings \in N!Serves /\ old[n].total \in SUBSET Food
  BY NutritionFacts DEF Reading, N!Serves
<1>2. by \in Servings \cup {1}
  BY <1>1 DEF N!Or, N!Serves
<1>3. N!Calculated(n) = [total |-> old[n].total, servings |-> by, per |-> N!PerServing(old[n].total, by)]
  BY DEF N!Calculated, N!FactsOf
<1> HIDE DEF by
<1>4. N!PerServing(old[n].total, by) \in (SUBSET Food) \X (Servings \cup {1})
  BY <1>1, <1>2 DEF N!PerServing
<1>5. QED  BY <1>1, <1>2, <1>3, <1>4 DEF N!Facts

\* The columns a calculation has set are those that now differ from what there was.
LEMMA SetColumns ==
    ASSUME NEW n \in Request
    PROVE  /\ N!Column = {"total", "servings", "per"} /\ N!Sets(n) \subseteq N!Column
           /\ cache["it"].by # n => N!Sets(n) = {}
           /\ cache["it"].by = n =>
                 \A c \in N!Column : c \in N!Sets(n) <=>
                    old[n].cache = N!Gone \/ N!Calculated(n)[c] # old[n].cache[c]
  BY DEF N!Sets, N!Column

(***************************************************************************)
(* Nutrition: steps                                                        *)
(***************************************************************************)
\* A row is as it was, or request n has it.
Stays(row, n) == row' = row \/ (row'.by = n /\ row'.old = row.old)

\* A request that goes on, having looked or written.
LEMMA CookGoes ==
    ASSUME NutritionInv, NEW n \in Request, Running(n),
           NEW there \in CookPlaces \ {"idle"}, Goto(n, there),
           UNCHANGED <<ask, arrived, faults, before, wrote, calc, relinked>>,
           NEW was \in Reading, old' = [old EXCEPT ![n] = was],
           recipe' \in [{"it"} -> [old : N!Serves, new : N!Serves, by : Request \cup {Nobody}]],
           ingredient' \in [N!Ingredient -> [old : LinkRow, new : LinkRow, by : Request \cup {Nobody}]],
           cache' \in [{"it"} -> [old : CacheRow, new : CacheRow, by : Request \cup {Nobody}]],
           Stays(recipe["it"], n), Stays(cache["it"], n),
           \A i \in N!Ingredient : Stays(ingredient[i], n),
           cache'["it"].new # N!Gone \/ cache' = cache,
           Cooking(n)', Keeps(n)', Cached(n)', Sums(n)', Compares(n)', Calculates(n)'
    PROVE  NutritionInv'
<1>1. NutritionTypes
  BY NutritionTyped DEF NutritionInv
<1>2. /\ Comings' /\ Befores' /\ pc'[n] = there /\ \A m \in Request \ {n} : pc'[m] = pc[m]
      /\ Past \subseteq Past'
  <2>1. DOMAIN pc = Request /\ there # "idle"
    BY <1>1 DEF NutritionTypes
  <2>2. QED  BY <2>1, GoingKeeps DEF NutritionInv
<1>3. /\ pc' \in [Request -> CookPlaces] /\ old' \in [Request -> Reading]
      /\ \A m \in Request \ {n} : old'[m] = old[m]
  BY <1>1 DEF Goto, NutritionTypes
<1>4. N!NutritionTypeOK'
  <2>1. NutritionTypes'
    BY <1>1, <1>3 DEF NutritionTypes
  <2>2. QED  BY <2>1, NutritionTyped
<1>5. /\ recipe'["it"].old = recipe["it"].old /\ cache'["it"].old = cache["it"].old
      /\ \A i \in N!Ingredient : ingredient'[i].old = ingredient[i].old
  BY DEF Stays
<1>6. OneVersion(recipe["it"])' /\ OneVersion(cache["it"])' /\ \A i \in N!Ingredient : OneVersion(ingredient[i])'
  BY RequestFacts DEF NutritionInv, Stays, OneVersion
<1>7. cache'["it"].old # N!Gone => cache'["it"].new # N!Gone
  BY <1>5 DEF NutritionInv
<1>8. N!Linked' = N!Linked /\ N!FactsAgree'
  <2>1. N!Listed' = N!Listed
    BY <1>5 DEF N!Listed
  <2>2. N!Linked' = N!Linked
    BY <1>5, <2>1 DEF N!Listed, N!Linked
  <2>3. \A u, v : N!Overlap(u, v)' <=> N!Overlap(u, v)
    BY RequestFacts DEF N!Overlap
  <2>4. QED  BY <1>5, <2>2, <2>3 DEF NutritionInv, N!FactsAgree
<1>9. ASSUME NEW m \in Request \ {n}
      PROVE  (Cooking(m) /\ Keeps(m) /\ Cached(m) /\ Sums(m) /\ Compares(m) /\ Calculates(m))'
  <2>1. /\ Cooking(m) /\ Keeps(m) /\ Cached(m) /\ Sums(m) /\ Compares(m) /\ Calculates(m)
        /\ pc'[m] = pc[m] /\ ask'[m] = ask[m] /\ old'[m] = old[m]
    BY <1>2, <1>3 DEF NutritionInv
  <2>2. Running(m)' <=> Running(m)
    BY <2>1 DEF Running
  <2>3. Cooking(m)'
    BY <2>1, <2>2 DEF Cooking
  <2>4. Keeps(m)'
    BY <2>1 DEF Keeps, Stays
  <2>5. Cached(m)'
    BY <1>5, <2>1 DEF Cached
  <2>6. cache'["it"].by = m => cache'["it"] = cache["it"]
    BY DEF Stays
  <2>7. Sums(m)'
    BY <1>8, <2>1, <2>6 DEF Sums
  <2>8. Compares(m)'
    BY <1>5, <2>1, <2>6 DEF Compares
  <2>9. N!Calculated(m)' = N!Calculated(m)
    BY <2>1 DEF N!Calculated
  <2>10. Calculates(m)'
    BY <2>1, <2>6, <2>9 DEF Calculates
  <2>11. QED  BY <2>3, <2>4, <2>5, <2>7, <2>8, <2>10
<1>10. calc' \in Past' /\ \A c \in N!Column : wrote'[c] \in Past'
  BY <1>2 DEF NutritionInv
<1>11. QED  BY <1>2, <1>4, <1>6, <1>7, <1>8, <1>9, <1>10 DEF NutritionInv

\* A row that request n may have held, when n has ended.
LEMMA RowReleased ==
    ASSUME NEW n \in Request, NEW row, OneVersion(row), NEW v, NEW next,
           next = IF row.by = n THEN Committed(v) ELSE row
    PROVE  /\ OneVersion(next) /\ next.by # n
           /\ next.by = row.by \/ next.by = Nobody
           /\ next = row \/ next.by = Nobody
           /\ row.by = n => next.old = v
           /\ row.by # n => next = row
  BY RequestFacts DEF Committed, OneVersion

\* A request that ends, and releases its rows.
LEMMA CookEnds ==
    ASSUME NutritionInv, NEW n \in Request, Running(n), NEW there \in Ended,
           Leave(n, there, N!Unread), faults' \in 0..MaxFaults,
           recipe' \in [{"it"} -> [old : N!Serves, new : N!Serves, by : Request \cup {Nobody}]],
           ingredient' \in [N!Ingredient -> [old : LinkRow, new : LinkRow, by : Request \cup {Nobody}]],
           cache' \in [{"it"} -> [old : CacheRow, new : CacheRow, by : Request \cup {Nobody}]],
           OneVersion(recipe["it"])', OneVersion(cache["it"])',
           \A i \in N!Ingredient : OneVersion(ingredient[i])',
           recipe'["it"].by = recipe["it"].by \/ recipe'["it"].by = Nobody, recipe'["it"].by # n,
           cache'["it"] = cache["it"] \/ cache'["it"].by = Nobody, cache'["it"].by # n,
           \A i \in N!Ingredient : /\ ingredient'[i].by = ingredient[i].by \/ ingredient'[i].by = Nobody
                                   /\ ingredient'[i].by # n,
           cache["it"].old # N!Gone => cache'["it"].old # N!Gone,
           cache'["it"].old # N!Gone => cache'["it"].new # N!Gone,
           wrote' \in [{"total", "servings", "per"} -> Request \cup {Earlier}],
           calc' \in Request \cup {Earlier}, relinked' \subseteq Request,
           calc' \in Past \cup {n}, \A c \in N!Column : wrote'[c] \in Past \cup {n},
           \A m \in Request \ {n} : Sums(m) /\ Compares(m) => Sums(m)' /\ Compares(m)',
           N!FactsAgree'
    PROVE  NutritionInv'
<1>1. NutritionTypes
  BY NutritionTyped DEF NutritionInv
<1>2. /\ Goto(n, there) /\ ask' = [ask EXCEPT ![n] = Nothing] /\ old' = [old EXCEPT ![n] = N!Unread]
      /\ arrived' = arrived /\ before' = before
  BY DEF Leave
<1>3. /\ Comings' /\ Befores' /\ pc'[n] = there /\ \A m \in Request \ {n} : pc'[m] = pc[m]
      /\ Past \cup {n} \subseteq Past'
  <2>1. DOMAIN pc = Request /\ there # "idle"
    BY <1>1 DEF Ended, NutritionTypes
  <2>2. QED  BY <1>2, <2>1, GoingKeeps DEF NutritionInv
<1>4. /\ pc' \in [Request -> CookPlaces]
      /\ ask' \in [Request -> N!Ask \cup {Nothing}]
      /\ old' \in [Request -> Reading] /\ old'[n] = N!Unread
      /\ \A m \in Request \ {n} : ask'[m] = ask[m] /\ old'[m] = old[m]
  <2>1. there \in CookPlaces
    BY DEF Ended, CookPlaces
  <2>2. QED  BY <1>1, <1>2, <2>1, NutritionFacts DEF Goto, NutritionTypes
<1>5. N!NutritionTypeOK'
  <2>1. NutritionTypes'
    BY <1>1, <1>2, <1>4 DEF NutritionTypes
  <2>2. QED  BY <2>1, NutritionTyped
<1>6. (Cooking(n) /\ Keeps(n) /\ Cached(n) /\ Sums(n) /\ Compares(n) /\ Calculates(n))'
  <2>1. pc'[n] \in Ended
    BY <1>3
  <2>2. Cooking(n)' /\ Keeps(n)'
    BY <2>1 DEF Cooking, Keeps, Running, Ended
  <2>3. Sums(n)' /\ Compares(n)' /\ Calculates(n)'
    BY <2>1 DEF Sums, Compares, Calculates, Ended
  <2>4. Cached(n)'
    BY <1>4, NutritionFacts DEF Cached
  <2>5. QED  BY <2>2, <2>3, <2>4
<1>7. ASSUME NEW m \in Request \ {n}
      PROVE  (Cooking(m) /\ Keeps(m) /\ Cached(m) /\ Sums(m) /\ Compares(m) /\ Calculates(m))'
  <2>1. /\ Cooking(m) /\ Keeps(m) /\ Cached(m) /\ Sums(m) /\ Compares(m) /\ Calculates(m)
        /\ pc'[m] = pc[m] /\ ask'[m] = ask[m] /\ old'[m] = old[m]
    BY <1>3, <1>4 DEF NutritionInv
  <2>2. Running(m)' <=> Running(m)
    BY <2>1 DEF Running
  <2>3. Cooking(m)'
    BY <2>1, <2>2 DEF Cooking
  <2>4. Keeps(m)'
    BY <2>1, RequestFacts DEF Keeps
  <2>5. Cached(m)'
    BY <2>1 DEF Cached
  <2>6. cache'["it"].by = m => cache'["it"] = cache["it"]
    BY RequestFacts
  <2>7. N!Calculated(m)' = N!Calculated(m)
    BY <2>1 DEF N!Calculated
  <2>8. Calculates(m)'
    BY <2>1, <2>6, <2>7 DEF Calculates
  <2>9. QED  BY <2>1, <2>3, <2>4, <2>5, <2>8
<1>8. calc' \in Past' /\ \A c \in N!Column : wrote'[c] \in Past'
  BY <1>3
<1>9. QED  BY <1>3, <1>5, <1>6, <1>7, <1>8 DEF NutritionInv

LEMMA CookFails ==
    ASSUME NutritionInv, NEW n \in Request, Running(n), N!Fail(n), faults' \in 0..MaxFaults
    PROVE  NutritionInv'
<1>1. /\ recipe' = RollbackRows(recipe, n) /\ ingredient' = RollbackRows(ingredient, n)
      /\ cache' = RollbackRows(cache, n)
      /\ Leave(n, "failed", N!Unread) /\ wrote' = wrote /\ calc' = calc /\ relinked' = relinked
  BY RequestFacts DEF N!Fail, N!RollbackRows, RollbackRows, N!Committed, Committed, N!Nobody, Nobody,
     N!Leave, Leave, N!Goto, Goto, N!history, N!Nothing, Nothing
<1>2. NutritionTypes
  BY NutritionTyped DEF NutritionInv
<1>3. /\ recipe'["it"] = IF recipe["it"].by = n THEN Committed(recipe["it"].old) ELSE recipe["it"]
      /\ cache'["it"] = IF cache["it"].by = n THEN Committed(cache["it"].old) ELSE cache["it"]
      /\ \A i \in N!Ingredient :
            ingredient'[i] = IF ingredient[i].by = n THEN Committed(ingredient[i].old) ELSE ingredient[i]
  BY <1>1, <1>2 DEF RollbackRows, NutritionTypes
<1>4. /\ recipe' \in [{"it"} -> [old : N!Serves, new : N!Serves, by : Request \cup {Nobody}]]
      /\ ingredient' \in [N!Ingredient -> [old : LinkRow, new : LinkRow, by : Request \cup {Nobody}]]
      /\ cache' \in [{"it"} -> [old : CacheRow, new : CacheRow, by : Request \cup {Nobody}]]
  BY <1>1, <1>2 DEF RollbackRows, Committed, NutritionTypes
<1>5. /\ OneVersion(recipe["it"])' /\ OneVersion(cache["it"])'
      /\ \A i \in N!Ingredient : OneVersion(ingredient[i])'
  BY <1>3, RowReleased DEF NutritionInv
<1>6. /\ recipe'["it"].old = recipe["it"].old /\ cache'["it"].old = cache["it"].old
      /\ \A i \in N!Ingredient : ingredient'[i].old = ingredient[i].old
  BY <1>3, RowReleased DEF NutritionInv
<1>7. N!Linked' = N!Linked /\ before' = before /\ \A m \in Request \ {n} : pc'[m] = pc[m] /\ old'[m] = old[m]
  <2>1. N!Listed' = N!Listed
    BY <1>6 DEF N!Listed
  <2>2. N!Linked' = N!Linked
    BY <1>6, <2>1 DEF N!Linked, N!Listed
  <2>3. QED  BY <1>1, <1>2, <2>2 DEF Leave, Goto, NutritionTypes
<1>8. /\ recipe'["it"].by = recipe["it"].by \/ recipe'["it"].by = Nobody
      /\ cache'["it"] = cache["it"] \/ cache'["it"].by = Nobody
      /\ recipe'["it"].by # n /\ cache'["it"].by # n
      /\ \A i \in N!Ingredient : /\ ingredient'[i].by = ingredient[i].by \/ ingredient'[i].by = Nobody
                                 /\ ingredient'[i].by # n
  BY <1>3, RowReleased DEF NutritionInv
<1>9. cache'["it"].old # N!Gone => cache'["it"].new # N!Gone
  BY <1>3, <1>6 DEF Committed, NutritionInv
<1>10. N!FactsAgree'
  <2>1. \A u, v : N!Overlap(u, v)' <=> N!Overlap(u, v)
    BY <1>7, RequestFacts DEF N!Overlap
  <2>2. QED  BY <1>1, <1>6, <1>7, <2>1 DEF NutritionInv, N!FactsAgree
<1>11. \A m \in Request \ {n} : Sums(m) /\ Compares(m) => Sums(m)' /\ Compares(m)'
  <2> SUFFICES ASSUME NEW m \in Request \ {n}, Sums(m), Compares(m) PROVE Sums(m)' /\ Compares(m)'
    OBVIOUS
  <2>1. cache'["it"].by = m => cache["it"].by = m
    BY <1>8, RequestFacts
  <2>2. Sums(m)'
    BY <1>1, <1>7, <2>1 DEF Sums
  <2>3. Compares(m)'
    BY <1>1, <1>6, <1>7, <2>1 DEF Compares
  <2>4. QED  BY <2>2, <2>3
<1>12. /\ wrote' \in [{"total", "servings", "per"} -> Request \cup {Earlier}]
       /\ calc' \in Request \cup {Earlier} /\ relinked' \subseteq Request
       /\ calc' \in Past \cup {n} /\ \A c \in N!Column : wrote'[c] \in Past \cup {n}
  BY <1>1, <1>2 DEF NutritionInv, NutritionTypes
<1>13. "failed" \in Ended
  BY DEF Ended
<1>14. QED  BY <1>1, <1>4, <1>5, <1>6, <1>8, <1>9, <1>10, <1>11, <1>12, <1>13, CookEnds

\* What is kept when a calculation has committed.
LEMMA CookSettled ==
    ASSUME NutritionInv, NEW n \in Request, cache["it"].by = n,
           NEW last \in [N!Column -> Past \cup {n}],
           \A c \in N!Column : last[c] = IF c \in N!Sets(n) THEN n ELSE wrote[c]
    PROVE  LET new == cache["it"].new IN
           /\ \/ new.per = N!PerServing(new.total, new.servings)
              \/ \E c, d \in N!Column : Overlap(last[c], last[d])
           /\ relinked \subseteq before[n] => new.total = N!Linked \/ Overlap(n, last["total"])
<1> DEFINE new == cache["it"].new
           row == cache["it"].old
           was == old[n].cache
           facts == N!Calculated(n)
<1>1. /\ Cooking(n) /\ Keeps(n) /\ Cached(n) /\ Sums(n) /\ Compares(n) /\ Calculates(n)
      /\ NutritionTypes
  BY NutritionTyped DEF NutritionInv
<1>2. pc[n] = "commit" /\ Running(n)
  BY <1>1 DEF Keeps, Running, Ended
<1>3. ask[n] \in N!Ask /\ old[n] \in Reading
  BY <1>1, <1>2 DEF Cooking, NutritionTypes
<1>4. /\ facts.total = old[n].total /\ facts.per = N!PerServing(facts.total, facts.servings)
      /\ was # N!Gone => row # N!Gone
  BY <1>1, <1>3, CalculatedFacts DEF Cached
<1>5. \A w \in Past : w \notin before[n] => Overlap(w, n) /\ Overlap(n, w)
  BY <1>2, Meets DEF NutritionInv
<1>6. /\ \A c \in N!Column : c \in N!Sets(n) <=> was = N!Gone \/ facts[c] # was[c]
      /\ N!Column = {"total", "servings", "per"}
  BY SetColumns
<1>7. \A c \in N!Column : \/ new[c] = facts[c]
                          \/ /\ c \notin N!Sets(n) /\ last[c] = wrote[c]
                             /\ Overlap(last[c], n) /\ Overlap(n, last[c])
  <2> SUFFICES ASSUME NEW c \in N!Column, new[c] # facts[c]
               PROVE  /\ c \notin N!Sets(n) /\ last[c] = wrote[c]
                      /\ Overlap(last[c], n) /\ Overlap(n, last[c])
    OBVIOUS
  <2>1. was # N!Gone /\ new[c] = IF facts[c] = was[c] THEN row[c] ELSE facts[c]
    BY <1>1 DEF Calculates
  <2>2. facts[c] = was[c] /\ was[c] # row[c] /\ row # N!Gone
    BY <1>4, <2>1
  <2>3. wrote[c] \notin before[n]
    BY <1>1, <2>1, <2>2 DEF Compares
  <2>4. c \notin N!Sets(n) /\ last[c] = wrote[c]
    BY <1>6, <2>1, <2>2
  <2>5. wrote[c] \in Past
    BY DEF NutritionInv
  <2>6. QED  BY <1>5, <2>3, <2>4, <2>5
<1>8. ASSUME relinked \subseteq before[n] PROVE new.total = N!Linked \/ Overlap(n, last["total"])
  <2>1. old[n].total = N!Linked
    BY <1>1, <1>8 DEF Sums
  <2>2. new.total = facts.total \/ Overlap(n, last["total"])
    BY <1>6, <1>7
  <2>3. QED  BY <1>4, <2>1, <2>2
<1>9. new.per = N!PerServing(new.total, new.servings) \/ \E c, d \in N!Column : Overlap(last[c], last[d])
  <2>1. CASE N!Sets(n) = {}
    <3>1. was # N!Gone /\ \A c \in N!Column : facts[c] = was[c] /\ last[c] = wrote[c]
      BY <1>6, <2>1
    <3>2. \A c \in N!Column : new[c] = row[c]
      BY <1>1, <3>1 DEF Calculates
    <3>3. row # N!Gone /\ new.per = row.per /\ new.total = row.total /\ new.servings = row.servings
      BY <1>4, <1>6, <3>1, <3>2
    <3>4. row.per = N!PerServing(row.total, row.servings) \/ \E c, d \in N!Column : N!Overlap(wrote[c], wrote[d])
      BY <3>3 DEF NutritionInv, N!FactsAgree
    <3>5. QED  BY <3>1, <3>3, <3>4, OverlapFacts
  <2>2. CASE N!Sets(n) # {}
    <3>1. PICK d \in N!Column : last[d] = n
      BY <2>2, SetColumns
    <3>2. CASE \A c \in N!Column : new[c] = facts[c]
      <4>1. new.per = facts.per /\ new.total = facts.total /\ new.servings = facts.servings
        BY <1>6, <3>2
      <4>2. QED  BY <1>4, <4>1
    <3>3. CASE ~(\A c \in N!Column : new[c] = facts[c])
      BY <1>7, <3>1, <3>3
    <3>4. QED  BY <3>2, <3>3
  <2>3. QED  BY <2>1, <2>2
<1>10. QED  BY <1>8, <1>9

LEMMA CookCommits ==
    ASSUME NutritionInv, NEW n \in Request, N!Commit(n)
    PROVE  NutritionInv'
<1>1. /\ pc[n] = "commit"
      /\ recipe' = CommitRows(recipe, n) /\ ingredient' = CommitRows(ingredient, n)
      /\ cache' = CommitRows(cache, n)
      /\ wrote' = [c \in N!Column |-> IF c \in N!Sets(n) THEN n ELSE wrote[c]]
      /\ calc' = IF cache["it"].by = n THEN n ELSE calc
      /\ relinked' = relinked \cup ({n} \cap Holders(ingredient))
      /\ Leave(n, "done", N!Unread) /\ faults' = faults
  BY RequestFacts DEF N!Commit, N!CommitRows, CommitRows, N!Committed, Committed, N!Nobody, Nobody,
     N!Holders, Holders, N!Leave, Leave, N!Goto, Goto, N!Nothing, Nothing
<1>2. NutritionTypes
  BY NutritionTyped DEF NutritionInv
<1>3. /\ recipe'["it"] = IF recipe["it"].by = n THEN Committed(recipe["it"].new) ELSE recipe["it"]
      /\ cache'["it"] = IF cache["it"].by = n THEN Committed(cache["it"].new) ELSE cache["it"]
      /\ \A i \in N!Ingredient :
            ingredient'[i] = IF ingredient[i].by = n THEN Committed(ingredient[i].new) ELSE ingredient[i]
  BY <1>1, <1>2 DEF CommitRows, NutritionTypes
<1>4. /\ recipe' \in [{"it"} -> [old : N!Serves, new : N!Serves, by : Request \cup {Nobody}]]
      /\ ingredient' \in [N!Ingredient -> [old : LinkRow, new : LinkRow, by : Request \cup {Nobody}]]
      /\ cache' \in [{"it"} -> [old : CacheRow, new : CacheRow, by : Request \cup {Nobody}]]
  BY <1>1, <1>2 DEF CommitRows, Committed, NutritionTypes
<1>5. /\ OneVersion(recipe["it"])' /\ OneVersion(cache["it"])'
      /\ \A i \in N!Ingredient : OneVersion(ingredient[i])'
  BY <1>3, RowReleased DEF NutritionInv
<1>6. /\ recipe'["it"].by = recipe["it"].by \/ recipe'["it"].by = Nobody
      /\ cache'["it"] = cache["it"] \/ cache'["it"].by = Nobody
      /\ recipe'["it"].by # n /\ cache'["it"].by # n
      /\ \A i \in N!Ingredient : /\ ingredient'[i].by = ingredient[i].by \/ ingredient'[i].by = Nobody
                                 /\ ingredient'[i].by # n
  BY <1>3, RowReleased DEF NutritionInv
<1>7. /\ cache["it"].old # N!Gone => cache'["it"].old # N!Gone
      /\ cache'["it"].old # N!Gone => cache'["it"].new # N!Gone
  BY <1>3 DEF Committed, NutritionInv
<1>8. Keeps(n) /\ Running(n) /\ "done" \in Ended
  BY <1>1 DEF NutritionInv, Running, Ended
<1>9. /\ before' = before
      /\ \A m \in Request \ {n} : pc'[m] = pc[m] /\ old'[m] = old[m]
      /\ \A u, v : Overlap(u, v)' <=> Overlap(u, v)
      /\ \A u, v : N!Overlap(u, v)' <=> Overlap(u, v)
  BY <1>1, <1>2, RequestFacts DEF Leave, Goto, NutritionTypes, Overlap, N!Overlap
<1>10. \/ n \in relinked'
       \/ N!Linked' = N!Linked
  <2>1. CASE \A i \in N!Ingredient : ingredient[i].by # n
    <3>1. \A i \in N!Ingredient : ingredient'[i] = ingredient[i]
      BY <1>3, <2>1
    <3>2. N!Listed' = N!Listed
      BY <3>1 DEF N!Listed
    <3>3. QED  BY <3>1, <3>2 DEF N!Linked, N!Listed
  <2>2. CASE ~(\A i \in N!Ingredient : ingredient[i].by # n)
    <3>1. n \in Holders(ingredient)
      BY <1>2, <2>2, RequestFacts DEF Holders, NutritionTypes
    <3>2. QED  BY <1>1, <3>1
  <2>3. QED  BY <2>1, <2>2
<1>11. /\ \A c \in N!Column : wrote'[c] = IF c \in N!Sets(n) THEN n ELSE wrote[c]
       /\ N!Column = {"total", "servings", "per"}
       /\ wrote' \in [N!Column -> Past \cup {n}]
  <2>1. \A c \in N!Column : wrote[c] \in Past
    BY DEF NutritionInv
  <2>2. QED  BY <1>1, <2>1 DEF N!Column
<1>12. N!FactsAgree'
  <2>1. CASE cache["it"].by = n
    <3>1. cache'["it"].old = cache["it"].new /\ calc' = n
      BY <1>1, <1>3, <2>1 DEF Committed
    <3>2. N!Linked' = N!Linked /\ relinked \subseteq relinked'
      <4>1. \A i \in N!Ingredient : ingredient[i].by # n
        BY <1>8, <2>1 DEF Keeps
      <4>2. \A i \in N!Ingredient : ingredient'[i] = ingredient[i]
        BY <1>3, <4>1
      <4>3. N!Listed' = N!Listed
        BY <4>2 DEF N!Listed
      <4>4. QED  BY <1>1, <4>2, <4>3 DEF N!Linked, N!Listed
    <3>3. PICK last \in [N!Column -> Past \cup {n}] : last = wrote'
      BY <1>11
    <3>4. LET new == cache["it"].new IN
          /\ \/ new.per = N!PerServing(new.total, new.servings)
             \/ \E c, d \in N!Column : Overlap(last[c], last[d])
          /\ relinked \subseteq before[n] => new.total = N!Linked \/ Overlap(n, last["total"])
      BY <1>11, <2>1, <3>3, CookSettled
    <3>5. \/ cache'["it"].old.per = N!PerServing(cache'["it"].old.total, cache'["it"].old.servings)
          \/ \E c, d \in N!Column : N!Overlap(wrote[c], wrote[d])'
      BY <1>9, <3>1, <3>3, <3>4, RequestFacts DEF Overlap, N!Overlap
    <3>6. relinked' \subseteq before'[n] =>
             cache'["it"].old.total = N!Linked' \/ N!Overlap(calc, wrote["total"])'
      BY <1>9, <3>1, <3>2, <3>3, <3>4, RequestFacts DEF Overlap, N!Overlap
    <3>7. QED  BY <3>1, <3>5, <3>6 DEF N!FactsAgree
  <2>2. CASE cache["it"].by # n
    <3>1. cache'["it"] = cache["it"] /\ calc' = calc /\ relinked \subseteq relinked'
      BY <1>1, <1>3, <2>2
    <3>2. \A c \in N!Column : wrote'[c] = wrote[c]
      BY <1>11, <2>2, SetColumns
    <3>3. N!FactsAgree /\ calc # n
      BY <1>8, RequestFacts DEF NutritionInv, Past, Running
    <3>4. \A c, d \in N!Column : N!Overlap(wrote[c], wrote[d])' <=> N!Overlap(wrote[c], wrote[d])
      BY <1>9, <3>2, RequestFacts DEF N!Overlap
    <3>5. N!Overlap(calc, wrote["total"])' <=> N!Overlap(calc, wrote["total"])
      BY <1>9, <1>11, <3>1, <3>2, RequestFacts DEF N!Overlap
    <3>6. calc \in Request /\ relinked' \subseteq before[calc] => N!Linked' = N!Linked
      <4>1. ASSUME calc \in Request PROVE n \notin before[calc]
        BY <1>8, <4>1, RequestFacts DEF NutritionInv, Befores, Past, Running
      <4>2. QED  BY <1>10, <4>1
    <3>7. cache'["it"].old # N!Gone =>
             \/ cache'["it"].old.per = N!PerServing(cache'["it"].old.total, cache'["it"].old.servings)
             \/ \E c, d \in N!Column : N!Overlap(wrote[c], wrote[d])'
      BY <3>1, <3>3, <3>4 DEF N!FactsAgree
    <3>8. cache'["it"].old # N!Gone /\ calc' \in Request /\ relinked' \subseteq before'[calc'] =>
             cache'["it"].old.total = N!Linked' \/ N!Overlap(calc, wrote["total"])'
      <4>1. calc \in Request /\ relinked' \subseteq before[calc] => relinked \subseteq before[calc]
        BY <3>1
      <4>2. QED  BY <1>9, <3>1, <3>3, <3>5, <3>6, <4>1, RequestFacts DEF N!FactsAgree
    <3>9. QED  BY <3>7, <3>8, RequestFacts DEF N!FactsAgree
  <2>3. QED  BY <2>1, <2>2
<1>13. \A m \in Request \ {n} : Sums(m) /\ Compares(m) => Sums(m)' /\ Compares(m)'
  <2> SUFFICES ASSUME NEW m \in Request \ {n}, Sums(m), Compares(m) PROVE Sums(m)' /\ Compares(m)'
    OBVIOUS
  <2>1. n \notin before[m]
    BY <1>8, RequestFacts DEF NutritionInv, Befores, Past, Running
  <2>2. cache'["it"].by = m => cache["it"].by = m
    BY <1>6, RequestFacts
  <2>3. Sums(m)'
    <3>1. relinked' \subseteq before'[m] => N!Linked' = N!Linked /\ relinked \subseteq before[m]
      BY <1>1, <1>9, <1>10, <2>1
    <3>2. QED  BY <1>9, <2>2, <3>1 DEF Sums
  <2>4. Compares(m)'
    <3>1. ASSUME NEW c \in N!Column, cache'["it"].old # N!Gone, wrote'[c] \in before'[m],
                 pc'[m] = "save" \/ cache'["it"].by = m
          PROVE  old'[m].cache # N!Gone /\ old'[m].cache[c] = cache'["it"].old[c]
      <4>1. c \notin N!Sets(n) /\ wrote'[c] = wrote[c]
        BY <1>9, <1>11, <2>1, <3>1
      <4>2. cache["it"].old # N!Gone /\ cache'["it"].old[c] = cache["it"].old[c]
        <5>1. CASE cache["it"].by = n
          <6>1. old[n].cache # N!Gone /\ N!Calculated(n)[c] = old[n].cache[c]
            BY <4>1, <5>1, SetColumns
          <6>2. Calculates(n) /\ Cached(n)
            BY DEF NutritionInv
          <6>3. cache["it"].new[c] = cache["it"].old[c] /\ cache["it"].old # N!Gone
            BY <5>1, <6>1, <6>2 DEF Calculates, Cached
          <6>4. QED  BY <1>3, <5>1, <6>3 DEF Committed
        <5>2. CASE cache["it"].by # n
          BY <1>3, <3>1, <5>2
        <5>3. QED  BY <5>1, <5>2
      <4>3. old[m].cache # N!Gone /\ old[m].cache[c] = cache["it"].old[c]
        BY <1>9, <2>2, <3>1, <4>1, <4>2 DEF Compares
      <4>4. QED  BY <1>9, <4>2, <4>3
    <3>2. QED  BY <3>1 DEF Compares
  <2>5. QED  BY <2>3, <2>4
<1>14. /\ wrote' \in [{"total", "servings", "per"} -> Request \cup {Earlier}]
       /\ calc' \in Request \cup {Earlier} /\ relinked' \subseteq Request
       /\ calc' \in Past \cup {n} /\ \A c \in N!Column : wrote'[c] \in Past \cup {n}
       /\ faults' \in 0..MaxFaults
  <2>1. calc \in Past /\ Past \subseteq Request \cup {Earlier}
    BY DEF NutritionInv, Past
  <2>2. QED  BY <1>1, <1>2, <1>11, <2>1 DEF NutritionTypes
<1>15. QED  BY <1>1, <1>4, <1>5, <1>6, <1>7, <1>8, <1>12, <1>13, <1>14, CookEnds

LEMMA CookArrives ==
    ASSUME NutritionInv, NEW n \in Request, NEW a \in N!Ask, N!Arrive(n, a)
    PROVE  NutritionInv'
<1>1. /\ ArriveAt(n, a, N!Start(a))
      /\ UNCHANGED <<recipe, ingredient, cache, wrote, calc, relinked>>
  BY RequestFacts DEF N!Arrive, N!ArriveAt, ArriveAt, N!Goto, Goto,
     N!Ended, Ended, N!history, N!rows
<1>2. NutritionTypes
  BY NutritionTyped DEF NutritionInv
<1>3. /\ N!Start(a) \in {"lookup", "recipe", "read"}
      /\ N!Start(a) = "read" => a.kind \in {"link", "edit"}
      /\ N!Start(a) # "read" => a.kind \in {"get", "recalculate"}
  BY NutritionFacts DEF N!Start
<1>4. /\ Comings' /\ Befores'
      /\ before' \in [Request -> SUBSET (Request \cup {Earlier})] /\ arrived' \in 0..MaxRequests
      /\ pc[n] = "idle" /\ pc'[n] = N!Start(a) /\ ask'[n] = a
      /\ \A m \in Request \ {n} : pc'[m] = pc[m] /\ ask'[m] = ask[m] /\ before'[m] = before[m]
      /\ Past' = Past /\ n \notin Past
      /\ \A u, v \in Past : Overlap(u, v)' <=> Overlap(u, v)
  <2>1. /\ DOMAIN pc = Request /\ DOMAIN ask = Request /\ arrived \in 0..MaxRequests
        /\ before \in [Request -> SUBSET (Request \cup {Earlier})]
    BY <1>2 DEF NutritionTypes
  <2>2. N!Start(a) # "idle" /\ N!Start(a) \notin Ended
    BY <1>3 DEF Ended
  <2>3. QED  BY <1>1, <2>1, <2>2, ComingKeeps DEF NutritionInv
<1>5. old' = old /\ faults' = faults
  BY <1>1 DEF ArriveAt
<1>6. N!NutritionTypeOK'
  <2>1. N!Start(a) \in CookPlaces
    BY <1>3 DEF CookPlaces
  <2>2. pc' \in [Request -> CookPlaces]
    BY <1>1, <1>2, <2>1 DEF ArriveAt, Goto, NutritionTypes
  <2>3. ask' \in [Request -> N!Ask \cup {Nothing}]
    BY <1>1, <1>2 DEF ArriveAt, NutritionTypes
  <2>4. NutritionTypes'
    BY <1>1, <1>2, <1>4, <1>5, <2>2, <2>3 DEF NutritionTypes
  <2>5. QED  BY <2>4, NutritionTyped
<1>7. N!Linked' = N!Linked /\ N!FactsAgree'
  <2>1. N!Linked' = N!Linked
    BY <1>1 DEF N!Linked, N!Listed
  <2>2. calc \in Past /\ \A c \in N!Column : wrote[c] \in Past
    BY DEF NutritionInv
  <2>3. calc \in Request => before'[calc] = before[calc]
    BY <1>4, <2>2
  <2>4. \A u, v \in Past : N!Overlap(u, v)' <=> N!Overlap(u, v)
    <3> SUFFICES ASSUME NEW u \in Past, NEW v \in Past PROVE N!Overlap(u, v)' <=> N!Overlap(u, v)
      OBVIOUS
    <3>1. {u, v} \subseteq Request => before'[u] = before[u] /\ before'[v] = before[v]
      BY <1>4
    <3>2. QED  BY <3>1, RequestFacts DEF N!Overlap
  <2>5. /\ \A c, d \in N!Column : N!Overlap(wrote[c], wrote[d])' <=> N!Overlap(wrote[c], wrote[d])
        /\ N!Overlap(calc, wrote["total"])' <=> N!Overlap(calc, wrote["total"])
    BY <1>1, <2>2, <2>4 DEF N!Column, N!Overlap
  <2>6. N!FactsAgree
    BY DEF NutritionInv
  <2>7. QED  BY <1>1, <2>1, <2>3, <2>5, <2>6, RequestFacts DEF N!FactsAgree
<1>8. (Cooking(n) /\ Keeps(n) /\ Cached(n) /\ Sums(n) /\ Compares(n) /\ Calculates(n))'
  <2>1. Keeps(n) /\ Cached(n)
    BY DEF NutritionInv
  <2>2. recipe["it"].by # n /\ cache["it"].by # n /\ \A i \in N!Ingredient : ingredient[i].by # n
    BY <1>4, <2>1 DEF Keeps
  <2>3. Cooking(n)'
    BY <1>3, <1>4 DEF Cooking
  <2>4. Keeps(n)' /\ Cached(n)'
    BY <1>1, <1>3, <1>4, <1>5, <2>1, <2>2 DEF Keeps, Cached
  <2>5. Sums(n)' /\ Compares(n)' /\ Calculates(n)'
    BY <1>1, <1>3, <1>4, <2>2 DEF Sums, Compares, Calculates
  <2>6. QED  BY <2>3, <2>4, <2>5
<1>9. ASSUME NEW m \in Request \ {n}
      PROVE  (Cooking(m) /\ Keeps(m) /\ Cached(m) /\ Sums(m) /\ Compares(m) /\ Calculates(m))'
  <2>1. /\ Cooking(m) /\ Keeps(m) /\ Cached(m) /\ Sums(m) /\ Compares(m) /\ Calculates(m)
        /\ pc'[m] = pc[m] /\ ask'[m] = ask[m] /\ before'[m] = before[m]
    BY <1>4 DEF NutritionInv
  <2>2. Running(m)' <=> Running(m)
    BY <2>1 DEF Running
  <2>3. Cooking(m)' /\ Keeps(m)' /\ Cached(m)'
    BY <1>1, <1>5, <2>1, <2>2 DEF Cooking, Keeps, Cached
  <2>4. N!Calculated(m)' = N!Calculated(m)
    BY <1>5, <2>1 DEF N!Calculated
  <2>5. Sums(m)' /\ Compares(m)' /\ Calculates(m)'
    BY <1>1, <1>5, <1>7, <2>1, <2>4 DEF Sums, Compares, Calculates
  <2>6. QED  BY <2>3, <2>5
<1>10. OneVersion(recipe["it"])' /\ OneVersion(cache["it"])' /\ \A i \in N!Ingredient : OneVersion(ingredient[i])'
  BY <1>1 DEF NutritionInv, OneVersion
<1>11. cache'["it"].old # N!Gone => cache'["it"].new # N!Gone
  BY <1>1 DEF NutritionInv
<1>12. calc' \in Past' /\ \A c \in N!Column : wrote'[c] \in Past'
  BY <1>1, <1>4 DEF NutritionInv
<1>13. QED  BY <1>4, <1>6, <1>7, <1>8, <1>9, <1>10, <1>11, <1>12 DEF NutritionInv

\* What a handler reads, and where it goes with it.
LEMMA CookReads ==
    ASSUME NutritionInv, NEW n \in Request,
           N!Lookup(n) \/ N!ReadRecipe(n) \/ N!ReadIngredients(n) \/ N!SelectCache(n) \/ N!AuthorReads(n)
    PROVE  NutritionInv'
<1>1. NutritionTypes
  BY NutritionTyped DEF NutritionInv
<1>2. /\ pc[n] \in {"lookup", "recipe", "ingredients", "select", "read"}
      /\ Running(n) /\ Cooking(n) /\ Keeps(n) /\ Cached(n) /\ Sums(n)
  BY DEF NutritionInv, N!Lookup, N!ReadRecipe, N!ReadIngredients, N!SelectCache, N!AuthorReads, Running, Ended
<1>3. /\ recipe["it"].by # n /\ cache["it"].by # n
      /\ \A i \in N!Ingredient : ingredient[i].by # n
  BY <1>2 DEF Keeps
<1>4. ask[n] \in N!Ask
  BY <1>2 DEF Cooking
<1>5. ASSUME NEW was \in Reading, NEW there \in CookPlaces \ {"idle"}, N!Reads(n, was, there),
             was.cache # N!Gone => cache["it"].old # N!Gone,
             there \in {"recipe", "ingredients", "select", "save"} => ask[n].kind \in {"get", "recalculate"},
             there \notin {"lookup", "read", "list"},
             there = "link" => ask[n].kind = "link",
             there = "serves" => ask[n].kind = "edit",
             there \in {"select", "save"} /\ relinked \subseteq before[n] => was.total = N!Linked,
             there = "save" => was.cache = cache["it"].old
      PROVE  NutritionInv'
  <2>1. /\ Goto(n, there) /\ old' = [old EXCEPT ![n] = was]
        /\ UNCHANGED <<ask, arrived, faults, before, wrote, calc, relinked, recipe, ingredient, cache>>
    BY <1>5 DEF N!Reads, N!Read, N!Goto, Goto, N!bounds, N!rows, N!history
  <2>2. pc'[n] = there /\ old'[n] = was
    BY <1>1, <2>1 DEF Goto, NutritionTypes
  <2>3. Cooking(n)'
    BY <1>4, <1>5, <2>1, <2>2 DEF Cooking
  <2>4. Keeps(n)' /\ Cached(n)'
    BY <1>3, <1>5, <2>1, <2>2 DEF Keeps, Cached
  <2>5. Sums(n)' /\ Compares(n)' /\ Calculates(n)'
    <3>1. N!Linked' = N!Linked
      BY <2>1 DEF N!Linked, N!Listed
    <3>2. QED  BY <1>3, <1>5, <2>1, <2>2, <3>1 DEF Sums, Compares, Calculates
  <2>6. /\ Stays(recipe["it"], n) /\ Stays(cache["it"], n)
        /\ \A i \in N!Ingredient : Stays(ingredient[i], n)
    BY <2>1 DEF Stays
  <2>7. /\ recipe' \in [{"it"} -> [old : N!Serves, new : N!Serves, by : Request \cup {Nobody}]]
        /\ ingredient' \in [N!Ingredient -> [old : LinkRow, new : LinkRow, by : Request \cup {Nobody}]]
        /\ cache' \in [{"it"} -> [old : CacheRow, new : CacheRow, by : Request \cup {Nobody}]]
    BY <1>1, <2>1 DEF NutritionTypes
  <2>8. QED  BY <1>2, <1>5, <2>1, <2>3, <2>4, <2>5, <2>6, <2>7, CookGoes
<1>6. /\ old[n] \in Reading /\ recipe["it"].old \in N!Serves /\ cache["it"].old \in CacheRow
      /\ N!Listed \in SUBSET N!Ingredient /\ N!Linked \in SUBSET Food
      /\ old[n].cache # N!Gone => cache["it"].old # N!Gone
  BY <1>1, <1>2, LinkedTyped DEF NutritionTypes, N!Listed, Cached
<1>7. CASE N!Lookup(n)
  <2>1. /\ pc[n] = "lookup" /\ ask[n].kind \in {"get", "recalculate"}
        /\ N!Reads(n, old[n], IF cache["it"].old = N!Gone THEN "recipe" ELSE "commit")
    BY <1>2, <1>7 DEF N!Lookup, Cooking
  <2>2. CASE cache["it"].old = N!Gone
    BY <1>5, <1>6, <2>1, <2>2 DEF CookPlaces
  <2>3. CASE cache["it"].old # N!Gone
    BY <1>5, <1>6, <2>1, <2>3 DEF CookPlaces
  <2>4. QED  BY <2>2, <2>3
<1>8. CASE N!ReadRecipe(n)
  <2> DEFINE was == [old[n] EXCEPT !.servings = recipe["it"].old]
  <2>1. /\ pc[n] = "recipe" /\ ask[n].kind \in {"get", "recalculate"} /\ N!Reads(n, was, "ingredients")
    BY <1>2, <1>8 DEF N!ReadRecipe, Cooking
  <2>2. was \in Reading /\ was.cache = old[n].cache
    BY <1>6 DEF Reading
  <2> HIDE DEF was
  <2>3. QED  BY <1>5, <1>6, <2>1, <2>2 DEF CookPlaces
<1>9. CASE N!ReadIngredients(n)
  <2> DEFINE was == [old[n] EXCEPT !.total = N!Linked]
  <2>1. /\ pc[n] = "ingredients" /\ ask[n].kind \in {"get", "recalculate"} /\ N!Reads(n, was, "select")
    BY <1>2, <1>9 DEF N!ReadIngredients, Cooking
  <2>2. was \in Reading /\ was.cache = old[n].cache /\ was.total = N!Linked
    BY <1>6 DEF Reading
  <2> HIDE DEF was
  <2>3. QED  BY <1>5, <1>6, <2>1, <2>2 DEF CookPlaces
<1>10. CASE N!SelectCache(n)
  <2> DEFINE was == [old[n] EXCEPT !.cache = cache["it"].old]
  <2>1. /\ pc[n] = "select" /\ ask[n].kind \in {"get", "recalculate"} /\ N!Reads(n, was, "save")
        /\ relinked \subseteq before[n] => old[n].total = N!Linked
    BY <1>2, <1>10 DEF N!SelectCache, Cooking, Sums
  <2>2. was \in Reading /\ was.cache = cache["it"].old /\ was.total = old[n].total
    BY <1>6 DEF Reading
  <2> HIDE DEF was
  <2>3. QED  BY <1>5, <1>6, <2>1, <2>2 DEF CookPlaces
<1>11. CASE N!AuthorReads(n)
  <2> DEFINE was == [old[n] EXCEPT !.servings = recipe["it"].old, !.list = N!Listed]
             there == IF ask[n].kind = "edit" THEN "serves"
                      ELSE IF ingredient[ask[n].who].old = ask[n].food THEN "commit" ELSE "link"
  <2>1. /\ pc[n] = "read" /\ ask[n].kind \in {"link", "edit"} /\ N!Reads(n, was, there)
    BY <1>2, <1>11 DEF N!AuthorReads, Cooking
  <2>2. was \in Reading /\ was.cache = old[n].cache
    BY <1>6 DEF Reading
  <2>3. /\ there \in {"serves", "commit", "link"}
        /\ there = "link" => ask[n].kind = "link"
        /\ there = "serves" => ask[n].kind = "edit"
    BY <2>1
  <2> HIDE DEF was, there
  <2>4. QED  BY <1>5, <1>6, <2>1, <2>2, <2>3 DEF CookPlaces
<1>12. QED  BY <1>7, <1>8, <1>9, <1>10, <1>11

\* A calculation writes what differs from what it has read.
LEMMA CookSaves ==
    ASSUME NutritionInv, NEW n \in Request, N!Save(n)
    PROVE  NutritionInv'
<1> DEFINE row == cache["it"].new
           new == N!Calculated(n)
           was == old[n].cache
           saved == IF was = N!Gone THEN new
                    ELSE [c \in DOMAIN new |-> IF new[c] = was[c] THEN row[c] ELSE new[c]]
<1>1. NutritionTypes
  BY NutritionTyped DEF NutritionInv
<1>2. /\ pc[n] = "save" /\ Running(n) /\ Cooking(n) /\ Keeps(n) /\ Cached(n)
      /\ Sums(n) /\ Compares(n)
      /\ cache["it"].by \in {Nobody, n}
  BY RequestFacts DEF NutritionInv, N!Save, N!MayWrite, Running, Ended
<1>3. /\ recipe["it"].by # n /\ cache["it"].by = Nobody
      /\ \A i \in N!Ingredient : ingredient[i].by # n
  BY <1>2 DEF Keeps
<1>4. ask[n] \in N!Ask /\ ask[n].kind \in {"get", "recalculate"} /\ old[n] \in Reading
  BY <1>1, <1>2 DEF Cooking, NutritionTypes
<1>5. CASE was = N!Gone /\ row # N!Gone
  <2>1. N!Fail(n) /\ faults' \in 0..MaxFaults
    BY <1>1, <1>5 DEF N!Save, NutritionTypes
  <2>2. QED  BY <1>2, <2>1, CookFails
<1>6. CASE ~(was = N!Gone /\ row # N!Gone)
  <2>1. /\ cache' = [cache EXCEPT !["it"] = [old |-> @.old, new |-> saved, by |-> n]]
        /\ Goto(n, "commit") /\ UNCHANGED <<ask, old, arrived, faults, before, wrote, calc, relinked, recipe, ingredient>>
    BY <1>6 DEF N!Save, N!Write, N!Step, N!Goto, Goto, N!bounds, N!history
  <2>2. new \in N!Facts
    BY <1>4, CalculatedFacts
  <2>3. row = cache["it"].old
    BY <1>3 DEF NutritionInv, OneVersion
  <2>4. was \in CacheRow /\ row \in CacheRow
    BY <1>1, <1>4 DEF Reading, NutritionTypes
  <2>5. was # N!Gone => was \in N!Facts /\ row \in N!Facts
    BY <1>2, <2>3, <2>4 DEF CacheRow, Cached
  <2> HIDE DEF new, was, row
  <2>6. /\ saved \in N!Facts
        /\ was = N!Gone => saved = new
        /\ was # N!Gone => \A c \in N!Column : saved[c] = IF new[c] = was[c] THEN row[c] ELSE new[c]
    <3>1. CASE was = N!Gone
      BY <2>2, <3>1
    <3>2. CASE was # N!Gone
      <4>1. DOMAIN new = {"total", "servings", "per"}
        BY <2>2, NutritionFacts
      <4>2. /\ saved = [total |-> saved.total, servings |-> saved.servings, per |-> saved.per]
            /\ saved.total = IF new.total = was.total THEN row.total ELSE new.total
            /\ saved.servings = IF new.servings = was.servings THEN row.servings ELSE new.servings
            /\ saved.per = IF new.per = was.per THEN row.per ELSE new.per
        BY <3>2, <4>1
      <4> HIDE DEF saved
      <4>3. /\ new.total \in SUBSET Food /\ row.total \in SUBSET Food
            /\ new.servings \in Servings \cup {1} /\ row.servings \in Servings \cup {1}
            /\ new.per \in (SUBSET Food) \X (Servings \cup {1}) /\ row.per \in (SUBSET Food) \X (Servings \cup {1})
        BY <2>2, <2>5, <3>2, NutritionFacts
      <4>4. saved \in N!Facts
        BY <4>2, <4>3 DEF N!Facts
      <4>5. QED  BY <3>2, <4>2, <4>4 DEF N!Column
    <3>3. QED  BY <3>1, <3>2
  <2> HIDE DEF saved
  <2>7. /\ cache' \in [{"it"} -> [old : CacheRow, new : CacheRow, by : Request \cup {Nobody}]]
        /\ cache'["it"] = [old |-> cache["it"].old, new |-> saved, by |-> n]
    BY <1>1, <2>1, <2>6 DEF NutritionTypes, CacheRow
  <2>8. Stays(cache["it"], n) /\ cache'["it"].new # N!Gone
    BY <2>6, <2>7, NutritionFacts DEF Stays
  <2>9. pc'[n] = "commit"
    BY <1>1, <2>1 DEF Goto, NutritionTypes
  <2>10. Cooking(n)' /\ Cached(n)'
    BY <1>2, <1>4, <2>1, <2>7, <2>9 DEF Cooking, Cached
  <2>11. Keeps(n)'
    BY <1>3, <1>4, <2>1, <2>9 DEF Keeps
  <2>12. Sums(n)' /\ Compares(n)' /\ Calculates(n)'
    <3>1. N!Linked' = N!Linked
      BY <2>1 DEF N!Linked, N!Listed
    <3>2. Sums(n)'
      BY <1>2, <2>1, <2>9, <3>1 DEF Sums
    <3>3. Compares(n)'
      BY <1>2, <2>1, <2>7 DEF Compares
    <3>4. N!Calculated(n)' = new
      BY <2>1 DEF N!Calculated, new
    <3>5. Calculates(n)'
      BY <2>1, <2>3, <2>6, <2>7, <3>4 DEF Calculates, was
    <3>6. QED  BY <3>2, <3>3, <3>5
  <2>13. /\ recipe' \in [{"it"} -> [old : N!Serves, new : N!Serves, by : Request \cup {Nobody}]]
         /\ ingredient' \in [N!Ingredient -> [old : LinkRow, new : LinkRow, by : Request \cup {Nobody}]]
         /\ old' = [old EXCEPT ![n] = old[n]]
         /\ Stays(recipe["it"], n) /\ \A i \in N!Ingredient : Stays(ingredient[i], n)
    BY <1>1, <2>1 DEF NutritionTypes, Stays
  <2>14. "commit" \in CookPlaces \ {"idle"}
    BY DEF CookPlaces
  <2>15. QED  BY <1>2, <1>4, <2>1, <2>7, <2>8, <2>10, <2>11, <2>12, <2>13, <2>14, CookGoes
<1>7. QED  BY <1>5, <1>6

\* What the author changes.
LEMMA CookChanges ==
    ASSUME NutritionInv, NEW n \in Request, N!SetLink(n) \/ N!SetServings(n) \/ N!ReplaceList(n)
    PROVE  NutritionInv'
<1>1. NutritionTypes
  BY NutritionTyped DEF NutritionInv
<1>2. /\ pc[n] \in {"link", "serves", "list"} /\ Running(n)
      /\ Cooking(n) /\ Keeps(n) /\ Cached(n)
  BY DEF NutritionInv, N!SetLink, N!SetServings, N!ReplaceList, Running, Ended
<1>3. /\ cache["it"].by # n /\ \A i \in N!Ingredient : ingredient[i].by # n
      /\ recipe["it"].by = n => pc[n] = "list"
  BY <1>2 DEF Keeps
<1>4. /\ ask[n] \in N!Ask /\ ask[n].kind \in {"link", "edit"} /\ old[n] \in Reading
      /\ pc[n] = "link" => ask[n].kind = "link"
      /\ pc[n] \in {"serves", "list"} => ask[n].kind = "edit"
  BY <1>1, <1>2 DEF Cooking, NutritionTypes
<1>5. ASSUME NEW there \in {"list", "commit"}, N!Step(n, there), there = "list" => ask[n].kind = "edit",
             UNCHANGED <<cache, wrote, calc, relinked>>,
             recipe' \in [{"it"} -> [old : N!Serves, new : N!Serves, by : Request \cup {Nobody}]],
             ingredient' \in [N!Ingredient -> [old : LinkRow, new : LinkRow, by : Request \cup {Nobody}]],
             recipe' = recipe \/ (recipe'["it"].by = n /\ recipe'["it"].old = recipe["it"].old),
             recipe'["it"].by = n => ask[n].kind = "edit",
             \A i \in N!Ingredient : \/ ingredient'[i] = ingredient[i]
                                     \/ (ingredient'[i].by = n /\ ingredient'[i].old = ingredient[i].old),
             there # "commit" => ingredient' = ingredient
      PROVE  NutritionInv'
  <2>1. Goto(n, there) /\ UNCHANGED <<ask, old, arrived, faults, before>>
    BY <1>5 DEF N!Step, N!Goto, Goto, N!bounds
  <2>2. pc'[n] = there
    BY <1>1, <2>1 DEF Goto, NutritionTypes
  <2>3. Cooking(n)' /\ Cached(n)' /\ Sums(n)' /\ Compares(n)' /\ Calculates(n)'
    BY <1>2, <1>3, <1>4, <1>5, <2>1, <2>2 DEF Cooking, Cached, Sums, Compares, Calculates
  <2>4. Keeps(n)'
    BY <1>3, <1>4, <1>5, <2>1, <2>2 DEF Keeps
  <2>5. /\ Stays(recipe["it"], n) /\ Stays(cache["it"], n)
        /\ \A i \in N!Ingredient : Stays(ingredient[i], n)
    BY <1>5 DEF Stays
  <2>6. /\ cache' \in [{"it"} -> [old : CacheRow, new : CacheRow, by : Request \cup {Nobody}]]
        /\ old' = [old EXCEPT ![n] = old[n]]
    BY <1>1, <1>5, <2>1 DEF NutritionTypes
  <2>7. there \in CookPlaces \ {"idle"}
    BY DEF CookPlaces
  <2>8. QED  BY <1>2, <1>4, <1>5, <2>1, <2>3, <2>4, <2>5, <2>6, <2>7, CookGoes
<1>6. CASE N!SetLink(n)
  <2>1. pc[n] = "link" /\ ask[n].kind = "link"
    BY <1>4, <1>6 DEF N!SetLink
  <2>2. PICK i \in N!Ingredient : i = ask[n].who
    BY <1>4, <2>1, NutritionFacts
  <2>3. CASE ingredient[i].new = N!NoRow
    <3>1. N!Fail(n) /\ faults' \in 0..MaxFaults
      BY <1>1, <1>6, <2>2, <2>3 DEF N!SetLink, NutritionTypes
    <3>2. QED  BY <1>2, <3>1, CookFails
  <2>4. CASE ingredient[i].new # N!NoRow
    <3>1. /\ ingredient' = [ingredient EXCEPT ![i] = [old |-> @.old, new |-> ask[n].food, by |-> n]]
          /\ N!Step(n, "commit") /\ UNCHANGED <<cache, recipe, wrote, calc, relinked>>
      BY <1>6, <2>2, <2>4 DEF N!SetLink, N!Write, N!history
    <3>2. ask[n].food \in LinkRow
      BY <1>4, <2>1, NutritionFacts DEF LinkRow
    <3>3. /\ ingredient' \in [N!Ingredient -> [old : LinkRow, new : LinkRow, by : Request \cup {Nobody}]]
          /\ \A j \in N!Ingredient : \/ ingredient'[j] = ingredient[j]
                                     \/ (ingredient'[j].by = n /\ ingredient'[j].old = ingredient[j].old)
      BY <1>1, <3>1, <3>2 DEF NutritionTypes
    <3>4. recipe["it"].by # n
      BY <1>3, <2>1
    <3>5. recipe' \in [{"it"} -> [old : N!Serves, new : N!Serves, by : Request \cup {Nobody}]]
      BY <1>1, <3>1 DEF NutritionTypes
    <3>6. QED  BY <1>5, <3>1, <3>3, <3>4, <3>5
  <2>5. QED  BY <2>3, <2>4
<1>7. CASE N!SetServings(n)
  <2>1. pc[n] = "serves" /\ ask[n].kind = "edit" /\ ask[n].servings \in N!Serves
    BY <1>4, <1>7, NutritionFacts DEF N!SetServings
  <2>2. N!Step(n, "list") /\ UNCHANGED <<ingredient, cache, wrote, calc, relinked>>
    BY <1>7 DEF N!SetServings, N!history
  <2>3. \/ recipe' = recipe
        \/ recipe' = [recipe EXCEPT !["it"] = [old |-> @.old, new |-> ask[n].servings, by |-> n]]
    BY <1>7 DEF N!SetServings, N!Write
  <2>4. /\ recipe' \in [{"it"} -> [old : N!Serves, new : N!Serves, by : Request \cup {Nobody}]]
        /\ recipe' = recipe \/ (recipe'["it"].by = n /\ recipe'["it"].old = recipe["it"].old)
    BY <1>1, <2>1, <2>3 DEF NutritionTypes
  <2>5. ingredient' \in [N!Ingredient -> [old : LinkRow, new : LinkRow, by : Request \cup {Nobody}]]
    BY <1>1, <2>2 DEF NutritionTypes
  <2>6. QED  BY <1>5, <2>1, <2>2, <2>4, <2>5
<1>8. CASE N!ReplaceList(n)
  <2>1. pc[n] = "list" /\ ask[n].kind = "edit"
    BY <1>4, <1>8 DEF N!ReplaceList
  <2>2. N!Step(n, "commit") /\ UNCHANGED <<recipe, cache, wrote, calc, relinked>>
    BY <1>8 DEF N!ReplaceList, N!history
  <2>3. ingredient' = [i \in N!Ingredient |->
                         IF i \in old[n].list THEN [ingredient[i] EXCEPT !.new = N!NoRow, !.by = n]
                         ELSE IF i = n THEN [ingredient[i] EXCEPT !.new = {}, !.by = n]
                         ELSE ingredient[i]]
    BY <1>8 DEF N!ReplaceList
  <2>4. N!NoRow \in LinkRow /\ {} \in LinkRow
    BY DEF LinkRow, N!Link
  <2>5. \A i \in N!Ingredient :
          /\ ingredient'[i] \in [old : LinkRow, new : LinkRow, by : Request \cup {Nobody}]
          /\ \/ ingredient'[i] = ingredient[i]
             \/ (ingredient'[i].by = n /\ ingredient'[i].old = ingredient[i].old)
    BY <1>1, <2>3, <2>4 DEF NutritionTypes
  <2>6. ingredient' \in [N!Ingredient -> [old : LinkRow, new : LinkRow, by : Request \cup {Nobody}]]
    BY <2>3, <2>5
  <2>7. recipe' \in [{"it"} -> [old : N!Serves, new : N!Serves, by : Request \cup {Nobody}]]
    BY <1>1, <2>2 DEF NutritionTypes
  <2>8. QED  BY <1>5, <2>1, <2>2, <2>5, <2>6, <2>7
<1>9. QED  BY <1>6, <1>7, <1>8

LEMMA NutritionInitial == ASSUME part = "nutrition", Init PROVE NutritionInv
<1>1. N!Init
  BY DEF Init
<1>2. PICK s \in N!Serves, link \in N!Link :
         /\ recipe = [i \in N!Row |-> N!Committed(s)]
         /\ ingredient = [i \in N!Ingredient |-> N!Committed(IF i = N!Earlier THEN link ELSE N!NoRow)]
  BY <1>1 DEF N!Init
<1>3. PICK row : /\ cache = [i \in N!Row |-> N!Committed(row)]
                 /\ row = N!Gone \/ \E l \in N!Link, t \in Servings : row = N!FactsOf(l, t)
  BY <1>1 DEF N!Init
<1>4. /\ row \in CacheRow
      /\ row = N!Gone \/ row.per = N!PerServing(row.total, row.servings)
  BY <1>3 DEF CacheRow, N!FactsOf, N!PerServing, N!Facts, N!Link
<1>5. /\ pc = [n \in Request |-> "idle"] /\ ask = [n \in Request |-> Nothing]
      /\ old = [n \in Request |-> N!Unread] /\ arrived = 0 /\ faults = 0
      /\ before = [n \in Request |-> {}]
      /\ wrote = [c \in {"total", "servings", "per"} |-> Earlier] /\ calc = Earlier /\ relinked = {}
  BY <1>1, RequestFacts DEF N!Init, N!InitRequests, N!Column
<1>6. N!NutritionTypeOK
  <2>1. /\ recipe \in [{"it"} -> [old : N!Serves, new : N!Serves, by : Request \cup {Nobody}]]
        /\ cache \in [{"it"} -> [old : CacheRow, new : CacheRow, by : Request \cup {Nobody}]]
    BY <1>2, <1>3, <1>4, RequestFacts DEF N!Row, N!Committed
  <2>2. ingredient \in [N!Ingredient -> [old : LinkRow, new : LinkRow, by : Request \cup {Nobody}]]
    BY <1>2, RequestFacts DEF LinkRow, N!Committed
  <2>3. arrived \in 0..MaxRequests /\ faults \in 0..MaxFaults
    BY <1>5, RequestsAssumption, FaultsAssumption
  <2>4. /\ pc \in [Request -> CookPlaces] /\ ask \in [Request -> N!Ask \cup {Nothing}]
        /\ before \in [Request -> SUBSET (Request \cup {Earlier})]
        /\ wrote \in [{"total", "servings", "per"} -> Request \cup {Earlier}]
    BY <1>5 DEF CookPlaces
  <2>5. old \in [Request -> Reading]
    BY <1>5, NutritionFacts
  <2>6. NutritionTypes
    BY <1>5, <2>1, <2>2, <2>3, <2>4, <2>5 DEF NutritionTypes
  <2>7. QED  BY <2>6, NutritionTyped
<1>7. Comings /\ Befores /\ \A n \in Request : ~Running(n) /\ n > 0
  BY <1>5, RequestsAssumption DEF Comings, Befores, Running, Request
<1>8. /\ recipe["it"].by = Nobody /\ cache["it"].by = Nobody
      /\ recipe["it"].new = recipe["it"].old /\ cache["it"].new = cache["it"].old
  BY <1>2, <1>3, RequestFacts DEF N!Row, N!Committed
<1>9. \A i \in N!Ingredient : ingredient[i].by = Nobody /\ ingredient[i].new = ingredient[i].old
  BY <1>2, RequestFacts DEF N!Committed
<1>10. \A n \in Request : Cooking(n) /\ Keeps(n)
  BY <1>5, <1>7, <1>8, <1>9, RequestFacts DEF Cooking, Keeps
<1>11. \A n \in Request : Cached(n) /\ Sums(n) /\ Compares(n) /\ Calculates(n)
  BY <1>5, <1>8, RequestFacts, NutritionFacts DEF Cached, Sums, Compares, Calculates
<1>12. N!FactsAgree
  <2>1. cache["it"].old = row
    BY <1>3 DEF N!Row, N!Committed
  <2>2. QED  BY <1>4, <1>5, <2>1, RequestFacts DEF N!FactsAgree
<1>13. calc \in Past /\ \A c \in N!Column : wrote[c] \in Past
  BY <1>5 DEF Past, N!Column
<1>14. QED  BY <1>6, <1>7, <1>8, <1>9, <1>10, <1>11, <1>12, <1>13 DEF NutritionInv, OneVersion

LEMMA NutritionStay ==
    ASSUME NutritionInv,
           UNCHANGED <<recipe, ingredient, cache, wrote, calc, relinked, pc, ask, old, arrived, faults, before>>
    PROVE  NutritionInv'
<1>1. N!Linked' = N!Linked /\ Past' = Past
  BY DEF N!Linked, N!Listed, Past
<1>2. N!NutritionTypeOK'
  <2>1. NutritionTypes
    BY NutritionTypedNow DEF NutritionInv
  <2>2. NutritionTypes'
    BY <2>1 DEF NutritionTypes
  <2>3. QED  BY <2>2, NutritionTyped
<1>3. N!FactsAgree'
  <2>1. \A u, v : N!Overlap(u, v)' <=> N!Overlap(u, v)
    BY RequestFacts DEF N!Overlap
  <2>2. QED  BY <1>1, <2>1 DEF NutritionInv, N!FactsAgree
<1>4. (Comings /\ Befores)'
  BY <1>1 DEF NutritionInv, Comings, Befores, Running
<1>5. /\ OneVersion(recipe["it"])' /\ OneVersion(cache["it"])'
      /\ \A i \in N!Ingredient : OneVersion(ingredient[i])'
      /\ cache'["it"].old # N!Gone => cache'["it"].new # N!Gone
      /\ calc' \in Past' /\ \A c \in N!Column : wrote'[c] \in Past'
  BY <1>1 DEF NutritionInv, OneVersion
<1>6. \A n \in Request : Cooking(n)' /\ Keeps(n)' /\ Cached(n)'
  BY DEF NutritionInv, Cooking, Keeps, Cached, Running
<1>7. \A n \in Request : Sums(n)' /\ Compares(n)'
  BY <1>1 DEF NutritionInv, Sums, Compares
<1>8. \A n \in Request : Calculates(n)'
  <2>1. \A n \in Request : N!Calculated(n)' = N!Calculated(n)
    BY DEF N!Calculated
  <2>2. QED  BY <2>1 DEF NutritionInv, Calculates
<1>9. QED  BY <1>2, <1>3, <1>4, <1>5, <1>6, <1>7, <1>8 DEF NutritionInv

LEMMA NutritionStep == ASSUME NutritionInv, N!Next PROVE NutritionInv'
<1>1. CASE N!Quiescent
  BY <1>1, NutritionStay DEF N!Quiescent, N!vars, N!rows, N!history, N!requests, N!bounds
<1>2. CASE ~N!Quiescent
  <2>1. PICK n \in Request :
          \/ \E a \in N!Ask : N!Arrive(n, a)
          \/ N!Refuse(n) \/ N!Lookup(n) \/ N!ReadRecipe(n) \/ N!ReadIngredients(n) \/ N!SelectCache(n)
          \/ N!Save(n) \/ N!AuthorReads(n) \/ N!SetLink(n) \/ N!SetServings(n) \/ N!ReplaceList(n)
          \/ N!Commit(n) \/ N!Die(n)
    BY <1>2, RequestFacts DEF N!Next
  <2>2. faults \in 0..MaxFaults
    BY NutritionTyped DEF NutritionInv, NutritionTypes
  <2>3. CASE N!Refuse(n)
    BY <2>2, <2>3, CookFails DEF N!Refuse, Running, Ended
  <2>4. CASE N!Die(n)
    <3>1. N!Fail(n) /\ Running(n) /\ faults < MaxFaults /\ faults' = faults + 1
      BY <2>4, RunningFacts DEF N!Die, N!Dies
    <3>2. faults' \in 0..MaxFaults
      BY <2>2, <3>1, FaultsAssumption
    <3>3. QED  BY <3>1, <3>2, CookFails
  <2>5. QED  BY <2>1, <2>3, <2>4, CookArrives, CookReads, CookSaves, CookChanges, CookCommits
<1>3. QED  BY <1>1, <1>2

(***************************************************************************)
(* Photos: types and values                                                *)
(***************************************************************************)
PhotoRow == {"cover", "plain", "gone"}
PosePlaces == {"idle", "read", "file", "aim", "demote", "insert", "set", "unlink", "delete", "drop",
               "commit", "done", "failed"}

PhotosTypes ==
    /\ photo \in [P!Photo -> [old : PhotoRow, new : PhotoRow, by : Request \cup {Nobody}]]
    /\ file \in [P!Photo -> BOOLEAN]
    /\ pc \in [Request -> PosePlaces]
    /\ ask \in [Request -> P!Ask \cup {Nothing}]
    /\ old \in [Request -> SUBSET P!Photo]
    /\ arrived \in 0..MaxRequests /\ faults \in 0..MaxFaults
    /\ before \in [Request -> SUBSET (Request \cup {Earlier})]
    /\ maker \in [P!Photo -> Request \cup {Earlier}]
    /\ adrift \subseteq P!Photo

LEMMA PhotosTypedNow == P!PhotosTypeOK <=> PhotosTypes
<1>1. {"idle"} \cup {"read", "file", "aim", "demote", "insert", "set", "unlink", "delete", "drop", "commit"}
        \cup {"done", "failed"} = PosePlaces
  BY DEF PosePlaces
<1>2. QED
  BY <1>1, RequestFacts DEF PhotosTypes, P!PhotosTypeOK, P!RequestsTypeOK, P!Versions, P!Ended, PhotoRow

LEMMA PhotosTyped ==
    /\ P!PhotosTypeOK <=> PhotosTypes
    /\ P!PhotosTypeOK' <=> PhotosTypes'
  BY PhotosTypedNow, PTL

LEMMA PhotoFacts ==
    /\ P!Photo = Request \cup {P!Earlier} /\ P!Earlier \notin Request
    /\ \A a \in P!Ask : /\ a.kind \in {"upload", "update", "remove", "replace"}
                        /\ a.kind \in {"upload", "update"} => a.cover \in BOOLEAN
                        /\ a.kind \in {"update", "remove"} => a.who \in P!Photo
<1>1. P!Photo = Request \cup {P!Earlier} /\ P!Earlier \notin Request
  BY RequestFacts DEF P!Photo
<1>2. QED  BY <1>1 DEF P!Ask

LEMMA TouchedFacts ==
    ASSUME NEW n \in Request
    PROVE  /\ ask[n].kind \in {"upload", "replace"} => P!Touched(n) = {n}
           /\ ask[n].kind = "remove" => P!Touched(n) = {ask[n].who}
           /\ ask[n].kind = "update" => P!Touched(n) = {}
  BY DEF P!Touched

\* A request that has not ended has not brought its photo.
LEMMA BornFacts ==
    ASSUME PhotosInv
    PROVE  /\ \A p \in P!Photo : photo[p].old # "gone" => p \in Born
           /\ P!Covers \subseteq Born
           /\ \A m \in Request : m \in Born <=> pc[m] = "done"
<1>1. \A m \in Request : m \in Born <=> pc[m] = "done"
  BY PhotoFacts DEF Born
<1>2. \A p \in P!Photo : photo[p].old # "gone" => p \in Born
  BY PhotoFacts DEF PhotosInv, Unborn, Born
<1>3. QED  BY <1>1, <1>2 DEF P!Covers

\* The covers a request has to see to stay the same.
LEMMA DatedSame ==
    ASSUME NEW n \in Request, \A p \in P!Photo : photo'[p].old = photo[p].old,
           ask'[n] = ask[n], UNCHANGED <<maker, before>>
    PROVE  P!Covers' = P!Covers /\ Dated(n)' = Dated(n)
<1>1. P!Covers' = P!Covers
  BY DEF P!Covers
<1>2. P!Own(n)' = P!Own(n)
  BY DEF P!Own
<1>3. QED  BY <1>1, <1>2 DEF Dated

\* A request that others leave alone still has to see what it had to see.
LEMMA CoveringStays ==
    ASSUME NEW m \in Request, Aims(m), Clears(m),
           \A p \in P!Photo : photo[p].by = m /\ photo[p].new = "cover" => Promotes(m, p),
           pc'[m] = pc[m], ask'[m] = ask[m], old'[m] = old[m],
           Dated(m)' \subseteq Dated(m),
           \A p \in P!Photo : photo[p].by = m \/ photo'[p].by = m => photo'[p] = photo[p]
    PROVE  /\ Aims(m)' /\ Clears(m)'
           /\ \A p \in P!Photo : photo'[p].by = m /\ photo'[p].new = "cover" => Promotes(m, p)'
<1>1. Dated(m) \subseteq P!Photo
  BY DEF Dated, P!Covers
<1>2. Aims(m)'
  BY DEF Aims
<1>3. Clears(m)'
  BY <1>1 DEF Clears
<1>4. \A p \in P!Photo : photo'[p].by = m /\ photo'[p].new = "cover" => Promotes(m, p)'
  BY DEF Promotes
<1>5. QED  BY <1>2, <1>3, <1>4

(***************************************************************************)
(* Photos: steps                                                           *)
(***************************************************************************)
\* A request that goes on, having looked or written.
LEMMA PoseGoes ==
    ASSUME PhotosInv, NEW n \in Request, Running(n),
           NEW there \in PosePlaces \ {"idle", "read", "done", "failed"}, Goto(n, there),
           UNCHANGED <<ask, arrived, faults, before, maker>>,
           NEW was \in SUBSET P!Photo, old' = [old EXCEPT ![n] = was],
           photo' \in [P!Photo -> [old : PhotoRow, new : PhotoRow, by : Request \cup {Nobody}]],
           \A p \in P!Photo : \/ photo'[p] = photo[p]
                              \/ /\ p \in Born \cup {n} /\ photo[p].by \in {Nobody, n}
                                 /\ photo'[p].old = photo[p].old /\ photo'[p].by = n,
           file' \in [P!Photo -> BOOLEAN], adrift \subseteq adrift', adrift' \subseteq P!Photo,
           \A p \in P!Photo : \/ file'[p] = file[p]
                              \/ p \in P!Touched(n) /\ p \in Born \cup {n} /\ (file'[p] => p = n),
           Poses(n)', Unborn(n)', Files(n)', \A p \in P!Photo : photo'[p].by = n => Takes(n, p)',
           Aims(n)', Clears(n)',
           \A p \in P!Photo : photo'[p].by = n /\ photo'[p].new = "cover" => Promotes(n, p)'
    PROVE  PhotosInv'
<1>1. PhotosTypes
  BY PhotosTyped DEF PhotosInv
<1>2. /\ Comings' /\ Befores' /\ pc'[n] = there /\ \A m \in Request \ {n} : pc'[m] = pc[m]
      /\ Past \subseteq Past'
  <2>1. DOMAIN pc = Request /\ there # "idle"
    BY <1>1 DEF PhotosTypes
  <2>2. QED  BY <2>1, GoingKeeps DEF PhotosInv
<1>3. /\ pc' \in [Request -> PosePlaces] /\ old' \in [Request -> SUBSET P!Photo]
      /\ \A m \in Request \ {n} : old'[m] = old[m]
  BY <1>1 DEF Goto, PhotosTypes
<1>4. P!PhotosTypeOK'
  <2>1. PhotosTypes'
    BY <1>1, <1>3 DEF PhotosTypes
  <2>2. QED  BY <2>1, PhotosTyped
<1>5. /\ \A p \in P!Photo : photo'[p].old = photo[p].old
      /\ \A m \in Request : P!Covers' = P!Covers /\ Dated(m)' = Dated(m)
  <2>1. \A p \in P!Photo : photo'[p].old = photo[p].old
    OBVIOUS
  <2>2. QED  BY <2>1, DatedSame
<1>6. \A p \in P!Photo : OneVersion(photo[p])'
  BY RequestFacts DEF PhotosInv, OneVersion
<1>7. Born' = Born /\ n \notin Born
  <2>1. pc[n] # "done" /\ there # "done"
    BY DEF Running, Ended
  <2>2. n \notin Born
    BY <2>1, PhotoFacts DEF Born
  <2>3. \A p \in P!Photo : p # P!Earlier => (pc'[p] = "done" <=> pc[p] = "done")
    BY <1>2, <2>1, PhotoFacts
  <2>4. QED  BY <2>2, <2>3 DEF Born
<1>8. ASSUME NEW m \in Request \ {n}
      PROVE  /\ (Poses(m) /\ Unborn(m) /\ Files(m))'
             /\ \A p \in P!Photo : photo'[p].by = m => Takes(m, p)'
             /\ Aims(m)' /\ Clears(m)'
             /\ \A p \in P!Photo : photo'[p].by = m /\ photo'[p].new = "cover" => Promotes(m, p)'
  <2>1. /\ Poses(m) /\ Unborn(m) /\ Files(m) /\ Aims(m) /\ Clears(m)
        /\ \A p \in P!Photo : photo[p].by = m => Takes(m, p)
        /\ \A p \in P!Photo : photo[p].by = m /\ photo[p].new = "cover" => Promotes(m, p)
        /\ pc'[m] = pc[m] /\ ask'[m] = ask[m] /\ old'[m] = old[m]
    BY <1>2, <1>3 DEF PhotosInv
  <2>2. Running(m)' <=> Running(m)
    BY <2>1 DEF Running
  <2>3. m \in P!Photo /\ (pc[m] # "done" => m \notin Born \cup {n})
    BY PhotoFacts DEF Born
  <2>4. pc[m] # "done" => photo'[m] = photo[m] /\ file'[m] = file[m]
    BY <2>3
  <2>5. Poses(m)'
    BY <1>7, <2>1, <2>2 DEF Poses
  <2>6. Unborn(m)'
    BY <2>1, <2>4 DEF Unborn
  <2>7. Files(m)'
    <3>1. pc[m] \in {"insert", "aim", "demote", "commit"} => photo'[m] = photo[m] /\ file'[m] = file[m]
      BY <2>4
    <3>2. CASE pc[m] \in {"delete", "commit"} /\ ask[m].kind = "remove"
      <4>1. PICK w \in Born : w = ask[m].who
        BY <2>1, <3>2 DEF Poses, Running, Ended
      <4>2. w \in P!Photo /\ w # n
        BY <1>7 DEF Born
      <4>3. ~file[w] \/ w \in adrift
        BY <2>1, <3>2, <4>1 DEF Files
      <4>4. ~file'[w] \/ w \in adrift'
        BY <4>2, <4>3
      <4>5. photo[w].by = m => photo'[w] = photo[w]
        BY <4>2, RequestFacts
      <4>6. QED  BY <2>1, <3>2, <4>1, <4>4, <4>5 DEF Files
    <3>3. CASE ~(pc[m] \in {"delete", "commit"} /\ ask[m].kind = "remove")
      <4>1. pc[m] # "delete"
        BY <2>1, <3>3 DEF Poses
      <4>2. QED  BY <2>1, <3>1, <3>3, <4>1 DEF Files
    <3>4. QED  BY <3>2, <3>3
  <2>8. \A p \in P!Photo : photo'[p].by = m => Takes(m, p)'
    BY <2>1 DEF Takes
  <2>9. \A p \in P!Photo : photo[p].by = m \/ photo'[p].by = m => photo'[p] = photo[p]
    BY RequestFacts
  <2>10. /\ Aims(m)' /\ Clears(m)'
         /\ \A p \in P!Photo : photo'[p].by = m /\ photo'[p].new = "cover" => Promotes(m, p)'
    BY <1>5, <2>1, <2>9, CoveringStays
  <2>11. QED  BY <2>5, <2>6, <2>7, <2>8, <2>10
<1>9. Whole'
  <2> SUFFICES ASSUME NEW p \in P!Photo, p \notin adrift', ~((photo[p].old # "gone") = file[p])'
               PROVE  \E m \in Request : (Running(m) /\ pc[m] # "read" /\ p \in P!Touched(m))'
    BY DEF Whole
  <2>1. \A m \in Request : P!Touched(m)' = P!Touched(m)
    BY DEF P!Touched
  <2>2. Running(n)' /\ pc'[n] # "read"
    BY <1>2 DEF Running, Ended
  <2>3. CASE p \in P!Touched(n)
    BY <2>1, <2>2, <2>3
  <2>4. CASE p \notin P!Touched(n)
    <3>1. ~((photo[p].old # "gone") = file[p]) /\ p \notin adrift
      BY <1>5, <2>4
    <3>2. PICK m \in Request : Running(m) /\ pc[m] # "read" /\ p \in P!Touched(m)
      BY <3>1 DEF PhotosInv, Whole
    <3>3. m # n
      BY <2>4, <3>2
    <3>4. pc'[m] = pc[m]
      BY <1>2, <3>3
    <3>5. QED  BY <2>1, <3>2, <3>4 DEF Running
  <2>5. QED  BY <2>3, <2>4
<1>10. P!OneCover'
  BY <1>5, n \in Request DEF PhotosInv, P!OneCover, P!Overlap
<1>11. Makers'
  BY <1>2, <1>5, n \in Request DEF PhotosInv, Makers
<1>12. QED  BY <1>2, <1>4, <1>6, <1>8, <1>9, <1>10, <1>11 DEF PhotosInv

\* A request that ends, and releases its rows.
LEMMA PoseEnds ==
    ASSUME PhotosInv, NEW n \in Request, Running(n), NEW there \in Ended,
           Leave(n, there, {}), faults' \in 0..MaxFaults,
           photo' \in [P!Photo -> [old : PhotoRow, new : PhotoRow, by : Request \cup {Nobody}]],
           \A p \in P!Photo : /\ OneVersion(photo[p])' /\ photo'[p].by # n
                              /\ photo[p].by # n => photo'[p] = photo[p]
                              /\ photo'[p] = photo[p] \/ photo'[p].by = Nobody,
           there = "failed" => photo'[n].old = photo[n].old,
           file' \in [P!Photo -> BOOLEAN], \A p \in P!Photo : p # n => file'[p] = file[p],
           adrift \subseteq adrift', adrift' \subseteq P!Photo,
           maker' \in [P!Photo -> Request \cup {Earlier}], \A p \in P!Photo : maker'[p] \in Past \cup {n},
           P!Covers' \subseteq P!Photo, \A p, q \in P!Covers' : maker'[p] = maker'[q] => p = q,
           \A m \in Request \ {n} : Dated(m)' \subseteq Dated(m),
           Whole', P!OneCover'
    PROVE  PhotosInv'
<1>1. PhotosTypes
  BY PhotosTyped DEF PhotosInv
<1>2. /\ Goto(n, there) /\ ask' = [ask EXCEPT ![n] = Nothing] /\ old' = [old EXCEPT ![n] = {}]
      /\ arrived' = arrived /\ before' = before
  BY DEF Leave
<1>3. /\ Comings' /\ Befores' /\ pc'[n] = there /\ \A m \in Request \ {n} : pc'[m] = pc[m]
      /\ Past \subseteq Past' /\ n \in Past'
  <2>1. DOMAIN pc = Request /\ there # "idle"
    BY <1>1 DEF Ended, PhotosTypes
  <2>2. QED  BY <1>2, <2>1, GoingKeeps DEF PhotosInv
<1>4. /\ pc' \in [Request -> PosePlaces]
      /\ ask' \in [Request -> P!Ask \cup {Nothing}]
      /\ old' \in [Request -> SUBSET P!Photo] /\ old'[n] = {}
      /\ \A m \in Request \ {n} : ask'[m] = ask[m] /\ old'[m] = old[m]
  <2>1. there \in PosePlaces
    BY DEF Ended, PosePlaces
  <2>2. QED  BY <1>1, <1>2, <2>1 DEF Goto, PhotosTypes
<1>5. P!PhotosTypeOK'
  <2>1. PhotosTypes'
    BY <1>1, <1>2, <1>4 DEF PhotosTypes
  <2>2. QED  BY <2>1, PhotosTyped
<1>6. Born \subseteq Born' /\ n \notin Born /\ n \in P!Photo
  <2>1. pc[n] # "done"
    BY DEF Running, Ended
  <2>2. \A p \in P!Photo : p # n /\ p # P!Earlier => pc'[p] = pc[p]
    BY <1>3, PhotoFacts
  <2>3. QED  BY <2>1, <2>2, PhotoFacts DEF Born
<1>7. (Poses(n) /\ Unborn(n) /\ Files(n) /\ Aims(n) /\ Clears(n))'
  <2>1. pc'[n] \in {"done", "failed"} /\ pc'[n] = there
    BY <1>3 DEF Ended
  <2>2. Poses(n)' /\ Files(n)' /\ Aims(n)' /\ Clears(n)'
    BY <1>4, <2>1 DEF Poses, Files, Aims, Clears, Running, Ended
  <2>3. Unborn(n)'
    <3>1. photo[n].old = "gone" /\ photo[n].by \in {Nobody, n}
      BY DEF PhotosInv, Unborn, Running, Ended
    <3>2. photo'[n].by = Nobody
      BY <1>6, <3>1
    <3>3. pc'[n] # "done" => photo'[n].old = "gone"
      BY <2>1, <3>1
    <3>4. QED  BY <2>1, <3>2, <3>3 DEF Unborn
  <2>4. QED  BY <2>2, <2>3
<1>8. ASSUME NEW m \in Request \ {n}
      PROVE  /\ (Poses(m) /\ Unborn(m) /\ Files(m))'
             /\ \A p \in P!Photo : photo'[p].by = m => Takes(m, p)'
             /\ Aims(m)' /\ Clears(m)'
             /\ \A p \in P!Photo : photo'[p].by = m /\ photo'[p].new = "cover" => Promotes(m, p)'
  <2>1. /\ Poses(m) /\ Unborn(m) /\ Files(m) /\ Aims(m) /\ Clears(m)
        /\ \A p \in P!Photo : photo[p].by = m => Takes(m, p)
        /\ \A p \in P!Photo : photo[p].by = m /\ photo[p].new = "cover" => Promotes(m, p)
        /\ pc'[m] = pc[m] /\ ask'[m] = ask[m] /\ old'[m] = old[m]
    BY <1>3, <1>4 DEF PhotosInv
  <2>2. Running(m)' <=> Running(m)
    BY <2>1 DEF Running
  <2>3. m \in P!Photo /\ file'[m] = file[m]
    BY PhotoFacts
  <2>4. pc[m] # "done" => photo'[m] = photo[m]
    BY <2>1, <2>3, RequestFacts DEF Unborn
  <2>5. Poses(m)'
    BY <1>6, <2>1, <2>2 DEF Poses
  <2>6. Unborn(m)'
    BY <2>1, <2>3, <2>4 DEF Unborn
  <2>7. Files(m)'
    <3>1. CASE pc[m] \in {"delete", "commit"} /\ ask[m].kind = "remove"
      <4>1. PICK w \in Born : w = ask[m].who
        BY <2>1, <3>1 DEF Poses, Running, Ended
      <4>2. w \in P!Photo /\ w # n
        BY <1>6 DEF Born
      <4>3. ~file[w] \/ w \in adrift
        BY <2>1, <3>1, <4>1 DEF Files
      <4>4. ~file'[w] \/ w \in adrift'
        BY <4>2, <4>3
      <4>5. photo[w].by = m => photo'[w] = photo[w]
        BY <4>2
      <4>6. QED  BY <2>1, <3>1, <4>1, <4>4, <4>5 DEF Files
    <3>2. CASE ~(pc[m] \in {"delete", "commit"} /\ ask[m].kind = "remove")
      <4>1. pc[m] # "delete"
        BY <2>1, <3>2 DEF Poses
      <4>2. QED  BY <2>1, <2>3, <2>4, <3>2, <4>1 DEF Files
    <3>3. QED  BY <3>1, <3>2
  <2>8. \A p \in P!Photo : photo'[p].by = m => Takes(m, p)'
    <3> SUFFICES ASSUME NEW p \in P!Photo, photo'[p].by = m PROVE Takes(m, p)'
      OBVIOUS
    <3>1. photo'[p] = photo[p]
      BY RequestFacts
    <3>2. QED  BY <2>1, <3>1 DEF Takes
  <2>9. \A p \in P!Photo : photo[p].by = m \/ photo'[p].by = m => photo'[p] = photo[p]
    BY RequestFacts
  <2>10. /\ Aims(m)' /\ Clears(m)'
         /\ \A p \in P!Photo : photo'[p].by = m /\ photo'[p].new = "cover" => Promotes(m, p)'
    BY <2>1, <2>9, CoveringStays
  <2>11. QED  BY <2>5, <2>6, <2>7, <2>8, <2>10
<1>9. Makers'
  BY <1>3 DEF Makers
<1>10. \A p \in P!Photo : OneVersion(photo[p])' /\ photo'[p].by # n
  OBVIOUS
<1>11. QED  BY <1>3, <1>5, <1>7, <1>8, <1>9, <1>10 DEF PhotosInv

\* A request that fails leaves what it has done on the disk.
LEMMA PoseFails ==
    ASSUME PhotosInv, NEW n \in Request, Running(n), P!Fail(n), faults' \in 0..MaxFaults,
           file' \in [P!Photo -> BOOLEAN], \A p \in P!Photo : p # n => file'[p] = file[p],
           file'[n] = file[n] \/ (pc[n] # "read" /\ ask[n].kind \in {"upload", "replace"})
    PROVE  PhotosInv'
<1>1. /\ photo' = RollbackRows(photo, n) /\ Leave(n, "failed", {}) /\ maker' = maker
      /\ adrift' = adrift \cup (IF pc[n] = "read" THEN {} ELSE P!Touched(n))
  BY RequestFacts DEF P!Fail, P!RollbackRows, RollbackRows, P!Committed, Committed, P!Nobody, Nobody,
     P!Leave, Leave, P!Goto, Goto, P!Nothing, Nothing
<1>2. PhotosTypes
  BY PhotosTyped DEF PhotosInv
<1>3. \A p \in P!Photo : photo'[p] = IF photo[p].by = n THEN Committed(photo[p].old) ELSE photo[p]
  BY <1>1, <1>2 DEF RollbackRows, PhotosTypes
<1>4. photo' \in [P!Photo -> [old : PhotoRow, new : PhotoRow, by : Request \cup {Nobody}]]
  BY <1>1, <1>2 DEF RollbackRows, Committed, PhotosTypes
<1>5. \A p \in P!Photo : /\ OneVersion(photo'[p]) /\ photo'[p].by # n
                         /\ photo[p].by # n => photo'[p] = photo[p]
                         /\ photo'[p] = photo[p] \/ photo'[p].by = Nobody
                         /\ photo'[p].old = photo[p].old
  BY <1>3, RowReleased DEF PhotosInv
<1>6. P!Touched(n) \subseteq P!Photo
  <2>1. ask[n] \in P!Ask
    BY DEF PhotosInv, Poses
  <2>2. QED  BY <2>1, PhotoFacts, TouchedFacts
<1>7. /\ P!OneCover' /\ P!Covers' = P!Covers
      /\ \A m \in Request \ {n} : Dated(m)' \subseteq Dated(m)
  <2>1. before' = before /\ \A m \in Request \ {n} : ask'[m] = ask[m]
    BY <1>1, <1>2 DEF Leave, PhotosTypes
  <2>2. P!Covers' = P!Covers
    BY <1>5 DEF P!Covers
  <2>3. \A m \in Request \ {n} : Dated(m)' = Dated(m)
    BY <1>1, <1>5, <2>1, DatedSame
  <2>4. P!OneCover'
    BY <1>1, <2>1, <2>2 DEF PhotosInv, P!OneCover, P!Overlap
  <2>5. QED  BY <2>2, <2>3, <2>4
<1>8. Whole'
  <2> SUFFICES ASSUME NEW p \in P!Photo, p \notin adrift', ~((photo[p].old # "gone") = file[p])'
               PROVE  \E m \in Request : (Running(m) /\ pc[m] # "read" /\ p \in P!Touched(m))'
    BY DEF Whole
  <2>1. pc[n] # "read" => p \notin P!Touched(n)
    BY <1>1
  <2>2. p = n => file'[p] = file[p]
    BY <2>1, TouchedFacts
  <2>3. ~((photo[p].old # "gone") = file[p]) /\ p \notin adrift
    BY <1>1, <1>5, <2>2
  <2>4. PICK m \in Request : Running(m) /\ pc[m] # "read" /\ p \in P!Touched(m)
    BY <2>3 DEF PhotosInv, Whole
  <2>5. m # n
    BY <2>1, <2>4
  <2>6. pc'[m] = pc[m] /\ ask'[m] = ask[m]
    BY <1>1, <1>2, <2>5 DEF Leave, Goto, PhotosTypes
  <2>7. P!Touched(m)' = P!Touched(m)
    BY <2>6 DEF P!Touched
  <2>8. QED  BY <2>4, <2>6, <2>7 DEF Running
<1>9. "failed" \in Ended /\ n \in P!Photo
  BY PhotoFacts DEF Ended
<1>10. /\ adrift \subseteq adrift' /\ adrift' \subseteq P!Photo
       /\ maker' \in [P!Photo -> Request \cup {Earlier}]
  BY <1>1, <1>2, <1>6 DEF PhotosTypes
<1>11. /\ \A p \in P!Photo : maker'[p] \in Past \cup {n}
       /\ P!Covers' \subseteq P!Photo /\ \A p, q \in P!Covers' : maker'[p] = maker'[q] => p = q
  BY <1>1, <1>7 DEF PhotosInv, Makers, P!Covers
<1>12. QED  BY <1>1, <1>4, <1>5, <1>7, <1>8, <1>9, <1>10, <1>11, PoseEnds

\* The covers there are when a request has made the one it was asked for: any other has been
\* made so by a request that overlapped with it.
LEMMA CoverSettled ==
    ASSUME PhotosInv, NEW n \in Request, pc[n] = "commit", before' = before,
           \A p \in P!Photo : /\ photo[p].by = n => photo'[p].old = photo[p].new
                              /\ photo[p].by # n => photo'[p] = photo[p]
                              /\ maker'[p] = IF photo[p].by = n /\ photo[p].new = "cover" THEN n ELSE maker[p]
    PROVE  /\ P!OneCover' /\ P!Covers' \subseteq P!Photo
           /\ \A p \in P!Photo : maker'[p] \in Past \cup {n}
           /\ \A p, q \in P!Covers' : maker'[p] = maker'[q] => p = q
           /\ \A m \in Request \ {n} : ask'[m] = ask[m] => Dated(m)' \subseteq Dated(m)
<1>1. /\ Running(n) /\ ask[n] \in P!Ask /\ Clears(n) /\ Befores /\ Makers /\ P!OneCover
      /\ \A p \in P!Photo : photo[p].by = n /\ photo[p].new = "cover" => Promotes(n, p)
  BY DEF PhotosInv, Poses, Running, Ended
<1> DEFINE Made(p) == photo[p].by = n /\ photo[p].new = "cover"
<1>2. \A p \in P!Photo : /\ Made(p) => Promotes(n, p) /\ maker'[p] = n
                         /\ ~Made(p) => maker'[p] = maker[p]
                         /\ p \in P!Covers' /\ ~Made(p) => p \in P!Covers /\ photo[p].by # n
  BY <1>1 DEF P!Covers
<1> HIDE DEF Made
<1>3. P!Covers' \subseteq P!Photo /\ P!Covers \subseteq P!Photo
  BY DEF P!Covers
<1>4. \A p, q \in P!Photo : Made(p) /\ Made(q) => p = q
  BY <1>2 DEF Promotes
<1>5. \A w \in Past : w # n /\ (w \notin before[n] => Overlap(w, n) /\ Overlap(n, w))
  BY <1>1, Meets
<1>6. \A p \in P!Photo : maker[p] \in Past /\ maker[p] # n
  BY <1>1, <1>5 DEF Makers
<1>7. ASSUME NEW p \in P!Covers', NEW q \in P!Covers', Made(p), ~Made(q)
      PROVE  Overlap(maker[q], n) /\ Overlap(n, maker[q])
  <2>1. Promotes(n, p) /\ q \in P!Covers /\ photo[q].by # n /\ p # q
    BY <1>2, <1>3, <1>7
  <2>2. q \notin P!Own(n)
    BY <2>1 DEF Promotes, P!Own
  <2>3. ASSUME maker[q] \in before[n] PROVE FALSE
    <3>1. q \in Dated(n)
      BY <2>1, <2>2, <2>3 DEF Dated
    <3>2. CASE ask[n].kind = "replace"
      BY <1>1, <2>1, <3>1, <3>2 DEF Clears
    <3>3. CASE ask[n].kind \in {"upload", "update"}
      <4>1. ask[n].cover
        BY <2>1, <3>3 DEF Promotes
      <4>2. photo[q].by = n
        BY <1>1, <3>1, <3>3, <4>1 DEF Clears
      <4>3. QED  BY <2>1, <4>2
    <3>4. QED  BY <1>1, <2>1, <3>2, <3>3, PhotoFacts DEF Promotes
  <2>4. QED  BY <1>3, <1>5, <1>6, <2>3
<1>8. \A u, v : P!Overlap(u, v)' <=> Overlap(u, v)
  BY DEF Overlap, Request, P!Overlap, P!Request
<1>9. P!OneCover'
  <2> SUFFICES ASSUME NEW p \in P!Covers', NEW q \in P!Covers', p # q
               PROVE  P!Overlap(maker[p], maker[q])'
    BY DEF P!OneCover
  <2>1. PICK u : u = maker'[p]
    OBVIOUS
  <2>2. PICK v : v = maker'[q]
    OBVIOUS
  <2>3. Overlap(u, v)
    <3>1. CASE Made(p)
      <4>1. u = n /\ ~Made(q) /\ v = maker[q]
        BY <1>2, <1>3, <1>4, <2>1, <2>2, <3>1
      <4>2. QED  BY <1>7, <3>1, <4>1
    <3>2. CASE Made(q)
      <4>1. v = n /\ ~Made(p) /\ u = maker[p]
        BY <1>2, <1>3, <1>4, <2>1, <2>2, <3>2
      <4>2. QED  BY <1>7, <3>2, <4>1
    <3>3. CASE ~Made(p) /\ ~Made(q)
      <4>1. p \in P!Covers /\ q \in P!Covers /\ u = maker[p] /\ v = maker[q]
        BY <1>2, <1>3, <2>1, <2>2, <3>3
      <4>2. P!Overlap(maker[p], maker[q])
        BY <1>1, <4>1 DEF P!OneCover
      <4>3. QED  BY <4>1, <4>2, OverlapFacts
    <3>4. QED  BY <3>1, <3>2, <3>3
  <2>4. P!Overlap(u, v)'
    BY <1>8, <2>3
  <2>5. QED  BY <2>1, <2>2, <2>4 DEF P!Overlap
<1>10. \A p, q \in P!Covers' : maker'[p] = maker'[q] => p = q
  BY <1>1, <1>2, <1>3, <1>4, <1>6 DEF Makers
<1>11. \A p \in P!Photo : maker'[p] \in Past \cup {n}
  BY <1>2, <1>6
<1>12. ASSUME NEW m \in Request \ {n}, ask'[m] = ask[m] PROVE Dated(m)' \subseteq Dated(m)
  <2>1. n \notin before[m] /\ before'[m] = before[m]
    BY <1>1, <1>5 DEF Befores
  <2>2. P!Own(m)' = P!Own(m)
    BY <1>12 DEF P!Own
  <2>3. QED  BY <1>2, <1>3, <2>1, <2>2 DEF Dated
<1>13. QED  BY <1>3, <1>9, <1>10, <1>11, <1>12

LEMMA PoseCommits ==
    ASSUME PhotosInv, NEW n \in Request, P!Commit(n)
    PROVE  PhotosInv'
<1>1. /\ pc[n] = "commit" /\ photo' = CommitRows(photo, n)
      /\ maker' = [p \in P!Photo |-> IF photo[p].by = n /\ photo[p].new = "cover" THEN n ELSE maker[p]]
      /\ adrift' = adrift \cup (IF ask[n].kind = "replace" THEN old[n] ELSE {})
      /\ Leave(n, "done", {}) /\ file' = file /\ faults' = faults
  BY RequestFacts DEF P!Commit, P!CommitRows, CommitRows, P!Committed, Committed, P!Nobody, Nobody,
     P!Leave, Leave, P!Goto, Goto, P!Nothing, Nothing
<1>2. PhotosTypes
  BY PhotosTyped DEF PhotosInv
<1>3. \A p \in P!Photo : photo'[p] = IF photo[p].by = n THEN Committed(photo[p].new) ELSE photo[p]
  BY <1>1, <1>2 DEF CommitRows, PhotosTypes
<1>4. photo' \in [P!Photo -> [old : PhotoRow, new : PhotoRow, by : Request \cup {Nobody}]]
  BY <1>1, <1>2 DEF CommitRows, Committed, PhotosTypes
<1>5. \A p \in P!Photo : /\ OneVersion(photo'[p]) /\ photo'[p].by # n
                         /\ photo[p].by # n => photo'[p] = photo[p]
                         /\ photo'[p] = photo[p] \/ photo'[p].by = Nobody
  BY <1>3, RowReleased DEF PhotosInv
<1>6. \A p \in P!Photo : photo[p].by = n => photo'[p].old = photo[p].new
  BY <1>3, RowReleased DEF PhotosInv
<1>7. /\ Running(n) /\ "done" \in Ended /\ n \in P!Photo
      /\ ask[n] \in P!Ask /\ Files(n) /\ Unborn(n)
      /\ \A p \in P!Photo : photo[p].by = n => Takes(n, p)
  BY <1>1, PhotoFacts DEF PhotosInv, Poses, Running, Ended
<1>8. /\ P!OneCover' /\ P!Covers' \subseteq P!Photo
      /\ \A p \in P!Photo : maker'[p] \in Past \cup {n}
      /\ \A p, q \in P!Covers' : maker'[p] = maker'[q] => p = q
      /\ \A m \in Request \ {n} : Dated(m)' \subseteq Dated(m)
  <2>1. \A p \in P!Photo : /\ photo[p].by = n => photo'[p].old = photo[p].new
                           /\ photo[p].by # n => photo'[p] = photo[p]
                           /\ maker'[p] = IF photo[p].by = n /\ photo[p].new = "cover" THEN n ELSE maker[p]
    BY <1>1, <1>5, <1>6
  <2>2. before' = before /\ \A m \in Request \ {n} : ask'[m] = ask[m]
    BY <1>1, <1>2 DEF Leave, PhotosTypes
  <2>3. QED  BY <1>1, <2>1, <2>2, CoverSettled
<1>9. maker' \in [P!Photo -> Request \cup {Earlier}]
  BY <1>1, <1>2 DEF PhotosTypes
<1>10. Whole'
  <2> SUFFICES ASSUME NEW p \in P!Photo, p \notin adrift', ~((photo[p].old # "gone") = file[p])'
               PROVE  \E m \in Request : (Running(m) /\ pc[m] # "read" /\ p \in P!Touched(m))'
    BY DEF Whole
  <2>1. p \notin adrift /\ file'[p] = file[p] /\ ~(ask[n].kind = "replace" /\ p \in old[n])
    BY <1>1
  <2>2. p \in P!Touched(n) => \/ p = n /\ ask[n].kind \in {"upload", "replace"}
                              \/ p = ask[n].who /\ ask[n].kind = "remove"
    BY <1>7, TouchedFacts, PhotoFacts
  <2>3. photo[n].old = "gone"
    BY <1>1, <1>7 DEF Unborn
  <2>4. ~((photo[p].old # "gone") = file[p]) /\ p \notin P!Touched(n)
    <3>1. CASE photo[p].by = n
      <4>1. photo'[p].old = photo[p].new
        BY <1>6, <3>1
      <4>2. \/ p = n /\ ask[n].kind \in {"upload", "replace"} /\ photo[p].new # "gone"
            \/ ask[n].kind = "remove" /\ p = ask[n].who /\ photo[p].new = "gone"
            \/ /\ ask[n].kind \in {"upload", "update"}
               /\ photo[p].old # "gone" /\ photo[p].new # "gone"
        BY <1>7, <2>1, <3>1 DEF Takes
      <4>3. CASE p = n /\ ask[n].kind \in {"upload", "replace"} /\ photo[p].new # "gone"
        BY <1>1, <1>7, <2>1, <4>1, <4>3 DEF Files
      <4>4. CASE ask[n].kind = "remove" /\ p = ask[n].who /\ photo[p].new = "gone"
        <5>1. ~file[p]
          BY <1>1, <1>7, <2>1, <4>4 DEF Files
        <5>2. photo'[p].old = "gone" /\ ~file'[p]
          BY <2>1, <4>1, <4>4, <5>1
        <5>3. QED  BY <1>2, <2>1, <5>1, <5>2 DEF PhotosTypes
      <4>5. CASE ask[n].kind \in {"upload", "update"} /\ photo[p].old # "gone" /\ photo[p].new # "gone"
        BY <2>1, <2>2, <2>3, <4>1, <4>5
      <4>6. QED  BY <4>2, <4>3, <4>4, <4>5
    <3>2. CASE photo[p].by # n
      <4>1. photo'[p] = photo[p]
        BY <1>5, <3>2
      <4>2. p # n \/ ask[n].kind \notin {"upload", "replace"}
        BY <1>1, <1>2, <1>7, <2>1, <2>3, <3>2, <4>1 DEF Files, PhotosTypes
      <4>3. ~(p = ask[n].who /\ ask[n].kind = "remove")
        BY <1>1, <1>7, <3>2 DEF Files
      <4>4. QED  BY <2>1, <2>2, <4>1, <4>2, <4>3
    <3>3. QED  BY <3>1, <3>2
  <2>5. PICK m \in Request : Running(m) /\ pc[m] # "read" /\ p \in P!Touched(m)
    BY <2>1, <2>4 DEF PhotosInv, Whole
  <2>6. pc'[m] = pc[m] /\ ask'[m] = ask[m]
    BY <1>1, <1>2, <2>4, <2>5 DEF Leave, Goto, PhotosTypes
  <2>7. P!Touched(m)' = P!Touched(m)
    BY <2>6 DEF P!Touched
  <2>8. QED  BY <2>5, <2>6, <2>7 DEF Running
<1>11. adrift \subseteq adrift' /\ adrift' \subseteq P!Photo /\ faults' \in 0..MaxFaults
  BY <1>1, <1>2 DEF PhotosTypes
<1>12. file' \in [P!Photo -> BOOLEAN] /\ \A p \in P!Photo : p # n => file'[p] = file[p]
  BY <1>1, <1>2 DEF PhotosTypes
<1>13. QED  BY <1>1, <1>4, <1>5, <1>7, <1>8, <1>9, <1>10, <1>11, <1>12, PoseEnds

\* A request that has written no row.
LEMMA PoseHolds ==
    ASSUME PhotosInv, NEW n \in Request, pc[n] \notin {"set", "insert", "file", "commit"}
    PROVE  \A p \in P!Photo : photo[p].by # n
  BY DEF PhotosInv, Takes

\* A request that does not commit yet has made no cover.
LEMMA MakesNone ==
    ASSUME PhotosInv, NEW n \in Request, pc[n] # "commit"
    PROVE  \A p \in P!Photo : photo[p].by = n => photo[p].new # "cover"
  BY DEF PhotosInv, Promotes

LEMMA PoseArrives ==
    ASSUME PhotosInv, NEW n \in Request, NEW a \in P!Ask, P!Arrive(n, a)
    PROVE  PhotosInv'
<1>1. ArriveAt(n, a, "read") /\ UNCHANGED <<photo, file, maker, adrift>>
  BY RequestFacts DEF P!Arrive, P!ArriveAt, ArriveAt, P!Goto, Goto, P!Ended, Ended, P!history
<1>2. PhotosTypes
  BY PhotosTyped DEF PhotosInv
<1>3. /\ Comings' /\ Befores'
      /\ before' \in [Request -> SUBSET (Request \cup {Earlier})] /\ arrived' \in 0..MaxRequests
      /\ pc[n] = "idle" /\ pc'[n] = "read" /\ ask'[n] = a
      /\ \A m \in Request \ {n} : pc'[m] = pc[m] /\ ask'[m] = ask[m] /\ before'[m] = before[m]
      /\ Past' = Past
      /\ \A u, v \in Past : Overlap(u, v)' <=> Overlap(u, v)
  <2>1. /\ DOMAIN pc = Request /\ DOMAIN ask = Request /\ arrived \in 0..MaxRequests
        /\ before \in [Request -> SUBSET (Request \cup {Earlier})]
    BY <1>2 DEF PhotosTypes
  <2>2. "read" # "idle" /\ "read" \notin Ended
    BY DEF Ended
  <2>3. QED  BY <1>1, <2>1, <2>2, ComingKeeps DEF PhotosInv
<1>4. old' = old /\ faults' = faults
  BY <1>1 DEF ArriveAt
<1>5. P!PhotosTypeOK'
  <2>1. pc' \in [Request -> PosePlaces]
    BY <1>1, <1>2 DEF ArriveAt, Goto, PhotosTypes, PosePlaces
  <2>2. ask' \in [Request -> P!Ask \cup {Nothing}]
    BY <1>1, <1>2 DEF ArriveAt, PhotosTypes
  <2>3. PhotosTypes'
    BY <1>1, <1>2, <1>3, <1>4, <2>1, <2>2 DEF PhotosTypes
  <2>4. QED  BY <2>3, PhotosTyped
<1>6. Born' = Born
  <2>1. \A p \in P!Photo : p # P!Earlier => (pc'[p] = "done" <=> pc[p] = "done")
    BY <1>3, PhotoFacts
  <2>2. QED  BY <2>1 DEF Born
<1>7. P!Covers' = P!Covers
  BY <1>1 DEF P!Covers
<1>8. \A p \in P!Photo : photo[p].by # n
  BY <1>3 DEF PhotosInv, Takes
<1>9. (Poses(n) /\ Unborn(n) /\ Files(n) /\ Aims(n) /\ Clears(n))'
  <2>1. Poses(n) /\ Unborn(n)
    BY DEF PhotosInv
  <2>2. Poses(n)'
    BY <1>3, <1>4, <1>6, <2>1 DEF Poses
  <2>3. Unborn(n)'
    BY <1>1, <1>3, <2>1 DEF Unborn
  <2>4. Files(n)' /\ Aims(n)' /\ Clears(n)'
    BY <1>3 DEF Files, Aims, Clears
  <2>5. QED  BY <2>2, <2>3, <2>4
<1>10. ASSUME NEW m \in Request \ {n}
       PROVE  /\ (Poses(m) /\ Unborn(m) /\ Files(m))'
              /\ \A p \in P!Photo : photo'[p].by = m => Takes(m, p)'
              /\ Aims(m)' /\ Clears(m)'
              /\ \A p \in P!Photo : photo'[p].by = m /\ photo'[p].new = "cover" => Promotes(m, p)'
  <2>1. /\ Poses(m) /\ Unborn(m) /\ Files(m) /\ Aims(m) /\ Clears(m)
        /\ \A p \in P!Photo : photo[p].by = m => Takes(m, p)
        /\ \A p \in P!Photo : photo[p].by = m /\ photo[p].new = "cover" => Promotes(m, p)
        /\ pc'[m] = pc[m] /\ ask'[m] = ask[m] /\ old'[m] = old[m]
    BY <1>3, <1>4 DEF PhotosInv
  <2>2. Running(m)' <=> Running(m)
    BY <2>1 DEF Running
  <2>3. Poses(m)'
    BY <1>6, <2>1, <2>2 DEF Poses
  <2>4. Unborn(m)' /\ Files(m)'
    BY <1>1, <2>1 DEF Unborn, Files
  <2>5. \A p \in P!Photo : photo'[p].by = m => Takes(m, p)'
    BY <1>1, <2>1 DEF Takes
  <2>6. Dated(m)' \subseteq Dated(m)
    <3>1. P!Own(m)' = P!Own(m)
      BY <2>1 DEF P!Own
    <3>2. QED  BY <1>1, <1>3, <1>7, <3>1 DEF Dated
  <2>7. /\ Aims(m)' /\ Clears(m)'
        /\ \A p \in P!Photo : photo'[p].by = m /\ photo'[p].new = "cover" => Promotes(m, p)'
    BY <1>1, <2>1, <2>6, CoveringStays
  <2>8. QED  BY <2>3, <2>4, <2>5, <2>7
<1>11. Whole'
  <2> SUFFICES ASSUME NEW p \in P!Photo, p \notin adrift', ~((photo[p].old # "gone") = file[p])'
               PROVE  \E m \in Request : (Running(m) /\ pc[m] # "read" /\ p \in P!Touched(m))'
    BY DEF Whole
  <2>1. PICK m \in Request : Running(m) /\ pc[m] # "read" /\ p \in P!Touched(m)
    BY <1>1 DEF PhotosInv, Whole
  <2>2. pc'[m] = pc[m] /\ ask'[m] = ask[m]
    BY <1>3, <2>1 DEF Running
  <2>3. P!Touched(m)' = P!Touched(m)
    BY <2>2 DEF P!Touched
  <2>4. QED  BY <2>1, <2>2, <2>3 DEF Running
<1>12. P!OneCover' /\ Makers' /\ \A p \in P!Photo : OneVersion(photo[p])'
  <2>1. Makers' /\ \A p \in P!Photo : OneVersion(photo[p])'
    BY <1>1, <1>3, <1>7 DEF PhotosInv, Makers, OneVersion
  <2>2. P!OneCover'
    <3> SUFFICES ASSUME NEW p \in P!Covers, NEW q \in P!Covers, p # q
                 PROVE  P!Overlap(maker[p], maker[q])'
      BY <1>7 DEF P!OneCover
    <3>1. PICK u \in Past : u = maker[p]
      BY DEF PhotosInv, Makers, P!Covers
    <3>2. PICK v \in Past : v = maker[q]
      BY DEF PhotosInv, Makers, P!Covers
    <3>3. Overlap(u, v)
      BY <3>1, <3>2, OverlapFacts DEF PhotosInv, P!OneCover
    <3>4. Overlap(u, v)'
      BY <1>3, <3>3
    <3>5. maker'[p] = u /\ maker'[q] = v
      BY <1>1, <3>1, <3>2
    <3>6. QED  BY <3>4, <3>5 DEF Overlap, Request, P!Overlap, P!Request
  <2>3. QED  BY <2>1, <2>2
<1>13. \A m \in Request : \A p \in P!Photo : /\ photo'[p].by = m => Takes(m, p)'
                                             /\ photo'[p].by = m /\ photo'[p].new = "cover" => Promotes(m, p)'
  BY <1>1, <1>8, <1>10
<1>14. \A m \in Request : (Poses(m) /\ Unborn(m) /\ Files(m) /\ Aims(m) /\ Clears(m))'
  BY <1>9, <1>10
<1>15. QED  BY <1>3, <1>5, <1>11, <1>12, <1>13, <1>14 DEF PhotosInv

LEMMA PoseLooks ==
    ASSUME PhotosInv, NEW n \in Request, P!Look(n)
    PROVE  PhotosInv'
<1>1. PhotosTypes
  BY PhotosTyped DEF PhotosInv
<1>2. /\ pc[n] = "read" /\ Running(n) /\ ask[n] \in P!Ask /\ Poses(n) /\ Unborn(n)
      /\ ask[n].kind \in {"update", "remove"} => photo[ask[n].who].old # "gone"
  BY DEF P!Look, PhotosInv, Poses, Running, Ended
<1>3. PICK was \in SUBSET P!Photo : was = IF ask[n].kind = "replace" THEN P!Covers ELSE P!Covers \cap P!Own(n)
  BY DEF P!Covers
<1>4. /\ ask[n].kind \in {"upload", "update", "remove", "replace"}
      /\ ask[n].kind = "update" => ask[n].cover \in BOOLEAN
  BY <1>2, PhotoFacts
<1>5. PICK there \in {"file", "aim", "set", "unlink", "drop"} :
         /\ old' = [old EXCEPT ![n] = was] /\ Goto(n, there)
         /\ UNCHANGED <<ask, arrived, faults, before, photo, file, maker, adrift>>
         /\ ask[n].kind = "upload" => there = "file"
         /\ ask[n].kind = "update" => there = IF ask[n].cover THEN "aim" ELSE "set"
         /\ ask[n].kind = "remove" => there = "unlink"
         /\ ask[n].kind = "replace" => there = "drop"
  <2> DEFINE place == CASE ask[n].kind = "upload" -> "file"
                        [] ask[n].kind = "update" -> IF ask[n].cover THEN "aim" ELSE "set"
                        [] ask[n].kind = "remove" -> "unlink"
                        [] ask[n].kind = "replace" -> "drop"
  <2>1. /\ ask[n].kind = "upload" => place = "file"
        /\ ask[n].kind = "update" => place = IF ask[n].cover THEN "aim" ELSE "set"
        /\ ask[n].kind = "remove" => place = "unlink"
        /\ ask[n].kind = "replace" => place = "drop"
    OBVIOUS
  <2>2. /\ old' = [old EXCEPT ![n] = was] /\ Goto(n, place)
        /\ UNCHANGED <<ask, arrived, faults, before, photo, file, maker, adrift>>
    BY <1>3 DEF P!Look, P!Read, P!Goto, Goto, P!bounds, P!history
  <2> HIDE DEF place
  <2>3. QED  BY <1>4, <2>1, <2>2
<1>6. pc'[n] = there /\ old'[n] = was
  BY <1>1, <1>5 DEF Goto, PhotosTypes
<1>7. /\ was \subseteq Born
      /\ ask[n].kind \in {"update", "remove"} => ask[n].who \in Born
  <2>1. ask[n].kind \in {"update", "remove"} => ask[n].who \in P!Photo
    BY <1>2, PhotoFacts
  <2>2. QED  BY <1>2, <1>3, <2>1, BornFacts
<1>8. Born \subseteq Born'
  BY <1>1, <1>2, <1>5 DEF Born, Goto, PhotosTypes
<1>9. Poses(n)'
  BY <1>2, <1>4, <1>5, <1>6, <1>7, <1>8 DEF Poses
<1>10. Unborn(n)' /\ Files(n)'
  BY <1>2, <1>4, <1>5, <1>6 DEF Unborn, Files
<1>11. \A p \in P!Photo : photo'[p].by # n
  BY <1>2, <1>5, PoseHolds
<1>12. Aims(n)' /\ Clears(n)'
  <2>1. Dated(n)' = Dated(n) /\ Dated(n) \subseteq P!Covers
    BY <1>5, DatedSame DEF Dated
  <2>2. Aims(n)'
    BY <1>2, <1>3, <1>4, <1>5, <1>6, <2>1 DEF Aims
  <2>3. Clears(n)'
    BY <1>4, <1>5, <1>6 DEF Clears
  <2>4. QED  BY <2>2, <2>3
<1>13. there \in PosePlaces \ {"idle", "read", "done", "failed"}
  BY DEF PosePlaces
<1>14. /\ photo' \in [P!Photo -> [old : PhotoRow, new : PhotoRow, by : Request \cup {Nobody}]]
       /\ file' \in [P!Photo -> BOOLEAN] /\ adrift' \subseteq P!Photo
  BY <1>1, <1>5 DEF PhotosTypes
<1>15. QED  BY <1>2, <1>5, <1>9, <1>10, <1>11, <1>12, <1>13, <1>14, PoseGoes

\* The statement that demotes begins: it sees the covers there are.
LEMMA PoseAims ==
    ASSUME PhotosInv, NEW n \in Request, P!Aim(n)
    PROVE  PhotosInv'
<1>1. PhotosTypes /\ pc[n] = "aim" /\ Running(n) /\ Poses(n) /\ Unborn(n) /\ Files(n)
  BY PhotosTyped DEF PhotosInv, P!Aim, Running, Ended
<1>2. PICK was \in SUBSET P!Photo : was = old[n] \cup (P!Covers \ P!Own(n))
  BY <1>1 DEF P!Covers, PhotosTypes
<1>3. /\ old' = [old EXCEPT ![n] = was] /\ Goto(n, "demote")
      /\ UNCHANGED <<ask, arrived, faults, before, photo, file, maker, adrift>>
  BY <1>2 DEF P!Aim, P!Read, P!Goto, Goto, P!bounds, P!history
<1>4. pc'[n] = "demote" /\ old'[n] = was
  BY <1>1, <1>3 DEF Goto, PhotosTypes
<1>5. was \subseteq Born
  BY <1>1, <1>2, BornFacts DEF Poses
<1>6. Born \subseteq Born'
  BY <1>1, <1>3 DEF Born, Goto, PhotosTypes
<1>7. Poses(n)'
  BY <1>1, <1>3, <1>4, <1>5, <1>6 DEF Poses
<1>8. Unborn(n)' /\ Files(n)'
  BY <1>1, <1>3, <1>4 DEF Unborn, Files
<1>9. \A p \in P!Photo : photo'[p].by # n
  BY <1>1, <1>3, PoseHolds
<1>10. Aims(n)' /\ Clears(n)'
  <2>1. Dated(n)' = Dated(n) /\ Dated(n) \subseteq was
    BY <1>2, <1>3, DatedSame DEF Dated
  <2>2. QED  BY <1>4, <2>1 DEF Aims, Clears
<1>11. "demote" \in PosePlaces \ {"idle", "read", "done", "failed"}
  BY DEF PosePlaces
<1>12. /\ photo' \in [P!Photo -> [old : PhotoRow, new : PhotoRow, by : Request \cup {Nobody}]]
       /\ file' \in [P!Photo -> BOOLEAN] /\ adrift' \subseteq P!Photo
  BY <1>1, <1>3 DEF PhotosTypes
<1>13. QED  BY <1>1, <1>3, <1>7, <1>8, <1>9, <1>10, <1>11, <1>12, PoseGoes

\* A handler that goes on with what it has read.
LEMMA PoseSteps ==
    ASSUME PhotosInv, NEW n \in Request, Running(n), pc[n] # "read",
           NEW there \in PosePlaces \ {"idle", "read", "done", "failed", "demote", "drop", "unlink"}, P!Step(n, there),
           maker' = maker,
           photo' \in [P!Photo -> [old : PhotoRow, new : PhotoRow, by : Request \cup {Nobody}]],
           \A p \in P!Photo : \/ photo'[p] = photo[p]
                              \/ /\ p \in Born \cup {n} /\ photo[p].by \in {Nobody, n}
                                 /\ photo'[p].old = photo[p].old /\ photo'[p].by = n,
           file' \in [P!Photo -> BOOLEAN], adrift \subseteq adrift', adrift' \subseteq P!Photo,
           \A p \in P!Photo : \/ file'[p] = file[p]
                              \/ p \in P!Touched(n) /\ p \in Born \cup {n} /\ (file'[p] => p = n),
           there \in {"file", "insert"} => ask[n].kind \in {"upload", "replace"},
           there = "aim" => ask[n].kind = "upload" /\ ask[n].cover,
           there = "set" => ask[n].kind = "update",
           there = "delete" => ask[n].kind = "remove",
           there = "file" => ~file'[n],
           Files(n)', \A p \in P!Photo : photo'[p].by = n => Takes(n, p)', Clears(n)',
           \A p \in P!Photo : photo'[p].by = n /\ photo'[p].new = "cover" => Promotes(n, p)'
    PROVE  PhotosInv'
<1>1. PhotosTypes /\ Poses(n) /\ Unborn(n)
  BY PhotosTyped DEF PhotosInv
<1>2. Goto(n, there) /\ UNCHANGED <<ask, old, arrived, faults, before>>
  BY DEF P!Step, P!Goto, Goto, P!bounds
<1>3. pc'[n] = there /\ there # "done" /\ pc[n] # "done"
  BY <1>1, <1>2 DEF Goto, PhotosTypes, Running, Ended
<1>4. Born' = Born
  BY <1>1, <1>2, <1>3, PhotoFacts DEF Born, Goto, PhotosTypes
<1>5. Poses(n)'
  BY <1>1, <1>2, <1>3, <1>4 DEF Poses
<1>6. Unborn(n)'
  <2>1. photo'[n].old = "gone" /\ photo'[n].by \in {Nobody, n}
    BY <1>1, <1>3, PhotoFacts DEF Unborn
  <2>2. QED  BY <1>3, <2>1 DEF Unborn
<1>7. old[n] \in SUBSET P!Photo /\ old' = [old EXCEPT ![n] = old[n]]
  BY <1>1, <1>2 DEF PhotosTypes
<1>8. Aims(n)'
  BY <1>3 DEF Aims
<1>9. QED  BY <1>2, <1>5, <1>6, <1>7, <1>8, PoseGoes

LEMMA PoseWritesFile ==
    ASSUME PhotosInv, NEW n \in Request, P!WriteFile(n)
    PROVE  PhotosInv'
<1>1. PhotosTypes /\ pc[n] = "file" /\ Running(n) /\ n \in P!Photo
  BY PhotosTyped, PhotoFacts DEF PhotosInv, P!WriteFile, Running, Ended
<1>2. /\ ask[n] \in P!Ask /\ ask[n].kind \in {"upload", "replace"} /\ Unborn(n) /\ ~file[n]
      /\ ask[n].kind = "upload" => ask[n].cover \in BOOLEAN
      /\ P!Touched(n) = {n} /\ n \notin Born /\ old[n] \subseteq Born
  BY <1>1, PhotoFacts, TouchedFacts DEF PhotosInv, Poses, Unborn, Born
<1>3. \A p \in P!Photo : photo[p].by = n => p \in old[n] /\ ask[n].kind = "replace" /\ photo[p].new = "gone"
  BY <1>1 DEF PhotosInv, Takes
<1>4. photo[n].new = "gone" /\ photo[n].by # n
  BY <1>1, <1>2, <1>3 DEF PhotosInv, Unborn, OneVersion
<1>5. ask[n].kind = "replace" => \A p \in Dated(n) : photo[p].by = n
  BY <1>1 DEF PhotosInv, Clears
<1>6. ASSUME NEW there \in {"aim", "insert", "commit"}, P!Step(n, there), UNCHANGED <<photo, maker, adrift>>,
             file' \in [P!Photo -> BOOLEAN], \A p \in P!Photo : p # n => file'[p] = file[p],
             there \in {"aim", "insert"} => file'[n],
             there = "aim" => ask[n].kind = "upload" /\ ask[n].cover,
             there = "insert" /\ ask[n].kind = "upload" => ~ask[n].cover,
             there = "commit" => ask[n].kind = "replace" /\ file' = file
      PROVE  PhotosInv'
  <2>1. UNCHANGED <<ask, old, before>> /\ pc'[n] = there
    BY <1>1, <1>6 DEF P!Step, P!Goto, PhotosTypes
  <2>2. Files(n)'
    <3>1. CASE there = "commit"
      <4>1. file'[n] = FALSE /\ (photo'[n].new # "gone") = FALSE /\ (photo'[n].by = n) = FALSE
        BY <1>1, <1>2, <1>4, <1>6, <3>1 DEF PhotosTypes
      <4>2. pc'[n] = "commit" /\ ask'[n].kind = "replace"
        BY <1>6, <2>1, <3>1
      <4>3. QED  BY <4>1, <4>2 DEF Files
    <3>2. CASE there # "commit"
      BY <1>6, <2>1, <3>2 DEF Files
    <3>3. QED  BY <3>1, <3>2
  <2>3. \A p \in P!Photo : photo'[p].by = n => Takes(n, p)'
    BY <1>3, <1>6, <2>1 DEF Takes
  <2>4. \A p \in P!Photo : photo'[p].by = n /\ photo'[p].new = "cover" => Promotes(n, p)'
    BY <1>3, <1>6
  <2>5. Clears(n)'
    <3>1. Dated(n)' = Dated(n)
      BY <1>6, <2>1, DatedSame
    <3>2. CASE ask[n].kind = "replace"
      BY <1>5, <1>6, <2>1, <3>1, <3>2 DEF Clears
    <3>3. CASE ask[n].kind = "upload"
      BY <1>6, <2>1, <3>3 DEF Clears
    <3>4. QED  BY <1>2, <3>2, <3>3
  <2>6. /\ photo' \in [P!Photo -> [old : PhotoRow, new : PhotoRow, by : Request \cup {Nobody}]]
        /\ adrift' \subseteq P!Photo
    BY <1>1, <1>6 DEF PhotosTypes
  <2>7. there \in PosePlaces \ {"idle", "read", "done", "failed", "demote", "drop", "unlink"}
    BY DEF PosePlaces
  <2>8. QED  BY <1>1, <1>2, <1>6, <2>2, <2>3, <2>4, <2>5, <2>6, <2>7, PoseSteps
<1>7. CASE /\ file' = [file EXCEPT ![n] = TRUE]
           /\ P!Step(n, IF ask[n].kind = "upload" /\ ask[n].cover THEN "aim" ELSE "insert")
           /\ UNCHANGED <<photo, maker, adrift>>
  <2>1. /\ file' \in [P!Photo -> BOOLEAN] /\ \A p \in P!Photo : p # n => file'[p] = file[p]
        /\ file'[n]
    BY <1>1, <1>7 DEF PhotosTypes
  <2>2. CASE ask[n].kind = "upload" /\ ask[n].cover
    BY <1>6, <1>7, <2>1, <2>2
  <2>3. CASE ~(ask[n].kind = "upload" /\ ask[n].cover)
    BY <1>6, <1>7, <2>1, <2>3
  <2>4. QED  BY <2>2, <2>3
<1>8. CASE ask[n].kind = "replace" /\ P!Step(n, "commit") /\ UNCHANGED <<photo, file, maker, adrift>>
  <2>1. file' \in [P!Photo -> BOOLEAN] /\ \A p \in P!Photo : p # n => file'[p] = file[p]
    BY <1>1, <1>8 DEF PhotosTypes
  <2>2. QED  BY <1>6, <1>8, <2>1
<1>9. CASE (\E some \in BOOLEAN : file' = [file EXCEPT ![n] = some]) /\ P!Fail(n) /\ faults' = faults
  <2>1. /\ file' \in [P!Photo -> BOOLEAN] /\ \A p \in P!Photo : p # n => file'[p] = file[p]
        /\ faults' \in 0..MaxFaults
    BY <1>1, <1>9 DEF PhotosTypes
  <2>2. QED  BY <1>1, <1>2, <1>9, <2>1, PoseFails
<1>10. QED  BY <1>7, <1>8, <1>9 DEF P!WriteFile, P!history

\* The rows after request n has written v to those of the photos S.
RowsWith(n, S, v) ==
    [p \in P!Photo |-> IF p \in S THEN [photo[p] EXCEPT !.new = v, !.by = n] ELSE photo[p]]

LEMMA RowsWritten ==
    ASSUME PhotosTypes, NEW n \in Request, NEW S, NEW v \in PhotoRow, photo' = RowsWith(n, S, v)
    PROVE  /\ photo' \in [P!Photo -> [old : PhotoRow, new : PhotoRow, by : Request \cup {Nobody}]]
           /\ \A p \in P!Photo : /\ photo'[p].old = photo[p].old
                                 /\ p \notin S => photo'[p] = photo[p]
                                 /\ p \in S => photo'[p].new = v /\ photo'[p].by = n
<1>1. photo \in [P!Photo -> [old : PhotoRow, new : PhotoRow, by : Request \cup {Nobody}]]
  BY DEF PhotosTypes
<1>2. ASSUME NEW p \in P!Photo, p \in S
      PROVE  /\ photo'[p].old = photo[p].old /\ photo'[p].new = v /\ photo'[p].by = n
             /\ photo'[p] \in [old : PhotoRow, new : PhotoRow, by : Request \cup {Nobody}]
  <2>1. photo[p] \in [old : PhotoRow, new : PhotoRow, by : Request \cup {Nobody}]
    BY <1>1, <1>2
  <2>2. photo'[p] = [photo[p] EXCEPT !.new = v, !.by = n]
    BY <1>2 DEF RowsWith
  <2>3. QED  BY <2>1, <2>2
<1>3. ASSUME NEW p \in P!Photo, p \notin S
      PROVE  /\ photo'[p] = photo[p]
             /\ photo'[p] \in [old : PhotoRow, new : PhotoRow, by : Request \cup {Nobody}]
  BY <1>1, <1>3 DEF RowsWith
<1> DEFINE F(p) == IF p \in S THEN [photo[p] EXCEPT !.new = v, !.by = n] ELSE photo[p]
<1>4. photo' = [p \in P!Photo |-> F(p)]
  BY DEF RowsWith
<1> HIDE DEF F
<1>5. \A p \in P!Photo : photo'[p] = F(p)
  BY <1>4
<1>6. photo' \in [P!Photo -> [old : PhotoRow, new : PhotoRow, by : Request \cup {Nobody}]]
  BY <1>2, <1>3, <1>4, <1>5
<1>7. QED  BY <1>2, <1>3, <1>6

LEMMA PoseDemotes ==
    ASSUME PhotosInv, NEW n \in Request, P!Demote(n)
    PROVE  PhotosInv'
<1> DEFINE demoted == {p \in old[n] \ P!Own(n) : photo[p].new = "cover"}
<1>1. PhotosTypes /\ pc[n] = "demote" /\ Running(n) /\ Files(n) /\ Aims(n) /\ old[n] \subseteq Born
  BY PhotosTyped, n \in Request DEF Poses, PhotosInv, P!Demote, Running, Ended
<1>2. ask[n] \in P!Ask /\ ask[n].kind \in {"upload", "update"} /\ ask[n].cover
  BY <1>1 DEF PhotosInv, Poses
<1>3. \A p \in P!Photo : photo[p].by # n
  BY <1>1, PoseHolds
<1>4. /\ \A p \in old[n] \ P!Own(n) : photo[p].by \in {Nobody, n}
      /\ photo' = [p \in P!Photo |-> IF p \in demoted THEN [photo[p] EXCEPT !.new = "plain", !.by = n]
                                     ELSE photo[p]]
      /\ UNCHANGED <<file, maker, adrift>>
  BY RequestFacts DEF P!Demote, P!MayWrite, P!history
<1>5. PICK there \in {"set", "insert"} : P!Step(n, there) /\ there = IF ask[n].kind = "update" THEN "set" ELSE "insert"
  BY DEF P!Demote
<1>6. UNCHANGED <<ask, old, before>> /\ pc'[n] = there
  BY <1>1, <1>5 DEF P!Step, P!Goto, PhotosTypes
<1>7. /\ \A p \in demoted : p \in P!Photo /\ p \in Born /\ photo[p].old = "cover" /\ photo[p].by = Nobody
      /\ Dated(n) \subseteq demoted
  <2>1. \A p \in old[n] \ P!Own(n) : p \in P!Photo /\ p \in Born /\ photo[p].by = Nobody
    BY <1>1, <1>3, <1>4 DEF Born
  <2>2. \A p \in P!Photo : photo[p].by = Nobody => photo[p].new = photo[p].old
    BY DEF PhotosInv, OneVersion
  <2>3. Dated(n) \subseteq old[n] \ P!Own(n)
    BY <1>1 DEF Aims, Dated
  <2>4. \A p \in Dated(n) : photo[p].old = "cover"
    BY DEF Dated, P!Covers
  <2>5. QED  BY <2>1, <2>2, <2>3, <2>4
<1>8. /\ photo' \in [P!Photo -> [old : PhotoRow, new : PhotoRow, by : Request \cup {Nobody}]]
      /\ \A p \in P!Photo : /\ photo'[p].old = photo[p].old
                            /\ p \notin demoted => photo'[p] = photo[p]
                            /\ p \in demoted => photo'[p].new = "plain" /\ photo'[p].by = n
  <2>1. "plain" \in PhotoRow
    BY DEF PhotoRow
  <2> HIDE DEF demoted
  <2>2. photo' = RowsWith(n, demoted, "plain")
    BY <1>4 DEF RowsWith
  <2>3. QED  BY <1>1, <2>1, <2>2, RowsWritten
<1>9. \A p \in P!Photo : photo'[p].by = n => Takes(n, p)'
  <2> SUFFICES ASSUME NEW p \in P!Photo, photo'[p].by = n PROVE Takes(n, p)'
    OBVIOUS
  <2>1. p \in demoted
    BY <1>3, <1>8
  <2> HIDE DEF demoted
  <2>2. photo'[p].old = "cover" /\ photo'[p].new = "plain"
    BY <1>7, <1>8, <2>1
  <2>3. QED  BY <1>2, <1>5, <1>6, <2>2 DEF Takes
<1>10. Files(n)'
  BY <1>1, <1>2, <1>4, <1>5, <1>6 DEF Files
<1>11. /\ Clears(n)'
       /\ \A p \in P!Photo : photo'[p].by = n /\ photo'[p].new = "cover" => Promotes(n, p)'
  <2> HIDE DEF demoted
  <2>1. \A p \in P!Photo : photo'[p].by = n => photo'[p].new # "cover"
    BY <1>3, <1>8
  <2>2. Dated(n)' = Dated(n)
    BY <1>4, <1>6, <1>8, DatedSame
  <2>3. \A p \in Dated(n) : photo'[p].by = n
    BY <1>7, <1>8
  <2>4. QED  BY <2>1, <2>2, <2>3 DEF Clears
<1>12. \A p \in P!Photo : \/ photo'[p] = photo[p]
                          \/ /\ p \in Born \cup {n} /\ photo[p].by \in {Nobody, n}
                             /\ photo'[p].old = photo[p].old /\ photo'[p].by = n
  <2> HIDE DEF demoted
  <2>1. QED  BY <1>7, <1>8
<1>13. file' \in [P!Photo -> BOOLEAN] /\ adrift' \subseteq P!Photo
  BY <1>1, <1>4 DEF PhotosTypes
<1>14. there \in PosePlaces \ {"idle", "read", "done", "failed", "demote", "drop", "unlink"}
  BY DEF PosePlaces
<1> HIDE DEF demoted
<1>15. QED  BY <1>1, <1>2, <1>4, <1>5, <1>8, <1>9, <1>10, <1>11, <1>12, <1>13, <1>14, PoseSteps

LEMMA PoseInserts ==
    ASSUME PhotosInv, NEW n \in Request, P!Insert(n)
    PROVE  PhotosInv'
<1>1. PhotosTypes /\ pc[n] = "insert" /\ Running(n) /\ n \in P!Photo /\ Files(n) /\ Unborn(n)
  BY PhotosTyped, PhotoFacts DEF PhotosInv, P!Insert, Running, Ended
<1>2. /\ ask[n] \in P!Ask /\ ask[n].kind \in {"upload", "replace"} /\ file[n]
      /\ ask[n].kind = "upload" => ask[n].cover \in BOOLEAN
      /\ \A p \in P!Photo : photo[p].by = n => Takes(n, p)
  BY <1>1, PhotoFacts DEF PhotosInv, Poses, Files
<1>3. PICK made \in {"cover", "plain"} :
         /\ photo' = [photo EXCEPT ![n] = [old |-> @.old, new |-> made, by |-> n]]
         /\ made = IF ask[n].kind = "upload" /\ ~ask[n].cover THEN "plain" ELSE "cover"
  BY DEF P!Insert, P!Write
<1>4. P!Step(n, "commit") /\ UNCHANGED <<file, maker, adrift>>
  BY DEF P!Insert, P!history
<1>5. UNCHANGED <<ask, old, before>> /\ pc'[n] = "commit"
  BY <1>1, <1>4 DEF P!Step, P!Goto, PhotosTypes
<1>6. /\ photo' \in [P!Photo -> [old : PhotoRow, new : PhotoRow, by : Request \cup {Nobody}]]
      /\ photo'[n].new = made /\ photo'[n].by = n /\ photo'[n].old = photo[n].old
      /\ \A p \in P!Photo : p # n => photo'[p] = photo[p]
  BY <1>1, <1>3 DEF PhotosTypes, PhotoRow
<1>7. photo[n].old = "gone" /\ photo[n].by \in {Nobody, n}
  BY <1>1 DEF Unborn
<1>8. Files(n)'
  <2>1. file'[n] = TRUE /\ (photo'[n].new # "gone") = TRUE /\ (photo'[n].by = n) = TRUE
    BY <1>1, <1>2, <1>3, <1>4, <1>6 DEF PhotosTypes
  <2>2. QED  BY <1>2, <1>5, <2>1 DEF Files
<1>9. \A p \in P!Photo : photo'[p].by = n => Takes(n, p)'
  <2> SUFFICES ASSUME NEW p \in P!Photo, photo'[p].by = n PROVE Takes(n, p)'
    OBVIOUS
  <2>1. CASE p = n
    BY <1>2, <1>3, <1>5, <1>6, <2>1 DEF Takes
  <2>2. CASE p # n
    BY <1>1, <1>2, <1>5, <1>6, <2>2 DEF Takes
  <2>3. QED  BY <2>1, <2>2
<1>10. /\ Clears(n)'
       /\ \A p \in P!Photo : photo'[p].by = n /\ photo'[p].new = "cover" => Promotes(n, p)'
  <2>1. Dated(n)' = Dated(n) /\ Dated(n) \subseteq P!Photo \ {n}
    <3>1. \A p \in P!Photo : photo'[p].old = photo[p].old
      BY <1>6
    <3>2. Dated(n)' = Dated(n)
      BY <1>4, <1>5, <3>1, DatedSame
    <3>3. QED  BY <1>7, <3>2 DEF Dated, P!Covers
  <2>2. ask[n].kind = "replace" \/ ask[n].cover => \A p \in Dated(n) : photo[p].by = n
    BY <1>1, <1>2 DEF PhotosInv, Clears
  <2>3. Clears(n)'
    BY <1>2, <1>5, <1>6, <2>1, <2>2 DEF Clears
  <2>4. ASSUME NEW p \in P!Photo, photo'[p].by = n, photo'[p].new = "cover" PROVE Promotes(n, p)'
    <3>1. p = n /\ made = "cover"
      BY <1>1, <1>6, <2>4, MakesNone
    <3>2. QED  BY <1>2, <1>3, <1>5, <3>1 DEF Promotes
  <2>5. QED  BY <2>3, <2>4
<1>11. file' \in [P!Photo -> BOOLEAN] /\ adrift' \subseteq P!Photo
  BY <1>1, <1>4 DEF PhotosTypes
<1>12. "commit" \in PosePlaces \ {"idle", "read", "done", "failed", "demote", "drop", "unlink"}
  BY DEF PosePlaces
<1>13. QED  BY <1>1, <1>4, <1>6, <1>7, <1>8, <1>9, <1>10, <1>11, <1>12, PoseSteps

LEMMA PoseSets ==
    ASSUME PhotosInv, NEW n \in Request, P!Set(n)
    PROVE  PhotosInv'
<1>1. PhotosTypes /\ pc[n] = "set" /\ Running(n) /\ file' = file
  BY PhotosTyped DEF PhotosInv, P!Set, Running, Ended
<1>2. /\ ask[n] \in P!Ask /\ ask[n].kind = "update" /\ ask[n].who \in Born
      /\ \A p \in P!Photo : photo[p].by = n => Takes(n, p)
  BY <1>1 DEF PhotosInv, Poses
<1>3. PICK q \in P!Photo : q = ask[n].who /\ q \in Born
  BY <1>2 DEF Born
<1>4. ask[n].cover \in BOOLEAN
  BY <1>2, PhotoFacts
<1>5. ask[n].cover => \A p \in Dated(n) : photo[p].by = n
  BY <1>1, <1>2 DEF PhotosInv, Clears
<1>6. ASSUME P!Step(n, "commit"), UNCHANGED <<maker, adrift>>,
             photo' \in [P!Photo -> [old : PhotoRow, new : PhotoRow, by : Request \cup {Nobody}]],
             \A p \in P!Photo : p # q => photo'[p] = photo[p],
             photo'[q] = photo[q] \/ (/\ photo[q].by \in {Nobody, n} /\ photo'[q].by = n
                                      /\ photo[q].old # "gone" /\ photo'[q].new # "gone"
                                      /\ photo'[q].old = photo[q].old
                                      /\ photo'[q].new = "cover" => ask[n].cover)
      PROVE  PhotosInv'
  <2>1. UNCHANGED <<ask, old, before>> /\ pc'[n] = "commit"
    BY <1>1, <1>6 DEF P!Step, P!Goto, PhotosTypes
  <2>2. Files(n)'
    BY <1>2, <2>1 DEF Files
  <2>3. \A p \in P!Photo : photo'[p].by = n => Takes(n, p)'
    <3> SUFFICES ASSUME NEW p \in P!Photo, photo'[p].by = n PROVE Takes(n, p)'
      OBVIOUS
    <3>1. CASE photo'[p] = photo[p]
      BY <1>1, <1>2, <2>1, <3>1 DEF Takes
    <3>2. CASE photo'[p] # photo[p]
      <4>1. photo'[p].old # "gone" /\ photo'[p].new # "gone"
        BY <1>6, <3>2
      <4>2. QED  BY <1>2, <2>1, <4>1 DEF Takes
    <3>3. QED  BY <3>1, <3>2
  <2>4. /\ Clears(n)'
        /\ \A p \in P!Photo : photo'[p].by = n /\ photo'[p].new = "cover" => Promotes(n, p)'
    <3>1. Dated(n)' = Dated(n) /\ Dated(n) \subseteq P!Photo
      <4>1. \A p \in P!Photo : photo'[p].old = photo[p].old
        BY <1>6
      <4>2. Dated(n)' = Dated(n)
        BY <1>6, <2>1, <4>1, DatedSame
      <4>3. QED  BY <4>2 DEF Dated, P!Covers
    <3>2. \A p \in P!Photo : photo[p].by = n => photo'[p].by = n
      BY <1>6
    <3>3. Clears(n)'
      BY <1>2, <1>5, <2>1, <3>1, <3>2 DEF Clears
    <3>4. ASSUME NEW p \in P!Photo, photo'[p].by = n, photo'[p].new = "cover" PROVE Promotes(n, p)'
      <4>1. p = q /\ ask[n].cover
        BY <1>1, <1>6, <3>4, MakesNone
      <4>2. QED  BY <1>2, <1>3, <2>1, <4>1 DEF Promotes
    <3>5. QED  BY <3>3, <3>4
  <2>5. file' \in [P!Photo -> BOOLEAN] /\ adrift' \subseteq P!Photo
    BY <1>1, <1>6 DEF PhotosTypes
  <2>6. "commit" \in PosePlaces \ {"idle", "read", "done", "failed", "demote", "drop", "unlink"}
    BY DEF PosePlaces
  <2>7. \A p \in P!Photo : \/ photo'[p] = photo[p]
                           \/ /\ p \in Born \cup {n} /\ photo[p].by \in {Nobody, n}
                              /\ photo'[p].old = photo[p].old /\ photo'[p].by = n
    BY <1>3, <1>6
  <2>8. QED  BY <1>1, <1>6, <2>2, <2>3, <2>4, <2>5, <2>6, <2>7, PoseSteps
<1>7. CASE (q \in old[n]) = ask[n].cover
  <2>1. P!Step(n, "commit") /\ photo' = photo /\ UNCHANGED <<maker, adrift>>
    BY <1>3, <1>7 DEF P!Set, P!history
  <2>2. photo' \in [P!Photo -> [old : PhotoRow, new : PhotoRow, by : Request \cup {Nobody}]]
    BY <1>1, <2>1 DEF PhotosTypes
  <2>3. QED  BY <1>6, <2>1, <2>2
<1>8. CASE (q \in old[n]) # ask[n].cover /\ photo[q].new = "gone"
  <2>1. P!Fail(n) /\ faults' = faults
    BY <1>3, <1>8 DEF P!Set
  <2>2. /\ file' \in [P!Photo -> BOOLEAN] /\ \A p \in P!Photo : p # n => file'[p] = file[p]
        /\ faults' \in 0..MaxFaults /\ file'[n] = file[n]
    BY <1>1, <2>1 DEF PhotosTypes
  <2>3. QED  BY <1>1, <2>1, <2>2, PoseFails
<1>9. CASE (q \in old[n]) # ask[n].cover /\ photo[q].new # "gone"
  <2>1. PICK made \in {"cover", "plain"} :
           /\ photo' = [photo EXCEPT ![q] = [old |-> @.old, new |-> made, by |-> n]]
           /\ made = IF ask[n].cover THEN "cover" ELSE "plain"
    BY <1>3, <1>9 DEF P!Set, P!Write
  <2>2. P!Step(n, "commit") /\ UNCHANGED <<maker, adrift>> /\ photo[q].by \in {Nobody, n}
    BY <1>3, <1>9, RequestFacts DEF P!Set, P!history, P!MayWrite
  <2>3. photo[q].old # "gone"
    <3>1. CASE photo[q].by = Nobody
      BY <1>9, <3>1 DEF PhotosInv, OneVersion
    <3>2. CASE photo[q].by = n
      BY <1>1, <1>2, <3>2 DEF Takes
    <3>3. QED  BY <2>2, <3>1, <3>2
  <2>4. /\ photo' \in [P!Photo -> [old : PhotoRow, new : PhotoRow, by : Request \cup {Nobody}]]
        /\ photo'[q].new = made /\ photo'[q].by = n /\ photo'[q].old = photo[q].old
        /\ \A p \in P!Photo : p # q => photo'[p] = photo[p]
    BY <1>1, <2>1 DEF PhotosTypes, PhotoRow
  <2>5. made = "cover" => ask[n].cover
    BY <2>1
  <2>6. QED  BY <1>6, <2>2, <2>3, <2>4, <2>5
<1>10. QED  BY <1>7, <1>8, <1>9

LEMMA PoseUnlinks ==
    ASSUME PhotosInv, NEW n \in Request, P!Unlink(n)
    PROVE  PhotosInv'
<1>1. PhotosTypes /\ pc[n] = "unlink" /\ Running(n)
  BY PhotosTyped DEF PhotosInv, P!Unlink, Running, Ended
<1>2. ask[n] \in P!Ask /\ ask[n].kind = "remove" /\ ask[n].who \in Born
  BY <1>1 DEF PhotosInv, Poses
<1>3. PICK q \in P!Photo : q = ask[n].who /\ q \in Born
  BY <1>2 DEF Born
<1>4. /\ P!Step(n, "delete") /\ UNCHANGED <<photo, maker>>
      /\ \/ file' = [file EXCEPT ![q] = FALSE] /\ adrift' = adrift
         \/ adrift' = adrift \cup {q} /\ file' = file
  BY <1>3 DEF P!Unlink
<1>5. UNCHANGED <<ask, old, before>> /\ pc'[n] = "delete"
  BY <1>1, <1>4 DEF P!Step, P!Goto, PhotosTypes
<1>6. P!Touched(n) = {q}
  BY <1>2, <1>3, TouchedFacts
<1>7. /\ file' \in [P!Photo -> BOOLEAN] /\ adrift \subseteq adrift' /\ adrift' \subseteq P!Photo
      /\ \A p \in P!Photo : file'[p] = file[p] \/ (p = q /\ ~file'[p])
      /\ ~file'[q] \/ q \in adrift'
  BY <1>1, <1>4 DEF PhotosTypes
<1>8. Files(n)'
  BY <1>3, <1>5, <1>7 DEF Files
<1>9. \A p \in P!Photo : photo'[p].by # n
  BY <1>1, <1>4, PoseHolds
<1>10. Clears(n)'
  BY <1>5 DEF Clears
<1>11. photo' \in [P!Photo -> [old : PhotoRow, new : PhotoRow, by : Request \cup {Nobody}]]
  BY <1>1, <1>4 DEF PhotosTypes
<1>12. "delete" \in PosePlaces \ {"idle", "read", "done", "failed", "demote", "drop", "unlink"}
  BY DEF PosePlaces
<1>13. QED  BY <1>1, <1>2, <1>3, <1>4, <1>6, <1>7, <1>8, <1>9, <1>10, <1>11, <1>12, PoseSteps

\* Rows go: the photo that is to be removed, or the covers that were read.
LEMMA PoseRemoves ==
    ASSUME PhotosInv, NEW n \in Request, P!Delete(n) \/ P!Drop(n)
    PROVE  PhotosInv'
<1> DEFINE these == IF pc[n] = "delete" THEN {ask[n].who} ELSE old[n]
           there == IF pc[n] = "delete" THEN "commit" ELSE "file"
<1>1. PhotosTypes /\ pc[n] \in {"delete", "drop"} /\ Running(n) /\ n \in P!Photo
  BY PhotosTyped, PhotoFacts DEF PhotosInv, P!Delete, P!Drop, Running, Ended
<1>2. /\ ask[n] \in P!Ask /\ Poses(n) /\ Unborn(n) /\ Files(n)
      /\ pc[n] = "delete" => ask[n].kind = "remove" /\ ask[n].who \in Born
      /\ pc[n] = "drop" => ask[n].kind = "replace" /\ ~file[n]
      /\ these \subseteq Born
  BY <1>1 DEF PhotosInv, Poses, Unborn
<1>3. /\ \A p \in these : photo[p].by \in {Nobody, n}
      /\ photo' = [p \in P!Photo |-> IF p \in these THEN [photo[p] EXCEPT !.new = "gone", !.by = n]
                                     ELSE photo[p]]
      /\ P!Step(n, there) /\ UNCHANGED <<file, maker, adrift>>
  BY RequestFacts DEF P!Delete, P!Drop, P!Remove, P!MayWrite, P!history
<1>4. there \in {"commit", "file"} /\ (there = "commit" <=> pc[n] = "delete")
  BY <1>1
<1>5. /\ pc[n] = "delete" => these = {ask[n].who}
      /\ pc[n] = "drop" => these = old[n]
  OBVIOUS
<1> HIDE DEF these, there
<1>6. UNCHANGED <<ask, old, before>> /\ pc'[n] = there
  BY <1>1, <1>3 DEF P!Step, P!Goto, PhotosTypes
<1>7. \A p \in P!Photo : photo[p].by # n
  BY <1>1, PoseHolds
<1>8. /\ photo' \in [P!Photo -> [old : PhotoRow, new : PhotoRow, by : Request \cup {Nobody}]]
      /\ \A p \in P!Photo : /\ photo'[p].old = photo[p].old
                            /\ p \notin these => photo'[p] = photo[p]
                            /\ p \in these => photo'[p].new = "gone" /\ photo'[p].by = n
  <2>1. "gone" \in PhotoRow
    BY DEF PhotoRow
  <2>2. photo' = RowsWith(n, these, "gone")
    BY <1>3 DEF RowsWith
  <2>3. QED  BY <1>1, <2>1, <2>2, RowsWritten
<1>9. \A p \in P!Photo : photo'[p].by = n => Takes(n, p)'
  <2> SUFFICES ASSUME NEW p \in P!Photo, photo'[p].by = n PROVE Takes(n, p)'
    OBVIOUS
  <2>1. p \in these /\ photo'[p].new = "gone"
    BY <1>7, <1>8
  <2>2. pc'[n] \in {"commit", "file"} /\ ask' = ask /\ old' = old
    BY <1>4, <1>6
  <2>3. CASE pc[n] = "delete"
    <3>1. ask[n].kind = "remove" /\ p = ask[n].who /\ pc'[n] = "commit"
      BY <1>2, <1>4, <1>5, <1>6, <2>1, <2>3
    <3>2. QED  BY <2>1, <2>2, <3>1 DEF Takes
  <2>4. CASE pc[n] = "drop"
    <3>1. ask[n].kind = "replace" /\ p \in old[n]
      BY <1>2, <1>5, <2>1, <2>4
    <3>2. QED  BY <2>1, <2>2, <3>1 DEF Takes
  <2>5. QED  BY <1>1, <2>3, <2>4
<1>10. Files(n)'
  <2>1. CASE pc[n] = "drop"
    BY <1>2, <1>4, <1>6, <2>1 DEF Files
  <2>2. CASE pc[n] = "delete"
    <3>1. PICK q \in P!Photo : q = ask[n].who
      BY <1>2, <2>2 DEF Born
    <3>2. photo'[q].new = "gone" /\ photo'[q].by = n /\ (~file'[q] \/ q \in adrift')
      BY <1>2, <1>3, <1>5, <1>8, <2>2, <3>1 DEF Files
    <3>3. QED  BY <1>2, <1>4, <1>6, <2>2, <3>1, <3>2 DEF Files
  <2>3. QED  BY <1>1, <2>1, <2>2
<1>11. /\ Clears(n)'
       /\ \A p \in P!Photo : photo'[p].by = n /\ photo'[p].new = "cover" => Promotes(n, p)'
  <2>1. Dated(n)' = Dated(n) /\ Dated(n) \subseteq P!Photo
    <3>1. Dated(n)' = Dated(n)
      BY <1>3, <1>6, <1>8, DatedSame
    <3>2. QED  BY <3>1 DEF Dated, P!Covers
  <2>2. pc[n] = "drop" => Dated(n) \subseteq these
    BY <1>5 DEF PhotosInv, Aims
  <2>3. CASE pc[n] = "drop"
    <3>1. \A p \in Dated(n) : photo'[p].by = n
      BY <1>8, <2>1, <2>2, <2>3
    <3>2. QED  BY <1>2, <1>6, <1>7, <1>8, <2>1, <2>3, <3>1 DEF Clears
  <2>4. CASE pc[n] = "delete"
    BY <1>2, <1>6, <1>7, <1>8, <2>4 DEF Clears
  <2>5. QED  BY <1>1, <2>3, <2>4
<1>12. \A p \in P!Photo : \/ photo'[p] = photo[p]
                          \/ /\ p \in Born \cup {n} /\ photo[p].by \in {Nobody, n}
                             /\ photo'[p].old = photo[p].old /\ photo'[p].by = n
  BY <1>2, <1>3, <1>8
<1>13. file' \in [P!Photo -> BOOLEAN] /\ adrift' \subseteq P!Photo
  BY <1>1, <1>3 DEF PhotosTypes
<1>14. there \in PosePlaces \ {"idle", "read", "done", "failed", "demote", "drop", "unlink"}
  BY <1>4 DEF PosePlaces
<1>15. there = "file" => ask[n].kind = "replace" /\ ~file'[n]
  BY <1>1, <1>2, <1>3, <1>4
<1>16. QED  BY <1>1, <1>2, <1>3, <1>4, <1>8, <1>9, <1>10, <1>11, <1>12, <1>13, <1>14, <1>15, PoseSteps

LEMMA PhotosInitial == ASSUME part = "photos", Init PROVE PhotosInv
<1>1. P!Init
  BY DEF Init
<1>2. PICK row \in PhotoRow :
         /\ photo = [p \in P!Photo |-> P!Committed(IF p = P!Earlier THEN row ELSE "gone")]
         /\ file = [p \in P!Photo |-> p = P!Earlier /\ row # "gone"]
         /\ maker = [p \in P!Photo |-> Earlier]
  BY <1>1, RequestFacts DEF P!Init, PhotoRow
<1>3. /\ pc = [n \in Request |-> "idle"] /\ ask = [n \in Request |-> Nothing]
      /\ old = [n \in Request |-> {}] /\ arrived = 0 /\ faults = 0
      /\ before = [n \in Request |-> {}] /\ adrift = {}
  BY <1>1, RequestFacts DEF P!Init, P!InitRequests
<1>4. \A p \in P!Photo : /\ photo[p].by = Nobody /\ photo[p].new = photo[p].old
                         /\ photo[p].old = IF p = P!Earlier THEN row ELSE "gone"
  BY <1>2, RequestFacts DEF P!Committed
<1>5. P!PhotosTypeOK
  <2>1. photo \in [P!Photo -> [old : PhotoRow, new : PhotoRow, by : Request \cup {Nobody}]]
    BY <1>2, RequestFacts DEF P!Committed, PhotoRow
  <2>2. file \in [P!Photo -> BOOLEAN] /\ maker \in [P!Photo -> Request \cup {Earlier}]
    BY <1>2
  <2>3. arrived \in 0..MaxRequests /\ faults \in 0..MaxFaults
    BY <1>3, RequestsAssumption, FaultsAssumption
  <2>4. /\ pc \in [Request -> PosePlaces] /\ ask \in [Request -> P!Ask \cup {Nothing}]
        /\ old \in [Request -> SUBSET P!Photo] /\ before \in [Request -> SUBSET (Request \cup {Earlier})]
    BY <1>3 DEF PosePlaces
  <2>5. PhotosTypes
    BY <1>3, <2>1, <2>2, <2>3, <2>4 DEF PhotosTypes
  <2>6. QED  BY <2>5, PhotosTyped
<1>6. Comings /\ Befores /\ \A n \in Request : ~Running(n) /\ n > 0
  BY <1>3, RequestsAssumption DEF Comings, Befores, Running, Request
<1>7. \A n \in Request : Poses(n) /\ Files(n) /\ Aims(n) /\ Clears(n)
  BY <1>3, <1>6 DEF Poses, Files, Aims, Clears
<1>8. \A n \in Request : Unborn(n)
  BY <1>2, <1>4, PhotoFacts DEF Unborn
<1>9. \A n \in Request : \A p \in P!Photo : photo[p].by # n
  BY <1>4, RequestFacts
<1>10. Whole
  <2>1. \A p \in P!Photo : (photo[p].old # "gone") = file[p]
    BY <1>2, <1>4
  <2>2. QED  BY <2>1 DEF Whole
<1>11. P!OneCover /\ Makers
  <2>1. P!Covers \subseteq {P!Earlier}
    BY <1>4 DEF P!Covers
  <2>2. QED  BY <1>2, <2>1 DEF P!OneCover, Makers, Past
<1>12. QED  BY <1>4, <1>5, <1>6, <1>7, <1>8, <1>9, <1>10, <1>11 DEF PhotosInv, OneVersion

LEMMA PhotosStay ==
    ASSUME PhotosInv, UNCHANGED <<photo, file, maker, adrift, pc, ask, old, arrived, faults, before>>
    PROVE  PhotosInv'
<1>1. Whole'
  BY DEF PhotosInv, Whole, Running, P!Touched
<1>2. P!PhotosTypeOK' /\ P!OneCover' /\ P!Covers' = P!Covers /\ Born' = Born /\ Past' = Past
  BY DEF PhotosInv, P!PhotosTypeOK, P!RequestsTypeOK, P!OneCover, P!Overlap, P!Covers, Born, Past
<1>3. \A n \in Request : (Poses(n) /\ Unborn(n) /\ Files(n))'
  BY <1>2 DEF PhotosInv, Poses, Unborn, Files, Running
<1>4. \A n \in Request : (Aims(n) /\ Clears(n))'
  BY <1>2 DEF PhotosInv, Aims, Clears, Dated, P!Own
<1>5. \A n \in Request : \A p \in P!Photo :
         /\ photo'[p].by = n => Takes(n, p)'
         /\ photo'[p].by = n /\ photo'[p].new = "cover" => Promotes(n, p)'
  BY DEF PhotosInv, Takes, Promotes
<1>6. Makers' /\ Befores' /\ Comings'
  BY <1>2 DEF PhotosInv, Makers, Befores, Comings, Running
<1>7. QED  BY <1>1, <1>2, <1>3, <1>4, <1>5, <1>6 DEF PhotosInv, OneVersion

LEMMA PhotosStep == ASSUME PhotosInv, P!Next PROVE PhotosInv'
<1>1. CASE P!Quiescent
  BY <1>1, PhotosStay DEF P!Quiescent, P!vars, P!history, P!requests, P!bounds
<1>2. CASE ~P!Quiescent
  <2>1. PICK n \in Request :
          \/ \E a \in P!Ask : P!Arrive(n, a)
          \/ P!Refuse(n) \/ P!Look(n) \/ P!WriteFile(n) \/ P!Aim(n) \/ P!Demote(n) \/ P!Insert(n) \/ P!Set(n)
          \/ P!Unlink(n) \/ P!Delete(n) \/ P!Drop(n) \/ P!Commit(n) \/ P!Die(n)
    BY <1>2, RequestFacts DEF P!Next
  <2>2. PhotosTypes
    BY PhotosTyped DEF PhotosInv
  <2>3. ASSUME P!Fail(n), Running(n), file' = file, faults' \in 0..MaxFaults PROVE PhotosInv'
    <3>1. /\ file' \in [P!Photo -> BOOLEAN] /\ \A p \in P!Photo : p # n => file'[p] = file[p]
          /\ file'[n] = file[n]
      BY <2>2, <2>3 DEF PhotosTypes
    <3>2. QED  BY <2>3, <3>1, PoseFails
  <2>4. CASE P!Refuse(n)
    BY <2>2, <2>3, <2>4 DEF P!Refuse, Running, Ended, PhotosTypes
  <2>5. CASE P!Die(n)
    <3>1. P!Fail(n) /\ file' = file /\ Running(n) /\ faults < MaxFaults /\ faults' = faults + 1
      BY <2>5, RunningFacts DEF P!Die, P!Dies
    <3>2. faults' \in 0..MaxFaults
      BY <2>2, <3>1, FaultsAssumption DEF PhotosTypes
    <3>3. QED  BY <2>3, <3>1, <3>2
  <2>6. QED  BY <2>1, <2>4, <2>5, PoseArrives, PoseLooks, PoseWritesFile, PoseAims, PoseDemotes, PoseInserts,
             PoseSets, PoseUnlinks, PoseRemoves, PoseCommits
<1>3. QED  BY <1>1, <1>2

(***************************************************************************)
(* Theorems                                                                *)
(***************************************************************************)
LEMMA PartsInitial == Init => PartsInv
<1>1. ASSUME Init PROVE part \in {"translation", "photos", "nutrition"}
  BY <1>1 DEF Init
<1>2. QED  BY <1>1, TranslationsInitial, PhotosInitial, NutritionInitial DEF PartsInv

LEMMA PartsStep == PartsInv /\ [Next]_vars => PartsInv'
<1> SUFFICES ASSUME PartsInv, [Next]_vars PROVE PartsInv'
  OBVIOUS
<1>1. CASE part = "translation"
  <2>1. CASE Next
    <3>1. T!Next /\ part' = part
      BY <1>1, <2>1 DEF Next
    <3>2. QED  BY <1>1, <3>1, TranslationsStep DEF PartsInv
  <2>2. CASE UNCHANGED vars
    BY <1>1, <2>2, TranslationsStay DEF PartsInv, vars, translations, requests, bounds
  <2>3. QED  BY <2>1, <2>2
<1>2. CASE part = "photos"
  <2>1. CASE Next
    <3>1. P!Next /\ part' = part
      BY <1>2, <2>1 DEF Next
    <3>2. QED  BY <1>2, <3>1, PhotosStep DEF PartsInv
  <2>2. CASE UNCHANGED vars
    BY <1>2, <2>2, PhotosStay DEF PartsInv, vars, photos, requests, bounds
  <2>3. QED  BY <2>1, <2>2
<1>3. CASE part = "nutrition"
  <2>1. CASE Next
    <3>1. N!Next /\ part' = part
      BY <1>3, <2>1 DEF Next
    <3>2. QED  BY <1>3, <3>1, NutritionStep DEF PartsInv
  <2>2. CASE UNCHANGED vars
    BY <1>3, <2>2, NutritionStay DEF PartsInv, vars, nutrition, requests, bounds
  <2>3. QED  BY <2>1, <2>2
<1>4. QED  BY <1>1, <1>2, <1>3 DEF PartsInv

THEOREM PartsInvariant == Spec => []PartsInv
  BY PartsInitial, PartsStep, PTL DEF Spec

\* RecipeParts!PartsTypeOK: the rows, what has been read of them and the places of the
\* handlers stay what they are, for every set of texts, foods and servings.
THEOREM PartsTypeCorrect == Spec => []PartsTypeOK
<1>1. PartsInv => PartsTypeOK
  BY DEF PartsInv, PartsTypeOK, TranslationsInv, PhotosInv, NutritionInv
<1>2. QED  BY <1>1, PartsInvariant, PTL

\* RecipeParts!OneCover: routers/photos.py demotes the covers its UPDATE sees before it makes
\* one, and the edit form deletes those it has read: of two covers each was made so by a
\* request that was not over when the other's came, however many requests and faults there are.
THEOREM CoverIsOne == Spec => []OneCover
<1>1. PartsInv => OneCover
  BY DEF PartsInv, OneCover, PhotosInv
<1>2. QED  BY <1>1, PartsInvariant, PTL

\* RecipeParts!FilesFollowRows: a file without a row, or a row without a file, is one a
\* request is at work on, or has left behind when it failed, could not unlink it or replaced
\* the cover.
THEOREM RowsHaveFiles == Spec => []FilesFollowRows
<1>1. PartsInv => FilesFollowRows
  <2> SUFFICES ASSUME PartsInv, part = "photos" PROVE P!FilesFollowRows
    BY DEF FilesFollowRows
  <2>1. Whole
    BY DEF PartsInv, PhotosInv
  <2>2. QED  BY <2>1, RunningFacts, RequestFacts DEF Whole, P!FilesFollowRows
<1>2. QED  BY <1>1, PartsInvariant, PTL

\* RecipeParts!NothingMixes: a text marked as reviewed that no review has read, and facts per
\* serving that are not those of the kept total and servings, have their columns from two
\* requests that overlapped, for every set of texts, foods and servings.
THEOREM ColumnsBelongTogether == Spec => []NothingMixes
<1>1. PartsInv => NothingMixes
  BY DEF PartsInv, NothingMixes, TranslationsInv, NutritionInv
<1>2. QED  BY <1>1, PartsInvariant, PTL
=============================================================================
