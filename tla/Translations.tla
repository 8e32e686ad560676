---------------------------- MODULE Translations -----------------------------
(***************************************************************************)
(* The translation of one recipe into one language (routers/translations.py)*)
(* Anybody may save it, its author alone may review or delete it.  A row   *)
(* is named after the request that inserts it.  Title, description and     *)
(* steps are one text.                                                     *)
(***************************************************************************)
EXTENDS RecipeRequests

CONSTANT Text

Gone == [id |-> 0, text |-> "none", status |-> "none"]
Translation == [id : Request \cup {Earlier}, text : Text, status : {"draft", "reviewed", "original"}]

\* Who is not the author cannot save a text as reviewed: the flag is not looked at.
Ask == [kind : {"save"}, text : Text, by : {"member", "author"}, status : {"draft"}]
       \cup [kind : {"save"}, text : Text, by : {"author"}, status : {"reviewed"}]
       \cup [kind : {"review", "delete"}, by : {"member", "author"}]

VARIABLES translation,  \* the row for the recipe and the language
          vetted,       \* history: texts the author reviewed, or saved as reviewed
          wrote         \* history: the request that has last set each column

history == <<vetted, wrote>>
vars == <<translation, requests, history>>

Row == {"it"}
Column == {"text", "status"}

TranslationsTypeOK ==
    /\ translation \in [Row -> Versions(Translation \cup {Gone}, Request)]
    /\ RequestsTypeOK(Ask, {"load", "read", "write", "commit"}, Translation \cup {Gone})
    /\ vetted \subseteq Text
    /\ wrote \in [Column -> Request \cup {Earlier}]

Init ==
    /\ \E row \in {Gone} \cup {r \in Translation : r.id = Earlier} :
          /\ translation = [i \in Row |-> Committed(row)]
          /\ vetted = IF row.status = "reviewed" THEN {row.text} ELSE {}
    /\ InitRequests(Gone)
    /\ wrote = [f \in Column |-> Earlier]

Rollback(n) ==
    /\ translation' = RollbackRows(translation, n)
    /\ Leave(n, "failed", Gone)
    /\ UNCHANGED history

Arrive(n, a) == ArriveAt(n, a, "load") /\ UNCHANGED <<translation, history>>

\* Not signed in, no recipe, a language that is not supported, or the original one.
Refuse(n) == pc[n] = "load" /\ Rollback(n) /\ UNCHANGED faults

\* _load_recipe selects the recipe with all its translations.
Load(n) ==
    /\ pc[n] = "load"
    /\ Read(n, translation["it"].old, "read")
    /\ UNCHANGED <<translation, history>>

\* The SELECT of the one translation finds the row there is now, but a row that the
\* session has loaded before keeps the columns it had then.
Found(n) ==
    LET row == translation["it"].old IN
    IF row # Gone /\ old[n] # Gone /\ row.id = old[n].id THEN old[n] ELSE row

\* What the handler sets.  The original is saved by its author alone, and stays the
\* original.
Wanted(row, a) ==
    CASE a.kind = "review" -> [row EXCEPT !.status = "reviewed"]
      [] a.kind = "save" /\ row.status # "original" ->
            [row EXCEPT !.text = a.text, !.status = a.status]
      [] a.kind = "save" /\ row.status = "original" ->
            IF a.by = "author" THEN [row EXCEPT !.text = a.text] ELSE row

\* Nothing is written when the row was read as it is to be, as in a review of what is
\* reviewed; a text saved again is, for translated_by_id, if it was somebody else's.
Onward(n, row) ==
    IF ask[n].kind = "delete" \/ Wanted(row, ask[n]) # row THEN {"write"}
    ELSE IF ask[n].kind = "save" /\ row.status # "original" THEN {"write", "commit"} ELSE {"commit"}

SaveRead(n) ==
    LET row == Found(n) IN
    /\ pc[n] = "read" /\ ask[n].kind = "save"
    /\ \E there \in Onward(n, row) : Read(n, row, there)
    /\ UNCHANGED <<translation, history>>

\* Only the author; 404 for none, 400 for the original.
DecideRead(n) ==
    LET row == Found(n) IN
    /\ pc[n] = "read" /\ ask[n].kind \in {"review", "delete"}
    /\ IF ask[n].by # "author" \/ row = Gone \/ row.status = "original"
       THEN Rollback(n) /\ UNCHANGED faults
       ELSE /\ \E there \in Onward(n, row) : Read(n, row, there)
            /\ UNCHANGED <<translation, history>>

Set(n, row) ==
    /\ translation' = Write(translation, "it", row, n)
    /\ Step(n, "commit")
    /\ UNCHANGED history

\* The unique index lets one of two inserts through.
Insert(n) ==
    /\ pc[n] = "write" /\ ask[n].kind = "save" /\ old[n] = Gone
    /\ MayWrite(translation, "it", n)
    /\ IF translation["it"].new = Gone
       THEN Set(n, [Wanted(Gone, ask[n]) EXCEPT !.id = n])
       ELSE Rollback(n) /\ UNCHANGED faults

\* Only the columns that change; an UPDATE that finds its row gone raises.
Update(n) ==
    LET row == translation["it"].new
        new == Wanted(old[n], ask[n])
    IN
    /\ pc[n] = "write" /\ ask[n].kind # "delete" /\ old[n] # Gone
    /\ MayWrite(translation, "it", n)
    /\ IF row # Gone /\ row.id = old[n].id
       THEN Set(n, [f \in DOMAIN row |-> IF new[f] = old[n][f] THEN row[f] ELSE new[f]])
       ELSE Rollback(n) /\ UNCHANGED faults

\* Mutant: the row is only marked.
DeleteSoftly(n) ==
    /\ pc[n] = "write" /\ ask[n].kind = "delete"
    /\ MayWrite(translation, "it", n)
    /\ Set(n, [translation["it"].new EXCEPT !.status = "deleted"])

\* A DELETE that finds its row gone is content.
Delete(n) ==
    /\ pc[n] = "write" /\ ask[n].kind = "delete"
    /\ MayWrite(translation, "it", n)
    /\ IF translation["it"].new.id = old[n].id
       THEN Set(n, Gone)
       ELSE Step(n, "commit") /\ UNCHANGED <<translation, history>>

\* History: the columns a request sets.
Sets(n) ==
    {f \in Column : /\ translation["it"].by = n /\ ask[n].kind # "delete"
                    /\ old[n] = Gone \/ Wanted(old[n], ask[n])[f] # old[n][f]}

\* History: the text the review has read, or that the author has saved as reviewed.
Vetted(n) ==
    CASE ask[n].kind = "review" -> {old[n].text}
      [] ask[n].kind = "save" /\ ask[n].status = "reviewed" -> {ask[n].text}
      [] OTHER -> {}

Commit(n) ==
    /\ pc[n] = "commit"
    /\ translation' = CommitRows(translation, n)
    /\ vetted' = vetted \cup Vetted(n)
    /\ wrote' = [f \in Column |-> IF f \in Sets(n) THEN n ELSE wrote[f]]
    /\ Leave(n, "done", Gone)
    /\ UNCHANGED faults

Die(n) == Dies(n) /\ n \in Holders(translation) /\ Rollback(n)

Quiescent == AllEnded /\ UNCHANGED vars

Next ==
    \/ \E n \in Request :
        \/ \E a \in Ask : Arrive(n, a)
        \/ Refuse(n) \/ Load(n) \/ SaveRead(n) \/ DecideRead(n)
        \/ Insert(n) \/ Update(n) \/ Delete(n)
        \/ Commit(n) \/ Die(n)
    \/ Quiescent

Spec == Init /\ [][Next]_vars

\* A text that is shown as reviewed is one a review has read or the author has saved as
\* such, unless its text and its status were set by two requests that overlapped: a
\* save and a review, or two saves, each of which sets what differs from what it read.
ReviewedIsVetted ==
    LET row == translation["it"].old IN
    row.status = "reviewed" => row.text \in vetted \/ Overlap(wrote["text"], wrote["status"])
=============================================================================
