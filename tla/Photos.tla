------------------------------- MODULE Photos --------------------------------
(***************************************************************************)
(* The photos of one recipe: the rows of recipe_photos and the files under *)
(* MEDIA_ROOT (routers/photos.py), and the cover the edit form replaces    *)
(* (routers/recipe_edit.py).  A photo is named after the request that      *)
(* makes it.  The disk takes part in no transaction: a file that is        *)
(* written or removed stays so whatever becomes of the request.            *)
(***************************************************************************)
EXTENDS RecipeRequests

Photo == Request \cup {Earlier}

Ask == [kind : {"upload"}, cover : BOOLEAN]
       \cup [kind : {"update"}, cover : BOOLEAN, who : Photo]
       \cup [kind : {"remove"}, who : Photo]
       \cup [kind : {"replace"}]

VARIABLES photo,  \* the rows: "cover", "plain" or "gone"
          file,   \* whether the photo's file is on the disk
          maker,  \* history: the request that has made each the cover
          adrift  \* history: photos whose row or file a request has left behind

history == <<maker, adrift>>
vars == <<photo, file, requests, history>>

PhotosTypeOK ==
    /\ photo \in [Photo -> Versions({"cover", "plain", "gone"}, Request)]
    /\ file \in [Photo -> BOOLEAN]
    /\ RequestsTypeOK(Ask, {"read", "file", "aim", "demote", "insert", "set", "unlink", "delete", "drop", "commit"},
                      SUBSET Photo)
    /\ maker \in [Photo -> Request \cup {Earlier}]
    /\ adrift \subseteq Photo

Covers == {p \in Photo : photo[p].old = "cover"}

Init ==
    /\ \E row \in {"cover", "plain", "gone"} :
          /\ photo = [p \in Photo |-> Committed(IF p = Earlier THEN row ELSE "gone")]
          /\ file = [p \in Photo |-> p = Earlier /\ row # "gone"]
    /\ InitRequests({})
    /\ maker = [p \in Photo |-> Earlier]
    /\ adrift = {}

\* History: the photo whose file the request has already written or removed.
Touched(n) ==
    CASE ask[n].kind \in {"upload", "replace"} -> {n}
      [] ask[n].kind = "remove" -> {ask[n].who}
      [] OTHER -> {}

Fail(n) ==
    /\ photo' = RollbackRows(photo, n)
    /\ adrift' = adrift \cup (IF pc[n] = "read" THEN {} ELSE Touched(n))
    /\ Leave(n, "failed", {})
    /\ UNCHANGED maker

\* Identities are random: nobody asks for a photo to come.
Arrive(n, a) ==
    /\ a.kind \in {"update", "remove"} => a.who < n
    /\ ArriveAt(n, a, "read")
    /\ UNCHANGED <<photo, file, history>>

\* No recipe, not its author, a file of another type or too large; or no photo.
Refuse(n) ==
    /\ pc[n] = "read"
    /\ Fail(n)
    /\ UNCHANGED <<file, faults>>

\* The photo an update is about is demoted by no UPDATE of its own.
Own(n) == IF ask[n].kind = "update" THEN {ask[n].who} ELSE {}

Look(n) ==
    LET a == ask[n] IN
    /\ pc[n] = "read"
    /\ a.kind \in {"update", "remove"} => photo[a.who].old # "gone"
    /\ Read(n, IF a.kind = "replace" THEN Covers ELSE Covers \cap Own(n),
             CASE a.kind = "upload" -> "file"
               [] a.kind = "update" -> IF a.cover THEN "aim" ELSE "set"
               [] a.kind = "remove" -> "unlink"
               [] a.kind = "replace" -> "drop")
    /\ UNCHANGED <<photo, file, history>>

(***************************************************************************)
(* upload_photo, update_photo                                              *)
(***************************************************************************)
\* Before any row.  A disk that fails may leave a part of the file; a file the form
\* cannot use is left out, and the cover with it.
WriteFile(n) ==
    /\ pc[n] = "file"
    /\ \/ /\ file' = [file EXCEPT ![n] = TRUE]
          /\ Step(n, IF ask[n].kind = "upload" /\ ask[n].cover THEN "aim" ELSE "insert")
          /\ UNCHANGED <<photo, history>>
       \/ /\ ask[n].kind = "replace"
          /\ Step(n, "commit")
          /\ UNCHANGED <<photo, file, history>>
       \/ /\ \E there \in BOOLEAN : file' = [file EXCEPT ![n] = there]
          /\ Fail(n)
          /\ UNCHANGED faults

\* The UPDATE that demotes goes by the covers that are committed when it begins, ...
Aim(n) ==
    /\ pc[n] = "aim"
    /\ Read(n, old[n] \cup (Covers \ Own(n)), "demote")
    /\ UNCHANGED <<photo, file, history>>

\* Mutant: an update demotes nothing.
DemoteForUploads(n) ==
    /\ pc[n] = "demote"
    /\ \A p \in old[n] : MayWrite(photo, p, n)
    /\ photo' = [p \in Photo |-> IF p \in old[n] /\ photo[p].new = "cover" /\ ask[n].kind = "upload"
                                 THEN [photo[p] EXCEPT !.new = "plain", !.by = n] ELSE photo[p]]
    /\ Step(n, IF ask[n].kind = "update" THEN "set" ELSE "insert")
    /\ UNCHANGED <<file, history>>

\* ... waits for whoever has written one of them, and then demotes those that still are
\* covers.  What has become one since is none of its rows.
Demote(n) ==
    LET aimed == old[n] \ Own(n) IN
    /\ pc[n] = "demote"
    /\ \A p \in aimed : MayWrite(photo, p, n)
    /\ photo' = [p \in Photo |-> IF p \in aimed /\ photo[p].new = "cover"
                                 THEN [photo[p] EXCEPT !.new = "plain", !.by = n] ELSE photo[p]]
    /\ Step(n, IF ask[n].kind = "update" THEN "set" ELSE "insert")
    /\ UNCHANGED <<file, history>>

Insert(n) ==
    /\ pc[n] = "insert"
    /\ photo' = Write(photo, n, IF ask[n].kind = "upload" /\ ~ask[n].cover THEN "plain" ELSE "cover", n)
    /\ Step(n, "commit")
    /\ UNCHANGED <<file, history>>

\* Nothing is written when the photo was read as what it is to be; an UPDATE that
\* finds its row gone raises.
Set(n) ==
    LET p == ask[n].who IN
    /\ pc[n] = "set"
    /\ UNCHANGED file
    /\ IF (p \in old[n]) = ask[n].cover
       THEN Step(n, "commit") /\ UNCHANGED <<photo, history>>
       ELSE /\ MayWrite(photo, p, n)
            /\ IF photo[p].new = "gone"
               THEN Fail(n) /\ UNCHANGED faults
               ELSE /\ photo' = Write(photo, p, IF ask[n].cover THEN "cover" ELSE "plain", n)
                    /\ Step(n, "commit")
                    /\ UNCHANGED history

(***************************************************************************)
(* delete_photo                                                            *)
(***************************************************************************)
\* Mutant: the file stays.
UnlinkNothing(n) ==
    /\ pc[n] = "unlink"
    /\ Step(n, "delete")
    /\ UNCHANGED <<photo, file, history>>

\* Before the row; an error is ignored.
Unlink(n) ==
    LET p == ask[n].who IN
    /\ pc[n] = "unlink"
    /\ \/ file' = [file EXCEPT ![p] = FALSE] /\ UNCHANGED adrift
       \/ adrift' = adrift \cup {p} /\ UNCHANGED file
    /\ Step(n, "delete")
    /\ UNCHANGED <<photo, maker>>

Remove(n, photos) ==
    /\ \A p \in photos : MayWrite(photo, p, n)
    /\ photo' = [p \in Photo |-> IF p \in photos THEN [photo[p] EXCEPT !.new = "gone", !.by = n]
                                 ELSE photo[p]]

\* A DELETE that finds its row gone is content.
Delete(n) ==
    /\ pc[n] = "delete"
    /\ Remove(n, {ask[n].who})
    /\ Step(n, "commit")
    /\ UNCHANGED <<file, history>>

(***************************************************************************)
(* inline_edit_submit                                                      *)
(***************************************************************************)
\* The rows of the covers that were read; their files stay.
Drop(n) ==
    /\ pc[n] = "drop"
    /\ Remove(n, old[n])
    /\ Step(n, "file")
    /\ UNCHANGED <<file, history>>

(***************************************************************************)
(* get_db                                                                  *)
(***************************************************************************)
Commit(n) ==
    /\ pc[n] = "commit"
    /\ photo' = CommitRows(photo, n)
    /\ maker' = [p \in Photo |-> IF photo[p].by = n /\ photo[p].new = "cover" THEN n ELSE maker[p]]
    /\ adrift' = adrift \cup (IF ask[n].kind = "replace" THEN old[n] ELSE {})
    /\ Leave(n, "done", {})
    /\ UNCHANGED <<file, faults>>

Die(n) ==
    /\ Dies(n)
    /\ n \in Holders(photo) \/ file[n] \/ pc[n] = "delete"
    /\ Fail(n)
    /\ UNCHANGED file

Quiescent == AllEnded /\ UNCHANGED vars

Next ==
    \/ \E n \in Request :
        \/ \E a \in Ask : Arrive(n, a)
        \/ Refuse(n) \/ Look(n) \/ WriteFile(n) \/ Aim(n) \/ Demote(n) \/ Insert(n) \/ Set(n)
        \/ Unlink(n) \/ Delete(n) \/ Drop(n)
        \/ Commit(n) \/ Die(n)
    \/ Quiescent

Spec == Init /\ [][Next]_vars

\* Who makes a photo the cover demotes, or deletes, every cover that is committed when
\* its statement begins: there are two only if they were made so by two requests that
\* overlapped.
OneCover == \A p, q \in Covers : p = q \/ Overlap(maker[p], maker[q])


\* A photo that no request is at work on has a row if and only if it has a file,
\* unless a request failed between the two, the disk would not let go of the file,
\* or the edit form has replaced the photo as the cover and left its file.
FilesFollowRows ==
    \A p \in Photo \ adrift :
        (photo[p].old # "gone") = file[p]
        \/ \E n \in Request : Running(n) /\ p \in Touched(n)
=============================================================================
