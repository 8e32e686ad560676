---------------------------- MODULE RecipeParts ------------------------------
(***************************************************************************)
(* The parts of a recipe whose handlers look before they write: a          *)
(* translation, the photos, the nutrition facts.  They have no row in      *)
(* common, so that requests about two of them never meet: a behaviour is   *)
(* about one part, whichever Init has picked.                              *)
(***************************************************************************)
EXTENDS RecipeRequests

CONSTANTS Text, Food, Servings

VARIABLES part,
          translation, vetted,
          photo, file, maker, adrift,
          recipe, ingredient, cache, calc, relinked,
          wrote

translations == <<translation, vetted>>
photos == <<photo, file, maker, adrift>>
nutrition == <<recipe, ingredient, cache, calc, relinked>>
vars == <<part, translations, photos, nutrition, wrote, requests>>

T == INSTANCE Translations
P == INSTANCE Photos
N == INSTANCE Nutrition

Init ==
    \/ /\ part = "translation" /\ T!Init
       /\ photo = Nothing /\ file = Nothing /\ maker = Nothing /\ adrift = Nothing
       /\ recipe = Nothing /\ ingredient = Nothing /\ cache = Nothing
       /\ calc = Nothing /\ relinked = Nothing
    \/ /\ part = "photos" /\ P!Init
       /\ translation = Nothing /\ vetted = Nothing /\ wrote = Nothing
       /\ recipe = Nothing /\ ingredient = Nothing /\ cache = Nothing
       /\ calc = Nothing /\ relinked = Nothing
    \/ /\ part = "nutrition" /\ N!Init
       /\ translation = Nothing /\ vetted = Nothing
       /\ photo = Nothing /\ file = Nothing /\ maker = Nothing /\ adrift = Nothing

Next ==
    \/ part = "translation" /\ T!Next /\ UNCHANGED <<part, photos, nutrition>>
    \/ part = "photos" /\ P!Next /\ UNCHANGED <<part, translations, nutrition, wrote>>
    \/ part = "nutrition" /\ N!Next /\ UNCHANGED <<part, translations, photos>>

Spec == Init /\ [][Next]_vars

\* The state of the part in use.
PartsTypeOK ==
    CASE part = "translation" -> T!TranslationsTypeOK
      [] part = "photos" -> P!PhotosTypeOK
      [] part = "nutrition" -> N!NutritionTypeOK

\* Photos!OneCover: two covers only if two requests that overlapped made them.
OneCover == part = "photos" => P!OneCover

\* Photos!FilesFollowRows: rows and files come and go together, unless a request fails
\* between the two.
FilesFollowRows == part = "photos" => P!FilesFollowRows

\* What a row says belongs together, unless the columns in question were set by two
\* requests that overlapped: Translations!ReviewedIsVetted, the status and the text,
\* and Nutrition!FactsAgree, the total, the servings and the facts per serving.
NothingMixes ==
    /\ part = "translation" => T!ReviewedIsVetted
    /\ part = "nutrition" => N!FactsAgree
=============================================================================
