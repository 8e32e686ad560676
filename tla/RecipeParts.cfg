SPECIFICATION Spec
CONSTANTS
    draft_text = draft_text
    final_text = final_text
    bean = bean
    Text <- MCText
    Food <- MCFood
    Servings <- MCServings
    MaxRequests = 3
    MaxFaults = 1
SYMMETRY Symmetry
INVARIANTS
    PartsTypeOK
    OneCover
    FilesFollowRows
    NothingMixes
