SPECIFICATION Spec
CONSTANTS
    Note = {a, b}
    Moderated = TRUE
    MaxRequests = 2
    MaxFaults = 1
INVARIANTS
    CommentsTypeOK
    NoteStoredOnce
    SaysWhatItsServerSaid
    DecisionsHold
    RepliesHaveParents
    OnlyCommittedIsSent
PROPERTY CommentsEnd
