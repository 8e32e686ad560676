SPECIFICATION Spec
CONSTANTS
    spam = spam
    trust = trust
    Reason <- MCReason
    PageSize = 1
    MaxRequests = 3
    MaxFaults = 1
SYMMETRY Symmetry
INVARIANTS
    MembersTypeOK
    AnswersHold
    ReadIsAccountedFor
