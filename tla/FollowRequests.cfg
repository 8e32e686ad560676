SPECIFICATION Spec

CONSTANTS
    ann = ann
    bob = bob
    cat = cat
    Requester <- MCRequester
    Followee <- MCFollowee
    MaxRequests = 4
    MaxFaults = 1

INVARIANTS
    TypeOK
    LockOrder
    OwnAcceptNotServed

PROPERTIES
    FollowerOnlyByConsent
    RowsOnlyWithdrawn
    RequestsEnd
    FollowsLifecycle
