SPECIFICATION Spec

CONSTANTS
    ann = ann
    bob = bob
    cat = cat
    Requester <- MCRequester
    Followee <- MCFollowee
    MaxRequests = 3
    MaxFaults = 0

INVARIANT AcceptedHasFollower
