SPECIFICATION Spec

CONSTANTS
    pasta = pasta
    fay = fay
    gus = gus
    hal = hal
    shared = shared
    own = own
    Recipe <- MCRecipe
    Follower <- MCFollower
    InboxOf <- MCInboxOf
    MaxRequests = 1
    MaxFaults = 1
    MaxCrashes = 1
    MaxLost = 1

INVARIANTS
    SystemTypeOK
    FanOutComplete
    RepeatsExplained

PROPERTY AnnouncementsEnd
