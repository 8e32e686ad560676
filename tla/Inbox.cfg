SPECIFICATION Spec
CONSTANTS
    Domain = {other}
    Followee = user
    Recipe = {soup, pie}
    Reaction = {"Like", "Announce"}
    MaxActivities = 2
    MaxFaults = 1
INVARIANTS
    InboxTypeOK
    ServedAlone
    ServedInOrder
PROPERTIES
    InfoIsKept
    ActivitiesEnd
