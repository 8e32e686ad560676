SPECIFICATION Spec
CONSTANTS
    Domain = {other}
    Followee = user
    Recipe = {soup, pie}
    Reaction = {"Like", "Announce"}
    MaxActivities = 2
    MaxFaults = 0
INVARIANT UndoMatchesItsActivity
