SPECIFICATION Spec
CONSTANTS
    ann = ann
    bob = bob
    Name <- MCName
    MaxRequests = 3
    MaxFaults = 1
SYMMETRY Symmetry
INVARIANTS
    AccountsTypeOK
    BanHolds
    FollowedLinkActivates
