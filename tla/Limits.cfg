SPECIFICATION Spec
CONSTANTS
    Max <- MCMax
    MaxRequests = 2
    MaxFaults = 2
INVARIANTS
    LimitsTypeOK
    LimitHolds
PROPERTIES
    CountersRunOut
