SPECIFICATION FocusSpec
CONSTANTS
    Views = {v1}
    MaxGen = 1
    MaxAtt = 2
    MaxEpoch = 4
    MaxPending = 4
INVARIANTS
    OneInputOwner
    FocusBacked
PROPERTIES
    NoMisdirectedWrite
    CoordinatorExact
