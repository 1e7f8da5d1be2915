SPECIFICATION Spec
CONSTANTS
    Views = {v1, v2}
    MaxGen = 2
    MaxAtt = 2
    MaxEpoch = 1
    MaxPending = 2
INVARIANTS
    LeaseAnchored
    NoOrphanedOwner
    WorkBlocksExit
PROPERTY
    DisconnectEnds
