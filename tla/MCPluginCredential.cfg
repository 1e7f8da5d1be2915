SPECIFICATION Spec
CONSTANTS
    Refs = {"c"}
    Values = {"v", "w"}
    Absent = Absent
    NoRef = NoRef
    NoInv = NoInv
    Invocations = {"a", "b"}
    MaxFaults = 3
    MaxCrashes = 1
    PowerLoss = TRUE
CHECK_DEADLOCK FALSE
INVARIANTS
    ReadyIsStored
    UninstalledIsRevoked
PROPERTIES
    ReadyIsKept
    CustodySpec
