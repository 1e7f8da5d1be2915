SPECIFICATION FairSpec
CONSTANTS
    Refs = {"l", "p"}
    LoginRefs = {"l"}
    Values = {"v", "w"}
    Absent = Absent
    NoRef = NoRef
    MaxFaults = 1
    MaxCrashes = 1
    PowerLoss = TRUE
INVARIANTS
    StagedIsStored
    AckedIsStored
PROPERTIES
    CustodySpec
    CleanupFinishes
