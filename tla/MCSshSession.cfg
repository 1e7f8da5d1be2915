SPECIFICATION FairSpec
CONSTANTS
    MaxGen = 2
    MaxHops = 1
    MaxRounds = 1
    MaxRequests = 1
INVARIANTS
    NoOrphanedShell
    WorkBlocksExit
    HostVerified
    PromptIsCurrent
PROPERTIES
    StaleIsInert
    ConnectResolves
