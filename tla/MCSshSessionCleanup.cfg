SPECIFICATION Spec
CONSTANTS
    MaxGen = 1
    MaxHops = 0
    MaxRounds = 0
    MaxRequests = 1
PROPERTY
    ShutdownWaitsForCleanup
