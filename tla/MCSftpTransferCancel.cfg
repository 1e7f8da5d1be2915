SPECIFICATION Spec
CONSTANTS
    Uploads = {u}
    Downloads = {}
    MaxGeneration = 1
    MaxRestarts = 0
    MaxCancels = 1
    MaxShutdowns = 0
    None = None
CHECK_DEADLOCK FALSE
INVARIANTS
    CancelKeepsSession
