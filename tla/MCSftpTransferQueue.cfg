SPECIFICATION Spec
CONSTANTS
    d1 = d1
    d2 = d2
    Uploads = {}
    Downloads = {d1, d2}
    MaxGeneration = 1
    MaxRestarts = 0
    MaxCancels = 2
    MaxShutdowns = 0
    None = None
SYMMETRY Symmetry
CHECK_DEADLOCK FALSE
INVARIANTS
    QueuedIsQueued
    WakeupOwed
