SPECIFICATION FairSpec
CONSTANTS
    o1 = o1
    o2 = o2
    o3 = o3
    Openers = {o1, o2}
    TargetOf <- MCTargetOf
    Tasks = {t1, t2}
    MaxAttempts = 2
    NoTask = NoTask
CHECK_DEADLOCK FALSE
INVARIANTS
    OneEditorPerTarget
    WaitIsAnswerable
PROPERTIES
    PermitSpec
    RetryIsHeard
