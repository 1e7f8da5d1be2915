SPECIFICATION Spec
CONSTANTS
    Sessions = {s1, s2}
    Clients = {c1, c2}
    MailCap = 2
    OwnerCap = 1
    None = None
INVARIANTS
    AckIsOwed
PROPERTY
    AnsweredUnlessSaturated
\* The commands may all be waiting for the actor while the actor waits for an
\* owner whose own report waits for room in the mailbox: the service can stop.
CHECK_DEADLOCK FALSE
