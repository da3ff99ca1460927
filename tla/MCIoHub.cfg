CONSTANTS
    c1 = c1
    c2 = c2
    t1 = t1
    Conns = {c1, c2}
    Own = {t1}
    InBuffer = 2
    QueueLen = 2
    MaxSends <- Sends
SPECIFICATION FairSpec
INVARIANTS
    EventsKept
    NoLostWake
PROPERTIES
    Heard
CHECK_DEADLOCK FALSE
