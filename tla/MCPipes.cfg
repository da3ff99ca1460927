CONSTANTS
    h1 = h1
    h2 = h2
    h3 = h3
    c1 = c1
    c2 = c2
    t1 = t1
    NoPipe = NoPipe
    NoConn = NoConn
    Waker = Waker
    Handles = {h1, h2, h3}
    First = h1
    Conns = {c1, c2}
    Own = {t1}
    Capacity = 1
    Sizes = {0, 3}
    QueueLen = 2
    MaxWrites <- Writes
    MaxSends = 1
    Hubs = {"controller", "endpoint"}
SPECIFICATION FairSpec
INVARIANTS
    OneOutstanding
    AllArmed
    NoLostWake
    Whole
PROPERTIES
    NothingLost
    Heard
CHECK_DEADLOCK FALSE
