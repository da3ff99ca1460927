CONSTANTS
    s1 = s1
    s2 = s2
    rx = rx
    Senders = {s1, s2}
    Receiver = rx
    Platform = "linux"
    Breaks = {"out", "in", "both"}
    Timed = TRUE
    EpochMod = 4
    MaxBreaks = 3
SPECIFICATION FairSpec
INVARIANTS
    ReaderFollowsReceiver
    NoCircle
PROPERTIES
    HealthyKept
    SendReturns
    BusGoesOn
    DropReturns
CHECK_DEADLOCK FALSE
