CONSTANTS
    s1 = s1
    s2 = s2
    rx = rx
    Senders = {s1, s2}
    Receiver = rx
    Platform = "linux"
    Breaks = {"out", "in", "both"}
    Timed = TRUE
    EpochMod = 4
    MaxBreaks = 1
SPECIFICATION FairSpec
PROPERTIES
    DropCloses
CHECK_DEADLOCK FALSE
