CONSTANTS
    Peers = {p1, p2}
    Own = own
    Labels <- PeerLabels
    OwnLabel = "own"
    Traffic <- WaitingTraffic
    Platform = "macos"
    Refusals = TRUE
    DetectEvery = 0
    Verdicts = {"ok", "version", "token", "garbled"}
    MaxSend = 1
    MaxClock = 1
SPECIFICATION FairSpec
CHECK_DEADLOCK FALSE
INVARIANTS
    AckFirst
PROPERTIES
    ConnectAnswered
