CONSTANTS
    Peers = {p1, p2}
    Own = own
    Labels <- PeerLabels
    OwnLabel = "own"
    Traffic <- BareTraffic
    Platform = "linux"
    Refusals = FALSE
    DetectEvery = 1
    Verdicts = {"ok"}
    MaxSend = 1
    MaxClock = 2
SPECIFICATION Spec
CHECK_DEADLOCK FALSE
PROPERTIES
    MulticastReachesEverybody
