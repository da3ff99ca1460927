CONSTANTS
    Peers = {p1, p2}
    Own = own
    Labels <- PeerLabels
    OwnLabel = "own"
    Traffic <- AttachedTraffic
    Platform = "linux"
    Refusals = TRUE
    DetectEvery = 1
    Verdicts = {"ok"}
    MaxSend = 2
    MaxClock = 2
SPECIFICATION Spec
CHECK_DEADLOCK FALSE
SYMMETRY PeerSymmetry
INVARIANTS
    BufferedUnmatched
    UnicastAtMostOnce
    SourceOrder
    AckedIsRegistered
PROPERTIES
    ImplementsBus
    MulticastReachesAll
    HeldUntilRoutedOrExpired
