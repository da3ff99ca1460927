CONSTANTS
    p1 = p1
    p2 = p2
    p3 = p3
    p4 = p4
    Procs = {p1, p2, p3}
    Affine = {p1, p3}
    Timed = {p2, p3}
    Unprivileged = {p1, p3}
    Platform = "linux"
    Retries = 1
    Prompt = FALSE
    MaxFaults = 2
CONSTANT
    Verdict <- Mixed
SPECIFICATION FairSpec
INVARIANTS
    OneBus
PROPERTIES
    ImplementsMembership
    JoinReturns
