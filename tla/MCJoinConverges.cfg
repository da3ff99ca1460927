CONSTANTS
    p1 = p1
    p2 = p2
    p3 = p3
    p4 = p4
    Procs = {p1, p2, p3, p4}
    Affine = {p1, p2}
    Timed = {}
    Unprivileged = {}
    Platform = "linux"
    Retries = 1
    Prompt = TRUE
    MaxFaults = 2
CONSTANT
    Verdict <- Alien
SPECIFICATION FairSpec
PROPERTIES
    Converges
    MismatchReported
