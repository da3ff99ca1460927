CONSTANTS
    p1 = p1
    p2 = p2
    p3 = p3
    Promises = {p1, p2, p3}
    Timed = {p1, p2}
    MaxItems = 3
    MaxCleans = 1
SPECIFICATION FairSpec
INVARIANTS
    OneListEmpty
    SomebodyAnswers
PROPERTIES
    ImplementsPromiseQueue
    Settled
    CloseEnds
CHECK_DEADLOCK FALSE
