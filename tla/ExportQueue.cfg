CONSTANTS
    j1 = j1
    j2 = j2
    j3 = j3
    d1 = d1
    d2 = d2
    Jobs <- TwoJobs
    Destinations <- TwoDestinations
    None = None
    Failures = {"launch", "crash", "job", "restart"}
    MaxSpare = 1
SPECIFICATION Spec
INVARIANTS
    OneEncode
    QueueSurvives
PROPERTIES
    CancelEnds
    EveryTurn
CHECK_DEADLOCK FALSE
