CONSTANTS
    j1 = j1
    j2 = j2
    j3 = j3
    d1 = d1
    d2 = d2
    Jobs <- TwoJobs
    Destinations <- TwoDestinations
    None = None
    Failures = {}
    MaxSpare = 0
SPECIFICATION Spec
PROPERTY EndsForAReason
CHECK_DEADLOCK FALSE
