SPECIFICATION BreakerFairSpec
CONSTANTS
    Calls = {c1, c2}
    FailureThreshold = 1
    SuccessThreshold = 2
    MaxProbes = 2
    MaxForced = 0
PROPERTY HalfOpenEnds
