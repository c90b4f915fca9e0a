SPECIFICATION BreakerFairSpec
CONSTANTS
    Calls = {c1, c2, c3}
    FailureThreshold = 2
    SuccessThreshold = 2
    MaxProbes = 2
    MaxForced = 2
INVARIANT BreakerTypeOK
PROPERTIES RecoveryEarned OpenEnds
