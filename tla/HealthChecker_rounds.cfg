SPECIFICATION FairSpec
CONSTANTS
    Addr = {a1, a2}
    MaxList = 2
    MaxUpdates = 1
    UnhealthyThreshold = 2
    HealthyThreshold = 1
INVARIANT QuietAfterStop
PROPERTY EjectionEarned
PROPERTY StopReturns
PROPERTY FollowsBackends
CHECK_DEADLOCK FALSE
