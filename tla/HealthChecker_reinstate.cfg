SPECIFICATION FairSpec
CONSTANTS
    Addr = {a1, a2}
    MaxList = 2
    MaxUpdates = 1
    UnhealthyThreshold = 2
    HealthyThreshold = 2
PROPERTY ReinstatementEarned
CHECK_DEADLOCK FALSE
