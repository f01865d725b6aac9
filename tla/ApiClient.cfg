SPECIFICATION FairSpec
CONSTANTS
    j1 = j1
    j2 = j2
    j3 = j3
    Jobs = {j1, j2, j3}
    MaxConcurrent = 2
    MaxRetries = 1
    FailureThreshold = 1
    HalfOpenMaxCalls = 1
    SuccessThreshold = 1
    MaxFailures = 3
INVARIANTS
    TypeOK
    PermitsBalanced
    EveryJobCountedOnce
    LeftoversExplained
    BreakerNeverWedged
PROPERTIES
    BatchEnds
