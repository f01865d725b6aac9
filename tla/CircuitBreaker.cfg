SPECIFICATION FairSpec
CONSTANTS
    c1 = c1
    c2 = c2
    c3 = c3
    Callers = {c1, c2, c3}
    Cancellable = {c3}
    FailureThreshold = 2
    HalfOpenMaxCalls = 3
    SuccessThreshold = 2
    MaxFailures = 4
INVARIANTS
    TypeOK
    ClosedBelowThreshold
    NoWedge
    QuotaAccounted
PROPERTIES
    OpenIsTried
    RecoversWhenHealthy
