SPECIFICATION FairSpec
CONSTANTS
    Workers = {w1}
    Calls = {c1, c2}
    MaxRestarts = 1
    Drains = {d1, d2}
    Threaded = {d1}
    NumCleanups = 2
    MaxSignals = 2
    Pools = {p1}
    Callers = {c1}
    MinNodes <- MCMinNodes
    MaxNodes <- MCMaxNodes
    Target <- MCTarget
    Readings <- MCReadings
    Keys = {k1, k2}
    Admins = {k1, k2}
    RateLimit = 1
    Urls = {u1}
    Jobs = {j1}
    RetryCount = 2
INVARIANTS
    TypeOK
    OverIsOver
PROPERTIES
    WaitersAnswered
    AskedIsDone
CHECK_DEADLOCK FALSE
