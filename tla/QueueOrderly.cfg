SPECIFICATION FairSpec
CONSTANTS
    w1 = w1
    w2 = w2
    j1 = j1
    j2 = j2
    Workers = {w1, w2}
    Jobs = {j1, j2}
    None = None
    Priority <- MCPriority
    MaxRetries = 2
    MaxConcurrent = 1
    Cleaners = {w1, w2}
    MaxTasks = 4
    MaxExpiries = 0
    MaxFaults = 0
PROPERTIES
    ImplementsLifecycle
