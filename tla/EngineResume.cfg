CONSTANTS
    CacheCallers = {c1, c2}
    Warmers = {c2}
    Names = {"a", "b"}
    ModelSize <- MCModelSize
    MaxMemory = 2
    MaxModels = 2
    Policies = {"lru", "lru_memory", "freq"}
    MaxWarming = 1
    MaxPressure = 1
    Ids = {i1, i2}
    Topics = {t1}
    MaxConnections = 1
    RateLimit = 0
    MaxSockets = 2
    MaxEvents = 1
    MaxBeats = 1
    Members = {a1}
    Stoppers = {s1, s2}
    Priorities = {0, 1}
    MailboxSize = 2
    MaxMessages = 2
    MaxStarts = 3
    FailedJobs = {1, 2, 3}
    MaxEntries = 2
    MaxFailures = 4
    NumItems = 5
    BatchSize = 2
    QueuedJobs = {1, 2, 3}
    JobPriority <- MCJobPriority
    QueueSize = 2
    Timed = {1, 2}
    Consumers = {c1, c2}
    RateInterval = 1
    QueueTime = 2
    BatchJobs = {j1, j2}
    CheckpointInterval = 2
    Downloads = 1
    MaxRuns = 2
    NumGenes = 1
    Values = {1, 2}
    PopulationSize = 2
    EliteCount = 1
    Tournament = 1
    Generations = 2
    MaxStagnation = 1
    Mutating = FALSE
    MaxFitness = 1
    Scored = TRUE
    NumVariants = 2
    Counts = {4, 5, 6}
    MaxTime = 2
    MinSamples = 2
    MaxSamples = 2
    Branches = {trunk, work}
    Target = trunk
    AutoCreate = TRUE
    Pushing = TRUE
    MaxCommits = 3
SPECIFICATION Spec
INVARIANT ResumedIsNotRepeated
CHECK_DEADLOCK FALSE
