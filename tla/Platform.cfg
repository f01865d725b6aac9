CONSTANTS
    Hosts = {h1, h2}
    Schedulers = {h1, h2}
    Jobs = {j1}
    Tasks = {"t1"}
    MaxLost = 1
    Regions <- MCRegions
    Priority <- MCPriority
    Score <- MCScore
    Rules <- MCRules
    MaxWrites = 1
    MaxVersion = 2
    MaxRequests = 1
    MaxWindow = 2
    Machines = {1, 2, 3}
    MinNodes = 1
    MaxNodes = 2
    QueueDepth = 1
    Depths = {0, 1, 4}
    Waits = {FALSE}
    Launched = {"pending", "running"}
    Providers <- MCProviders
    Catalog <- MCCatalog
    MachineNames = {"n1"}
    MachineIds = {"i1", "i2"}
    Callers = {c1}
    Wanted <- MCWanted
    Offers <- MCOffers
    PaidJobs = {j1, j2}
    Preemptible = {j1}
    Budget = 3
    MaxTime = 1
    MaxSubmissions = 2
    Processes = {p1, p2}
    Nodes = {"n1", "n2"}
    Known = {"n1"}
    Demanding = {"n1"}
    Versions <- MCVersions
    MaxUpdates = 1
    Plugins = {1, 2, 3}
    Requirements <- MCRequirements
    Hooks <- MCHooks
    Reloaders = {c1}
    MaxEdits = 1
    MaxLeft = 1
    Places = {"output_models", "models", "sessions"}
    ArcName <- MCArcName
    Contents = {"output_models", "sessions"}
    MaxBackups = 2
    Users = {u1, u2}
    LockAfter = 2
    MaxTokens = 2
    MaxEntries = 3
SPECIFICATION Spec
INVARIANTS
    TypeOK
    HostsAgree
    MachinesAccounted
    InstalledIsWhole
PROPERTIES
    DoneIsDone
    DiscoveryIsComplete
CHECK_DEADLOCK FALSE
