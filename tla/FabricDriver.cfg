SPECIFICATION DriverSpec
CONSTANTS
    w1 = w1
    w2 = w2
    t1 = t1
    t2 = t2
    t3 = t3
    backend = backend
    frontend = frontend
    devops = devops
    NoWorker = NoWorker
    Worker = {w1, w2}
    Task = {t1, t2, t3}
    Slots = {1}
    MaxAttempts <- MCMaxAttempts
    Priority <- MCPriority
    Capability <- MCCapability
    Capabilities <- MCCapabilities
    Concurrency <- MCConcurrency
    RetryDelays = {0}
    LeaseSeconds = 1
    HeartbeatTimeout = 1
    MaxLag = 0
    ScanLimit = 3
    Driven <- MCDriven
    IdleRoundLimit = 2
    MaxRounds = 5
    MaxCrashes = 1
INVARIANTS
    StallMeansNoProgress
    ReturnsOnlyWhenDone
PROPERTIES
    DriveEnds
