SPECIFICATION LiveSpec
CONSTANTS
    w1 = w1
    w2 = w2
    t1 = t1
    t2 = t2
    backend = backend
    frontend = frontend
    NoWorker = NoWorker
    Worker = {w1, w2}
    Task = {t1, t2}
    Slots = {1}
    MaxAttempts <- MCMaxAttempts
    Priority <- MCPriority
    Capability <- MCCapability
    Capabilities <- MCCapabilities
    Concurrency <- MCConcurrency
    RetryDelays = {1}
    LeaseSeconds = 1
    HeartbeatTimeout = 1
    MaxLag = 0
    ScanLimit = 2
    MaxCrashes = 1
INVARIANTS
    AttemptRunsOnce
    LeasedTaskIsHandled
    ResultOfCurrentAttempt
PROPERTIES
    TasksTerminate
