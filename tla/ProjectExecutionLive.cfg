\* One execution: crashes, lost leases and a full queue strand nothing.
SPECIFICATION Spec
CONSTANTS
    Execution = {e1}
    p = p
    Project = {p}
    ProjectOf <- OneProject
    Worker = {w1, w2}
    NoWorker = NoWorker
    LeaseSeconds = 1
    RetryDelay = 1
    MaxAttempts = 2
    TenantLimit = 1
    Capacity = 1
    MaxRequests = 3
PROPERTIES
    QueuedIsSettled
