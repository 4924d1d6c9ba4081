\* One execution that is dead-lettered and sent to rework.
SPECIFICATION Spec
CONSTANTS
    Execution = {e1}
    p = p
    Project = {p}
    ProjectOf <- OneProject
    Worker = {w1, w2}
    NoWorker = NoWorker
    LeaseSeconds = 1
    RetryDelay = 1
    MaxAttempts = 2
    TenantLimit = 1
    Capacity = 1
    MaxRequests = 3
INVARIANTS
    QueuedCanBeClaimed
