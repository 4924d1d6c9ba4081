\* Two executions of one project, two workers, two attempts each.
SPECIFICATION Spec
CONSTANTS
    Execution = {e1, e2}
    p = p
    Project = {p}
    ProjectOf <- OneProject
    Worker = {w1, w2}
    NoWorker = NoWorker
    LeaseSeconds = 1
    RetryDelay = 1
    MaxAttempts = 2
    TenantLimit = 1
    Capacity = 1
    MaxRequests = 3
SYMMETRY Symmetric
INVARIANTS
    TypeOK
    OneActivePerProject
    
    
PROPERTIES
    AttemptsAreFenced
    ClosedGateAdmitsNothing
