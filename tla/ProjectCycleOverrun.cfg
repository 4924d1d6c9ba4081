SPECIFICATION Spec
CONSTANTS
    Nobody = Nobody
    Cycle = {c1, c2, c3}
    LockSeconds = 2
    MaxLag = 1
    MaxCrashes = 0
    Overruns = TRUE
INVARIANTS
    PublishedIsComplete
CHECK_DEADLOCK FALSE
