SPECIFICATION Spec
CONSTANTS
    Nobody = Nobody
    Cycle = {c1, c2, c3}
    LockSeconds = 2
    MaxLag = 1
    MaxCrashes = 1
    Overruns = FALSE
INVARIANTS
    TypeOK
    OneCycleInside
    StagingIsIsolated
    PublishedIsComplete
    NoLockLeftBehind
PROPERTIES
    DestinationIsFinal
    CyclesEnd
CHECK_DEADLOCK FALSE
