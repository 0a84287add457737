SPECIFICATION PixFairSpec
CONSTANTS
    Ids <- MCIds
    RcTimeout = 2
    SmTimeout = 2
    Stuck = 5
    MaxCrash = 1
    MaxSemErr = 1
    LockOps <- SomeLockOps
    SilenceCap = 5
    Misfits = TRUE
INVARIANTS
    TypeOK
    SemaphoreHeld
    FailsafeBounded
    LockStopsFrames
PROPERTY Recovers
