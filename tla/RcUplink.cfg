SPECIFICATION Spec
CONSTANTS
    Ids = {1, 2}
    RcTimeout = 1
    SmTimeout = 1
    Stuck = 2
    MaxCrash = 1
    MaxSemErr = 0
    LockOps = {}
    SilenceCap = 7
    Misfits = FALSE
    Stale = 1
    MaxInbox = 1
INVARIANTS
    UplinkTypeOK
    UplinkFailsafeBounded
