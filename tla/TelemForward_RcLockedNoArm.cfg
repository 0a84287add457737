CONSTANTS
    Addrs = {c1}
    Comps = {k1}
    ClientTimeout = 1
    CheckEvery = 1
    Fifo = TRUE
    None = None
INVARIANT RcLockedNoArm
SPECIFICATION Spec
