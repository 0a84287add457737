CONSTANTS
    Addrs = {c1, c2}
    Comps = {k1, k2}
    ClientTimeout = 1
    CheckEvery = 1
    Fifo = FALSE
    None = None
INVARIANTS
    TypeOK
    NoDangling
    RoutedToOwner
    FreshClients
    LockedNoArm
SPECIFICATION Spec
SYMMETRY Symmetry
PROPERTY RouterSpec
