SPECIFICATION FairSpec
CONSTANTS
    Words = {1, 2}
    Packets = {0, 1}
    Blank = 0
    None = None
    MaxCmds = 2
    MaxCrash = 2
    Callbacks = TRUE
INVARIANTS
    TypeOK
    UplinkRestored
    RemapExclusive
PROPERTIES
    RegisterSpec
    SticksReturn
