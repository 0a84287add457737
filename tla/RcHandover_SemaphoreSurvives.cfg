SPECIFICATION Spec
CONSTANTS
    Words = {1, 2}
    Packets = {0, 1}
    Blank = 0
    None = None
    MaxCmds = 2
    MaxCrash = 0
    Callbacks = TRUE
INVARIANT SemaphoreSurvives
