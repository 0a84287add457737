SPECIFICATION Spec
CONSTANTS
    LinkDuration = 2
    Modes = {0, 2, 5, 6, 21}
INVARIANTS
    TypeOK
    OneCommand
    LostNotFlying
    NeverStranded
