CONSTANTS
    Solos = {s1, s2}
    MaxCrashes = 1
    None = None
    Empty = Empty
INVARIANTS
    TypeOK
    Agreement
    OnePerLife
    RejectedStaysOut
SPECIFICATION Spec
SYMMETRY Symmetry
PROPERTIES
    AdmissionSpec
    ByNameUnlessLate
