CONSTANTS
    Solos = {s1, s2}
    MaxCrashes = 0
    None = None
    Empty = Empty
PROPERTY ApprovedByName
SPECIFICATION Spec
