CONSTANTS
    N = 3
    Fields <- TwoFields
    Groups <- OneByOne
    Presets <- JustPreset2
    LeftOn <- JustPreset2
    Values = {v1, v2}
    v1 = v1
    v2 = v2
    Blank = Blank
    Default = v1
    Room = 1
INVARIANTS
    TypeOK
    CleanIsStored
PROPERTIES
    ShutdownSaves
    HostTold
    StoreSpec
SPECIFICATION Spec
