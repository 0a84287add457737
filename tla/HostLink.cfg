SPECIFICATION FairSpec
CONSTANTS
    Slots = 2
    PacketsPerBeat = 2
    ToggleTX = TRUE
INVARIANTS
    TypeOK
    PendingMeansSending
    EventsInOrder
PROPERTIES
    TransmitterSpec
    Served
