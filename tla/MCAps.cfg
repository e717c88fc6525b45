SPECIFICATION Spec
CONSTANTS
    NopInterval = 0
    MaxTime = 1
    MaxFrames = 2
    MaxPdus = 0
    MaxWire = 0
    EagerAccept = TRUE
    LateClose = TRUE
    TornMessages = TRUE
INVARIANTS
    TypeOK
    LinkStatusTold
PROPERTIES
    RelaysToApc
    KeepAlive
    ResponseComesFirst
CHECK_DEADLOCK FALSE
