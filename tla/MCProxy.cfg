SPECIFICATION ProxySpec
CONSTANTS
    NopInterval = 0
    MaxTime = 0
    MaxFrames = 2
    MaxPdus = 1
    MaxWire = 1
    EagerAccept = FALSE
    LateClose = FALSE
    TornMessages = FALSE
    EagerRequest = FALSE
INVARIANTS
    LinkAgreement
    NeverBothWait
PROPERTIES
    RelaysFrames
    RelaysPdus
CHECK_DEADLOCK FALSE
