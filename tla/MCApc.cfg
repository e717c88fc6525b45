SPECIFICATION FairSpec
CONSTANTS
    NopInterval = 0
    MaxTime = 1
    MaxFrames = 2
    MaxPdus = 2
    MaxWire = 0
INVARIANTS
    TypeOK
    NeverLeftAvailable
PROPERTIES
    HandsOn
    Forwards
    TransferEnds
    Handled
CHECK_DEADLOCK FALSE
