SPECIFICATION FairSpec
CONSTANTS
    NopInterval = 0
    MaxTime = 1
    MaxFrames = 1
    MaxPdus = 2
    MaxWire = 0
    EagerAccept = FALSE
    LateClose = FALSE
    TornMessages = FALSE
PROPERTIES
    RelaysToL2
    AnswersRequests
    ClosesOnlyToFinish
    RunReturns
    ServesAgain
CHECK_DEADLOCK FALSE
