SPECIFICATION FairSpec
CONSTANTS
    Targets = {t1, t2}
    Types = {"SET_CONTROL", "CONTROLLER_AVAILABLE"}
    SeqCount = 3
    Timeout = 1
    MaxLag = 2
    ClockSize = 8
INVARIANTS
    TypeOK
PROPERTIES
    AnsweredOnce
    AcceptsLatest
    GivesUp
