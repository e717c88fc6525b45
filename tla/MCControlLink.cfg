SPECIFICATION FairSpec
CONSTANTS
    Items = 2
    Values = {0, 1}
    UpdateRate = 1
    SeqCount = 3
    MaxAge = 1
    MaxOthers = 1
INVARIANTS
    ChangesAreFlagged
PROPERTIES
    Converges
