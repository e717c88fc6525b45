SPECIFICATION Spec
CONSTANTS
    Controllers = {c1, c2, c3}
    MaxControllers = 2
    MaxLag = 2
    ClockSize = 32
    LockTimeout = 3
    CommandTimeout = 2
    Lists = {TRUE, FALSE}
SYMMETRY Symmetry
INVARIANTS
    TypeOK
    OneOwner
    LockEnds
PROPERTIES
    KeptUntilTimeout
    ToldOnce
