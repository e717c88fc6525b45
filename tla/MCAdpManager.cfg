SPECIFICATION Spec
CONSTANTS
    MaxLag = 2
    ClockSize = 32
    QuarterSecond = 2
    ValidTime = 6
    GrandMasters = {g1, g2, g3}
    MaxLost = 2
SYMMETRY Symmetry
INVARIANTS
    TypeOK
    StaysKnown
    NewsTold
    DiscoverAnswered
