SPECIFICATION Spec
CONSTANTS
    Machines = {m1, m2, m3}
    IdCount = 3
SYMMETRY MCSymmetry
INVARIANTS
    TypeOK
    UniqueIfAssigned
    HangsOnlyIfLeaked
CHECK_DEADLOCK FALSE
