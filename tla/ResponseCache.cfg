CONSTANTS
    a1 = a1
    a2 = a2
    k1 = k1
    k2 = k2
    Callers = {a1, a2}
    Keys = {k1, k2}
    MaxUpdates = 2
SPECIFICATION Spec
SYMMETRY Symmetry
INVARIANTS
    StaleIsExplained
