CONSTANTS
    c1 = c1
    c2 = c2
    c3 = c3
    Clients = {c1, c2, c3}
    Window = 5
    BurstWindow = 2
    Rate = 2
    Burst = 1
    MaxTracked = 1
    CleanupInterval = 6
SPECIFICATION Spec
SYMMETRY Symmetry
INVARIANTS
    LimitHolds
    TableIsBounded
PROPERTIES
    RetryAfterSuffices
