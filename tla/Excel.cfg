CONSTANTS
    n1 = n1
    n2 = n2
    e1 = e1
    e2 = e2
    k1 = k1
    k2 = k2
    None = None
    Ids = {i1, i2, i3}
    Names = {n1, n2}
    Eins = {e1, e2}
    Keys = {k1, k2}
    Workbooks <- MCWorkbooks
    Counts = {1, 2}
    Draws = {4000}
    Grain = 10
    MaxRuns = 2
    MaxEdits = 2
    MaxFaults = 1
SPECIFICATION Spec
SYMMETRY SymmetricIds
PROPERTIES
    RepeatAddsNothing
    ChildrenUnderNamedEntity
    StoredSharesSumTo100
\* The bounds stop the system.
CHECK_DEADLOCK FALSE
