CONSTANTS
    e1 = e1
    e2 = e2
    x1 = x1
    p1 = p1
    p2 = p2
    None = None
    Ids <- MCIds
    ApiIds = {2}
    Runners = {p1, p2}
    Eins = {e1, e2}
    Xeros = {x1}
    InitialRows <- MCTables
    Seeds <- MCSeeds
    MaxRuns = 2
    MaxEdits = 1
    MaxFaults = 1
SPECIFICATION FairSpec
INVARIANTS
    KeysUnique
    MappingNamesCommitted
    SeedIsIdempotent
PROPERTIES
    SeedTakesEffect
    OnlyNamedFieldsChange
    DeletedRowsAreLeftAlone
    MovingValuesNeverCollide
    EveryRunEnds
\* The bounds on runs, requests and faults stop the system.
CHECK_DEADLOCK FALSE
