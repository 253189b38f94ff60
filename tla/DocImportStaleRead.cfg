CONSTANTS
    d1 = d1
    d2 = d2
    x = x
    y = y
    metaA = metaA
    metaB = metaB
    entA = entA
    entB = entB
    None = None
    Missing = Missing
    Docs <- MCDocs
    Bytes <- MCBytes
    Metas <- MCMetas
    Entities <- MCEntities
    EntityOf <- MCEntityOf
    Manifests <- MCPlainManifests
    Paths <- MCPaths
    Texts <- MCTexts
    MaxRuns = 2
    MaxEdits = 1
    MaxFaults = 0
SPECIFICATION Spec
INVARIANTS
    SkippedBytesAreRecorded
\* The bounds on runs and faults stop the system.
CHECK_DEADLOCK FALSE
