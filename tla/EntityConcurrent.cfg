CONSTANTS
    a = a
    b = b
    c = c
    p1 = p1
    p2 = p2
    e1 = e1
    e2 = e2
    blank = blank
    x1 = x1
    EmptyEin = blank
    None = None
    Ids <- TwoIds
    Procs <- TwoProcs
    Eins = {e1, e2, blank}
    Xeros = {x1}
    CreateBodies <- MCCreates
    PatchBodies <- MCPatches
    FormBodies <- MCForms
    MayDelete = TRUE
    MaxRequests = 3
    MaxFaults = 1
SPECIFICATION FairSpec
INVARIANTS
    TypeOK
    KeysUnique
PROPERTIES
    OnlySentFieldsChange
    DeletedStaysDeleted
    SharedEinsRaced
    LegalPersonsRaced
    EveryRequestAnswered
\* The bound on requests stops the system.
CHECK_DEADLOCK FALSE
