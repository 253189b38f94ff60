CONSTANTS
    Docs <- ThreeDocs
    Writers = {w1, w2}
    PageSize = 1
    Overlap = 2
    LongestImport = 1
    LongestPoll = 1
    MovesWhilePaging = FALSE
    Deletable = {2}
    MaxTime = 4
SPECIFICATION FairSpec
INVARIANTS
    MissedIsStillAhead
PROPERTIES
    EveryChangeIsTaken
\* The clock stops the system.
CHECK_DEADLOCK FALSE
