SPECIFICATION CanonSpec
CONSTANTS
    MaxChapter = 2
    Patches <- SomePatches
    MaxPatches = 1
    MemSessions = {e1, e2}
    IdleChapters = 1
    AtomLimit = 1
    RecallScores = {0, 1}
    MaxActs = 3
PROPERTY FactsAreReplaced
CHECK_DEADLOCK FALSE
