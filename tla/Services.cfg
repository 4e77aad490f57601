SPECIFICATION ServicesSpec
CONSTANTS
    MaxRows = 2
    OutboxItems = {1}
    Pollers = {w}
    Scripts = {s}
    ClaimLimit = 1
    MaxRetries = 2
    MaxUpsets = 1
    QueuedScopes = {"branch", "chapter"}
    RepairedRows = 1
    Callers = {c1, c2}
    LockTimeout = 1
    OpTimeout = 1
    ZombieThreshold = 2
    MaxRecycles = 1
    Branches = {b1, b2}
    BranchJobs = {1, 2}
    MaxChapter = 2
    Patches <- SomePatches
    MaxPatches = 1
    MemSessions = {e1, e2}
    IdleChapters = 1
    AtomLimit = 1
    RecallScores = {0, 1}
    MaxActs = 3
    Cards = {1, 2}
    CardNames = {"a", "b"}
    CardStates = {"x", "y"}
    CardChapters = 2
    MaxUpdates = 2
    MaxEdits = 1
    MaxBatches = 2
    OpenTag <- ShortOpenTag
    CloseTag <- ShortCloseTag
    Replies <- SomeReplies
    ChunkSizes = {1, 2}
    MaxLlmRetries = 2
    Hosts = {"h1", "h2"}
    MaxChanges = 1
    BuiltinFlows = {"long"}
    CustomFlows = {"x", "y"}
    Clones = {"x"}
    Roles = {"draft", "review"}
    CustomPrompt = "own"
    CustomNodes = {"n"}
    Projects = {1}
    MaxRequests = 3
    Matters = {"who"}
    MaxRounds = 2
    MaxOutlineEdits = 1
    ItemKeys = {1, 2, 3}
    HandoffChapters = 3
    MaxStatements = 4
    AtomsTaken = 2
    EvidenceLimit = 3
    ItemsShown <- SomeShown
    Rows <- SomeRows
    Drawings <- SomeDrawings
    RewriteLimit = 2
    AttemptLimit = 3
    Tables = {"tunables", "prompts", "settings"}
    ConfigKeys = {"k1", "k2"}
    Readers = {1, 2}
    LastTick <- SomeTicks
    Sections = 3
    SectionTexts <- SomeTexts
    HeaderLength = 1
    MaxChars = 4
    Slack = 2
    MaxTextEdits = 1
INVARIANT OutboxTypeOK
INVARIANT ArchivedStaysEmpty
PROPERTY JudgedByRunningCall
INVARIANT ActiveBranchIsUnique
INVARIANT CanonWasPublished
INVARIANT NothingBeyondLast
INVARIANT RecallShowsNewest
INVARIANT SparseHistoryIsExact
INVARIANT WriterSeesNoFuture
INVARIANT AnswerIsVisibleText
INVARIANT EveryProviderIsAsked
INVARIANT NothingIsRare
INVARIANT InUseIsThere
INVARIANT PromptsAreThere
INVARIANT CluesStayClues
INVARIANT OneContract
INVARIANT LedgerIsCurrent
INVARIANT LoopsPassABudget
INVARIANT OwnOrderIsKept
INVARIANT CachesAreCurrent
INVARIANT SuffixIsEnough
PROPERTY NewcomersAreLinked
PROPERTY QueueKeepsPromise
PROPERTY QueueDrains
PROPERTY ArchivedIsFinal
CHECK_DEADLOCK FALSE
