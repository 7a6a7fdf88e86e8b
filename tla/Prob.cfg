SPECIFICATION Spec
CHECK_DEADLOCK FALSE
CONSTANTS
    Nil = Nil
    NoEntry = NoEntry
    TokenCell = TokenCell
    Cells <- MCCells
    Fresh <- MCFresh
    Logs <- MCLogs
    Plan <- MCPlan
    Direct <- MCDirect
    Decode <- MCDecode
    Stale <- MCStale
    SourceAfter <- MCSourceAfter
    Large <- MCLarge
    DirectEntries <- MCDirectEntries
    MaxDirect = 4
    IndexMax = 9
    MaxCrashes = 1
    Word = 7
    MaxInput = 2
    Hash1 <- MCHash1
    Hash2 <- MCHash2
    BloomBits = 6
    ByteBits = 2
    BloomHashes = 2
    BloomMaxVisits = 4
    BloomMaxBits = 8
    BloomCountMax = 3
    CmsWidth = 2
    CmsDepth = 2
    CmsChunk = 3
    CmsMaxCounters = 4
    CmsMaxVisits = 4
    CmsCounterMax = 3
    CmsTotalMax = 9
    CuckooBuckets = 3
    CuckooSlots = 1
    CuckooMaxKicks = 2
    CuckooFp <- MCFp
    CuckooMaxSlots = 3
    CuckooCountMax = 5
    TopKSize = 2
    TopKWidth = 2
    TopKDepth = 2
    TopKMaxCounters = 4
    TopKMaxK = 2
    TopKCounterMax = 6
    TopKLongElements = {}
INVARIANTS
    Recoverable
    ReplaysOnce
    AnswersTruthful
