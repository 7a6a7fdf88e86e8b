SPECIFICATION FairSpec
CONSTANTS
    Shards = {1, 2}
    x1 = x1
    x2 = x2
    w1 = w1
    w2 = w2
    Rows = {x1, x2}
    Home <- MCHome
    Writers = {w1, w2}
    Readers = {r1}
    None = None
    Operations <- MCOperations
    Reads <- MCReads
    MaxPublications = 2
INVARIANTS
    OpenIsKept
    ReadIsWhole
    AbandonedIsFenced
PROPERTIES
    ReadReturns
    WritersComeToRest
