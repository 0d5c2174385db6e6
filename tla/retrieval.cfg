SPECIFICATION FairSpec
CONSTANTS
    Call = {c1, c2}
    RequestId = {i1, i2}
    Requests <- SomeRequests
    Department = {all, sales, legal}
    Global = all
    Base = {b1, b2}
    Labels <- SomeLabels
    Document = {d1, d2}
    Parent = {p1, p2}
    Chunk = {k1, k2, k3}
    DocumentOf <- TwoDocuments
    ParentOf <- ThreeChunks
    ChunkTokens <- SomeChunkTokens
    AroundTokens <- SomeAroundTokens
    Budget = 6
    Stored = {d1}
    TopK = 3
    FinalTopK = 2
    MaxRetries = 1
    Repairs = TRUE
    None = None
    c1 = c1
    c2 = c2
    d1 = d1
    d2 = d2
    p1 = p1
    p2 = p2
    k1 = k1
    k2 = k2
    k3 = k3
    b1 = b1
    b2 = b2
    sales = sales
    legal = legal
    all = all
INVARIANTS
    TypeOK
    ResponsesAgreeWithLog
    ReferencesAreSound
    ContextIsAccounted
PROPERTIES
    LogIsFinal
    EveryCallEnds
CHECK_DEADLOCK FALSE
