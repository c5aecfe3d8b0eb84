SPECIFICATION ResearchSpec
CONSTANTS
    Questions = {q1}
    Urls = {a, b, c, d}
    WebPools <- MCWebPools
    MaxFetches = 3
    MaxNew = 1
    PoolCap = 2
    MaxFollowups = 1
    Batch = 2
    SlotTtl = 0
    RefineTtl = 0
    CacheTtl = 0
    NoKey = NoKey
    NoSlot = NoSlot
    NoRow = NoRow
INVARIANTS
    MarkersOK
    FollowupsBounded
PROPERTY
    RefineExtendsWhatItRead
SYMMETRY MCPages
CHECK_DEADLOCK FALSE
