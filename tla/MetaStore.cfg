SPECIFICATION MetaSpec
CONSTANTS
    ListIDs = {l1, l2}
    Shards = {s1}
    Issuers = {i1}
    Keys = {"a", "b"}
    Sizes <- MCSizes
    Index <- MCIndex
    Null = Null
    MaxExpiry = 1
    Grace = 1
    Retention = 1
    DBRetention = 1
    MaxTime = 3
INVARIANTS
    MetaTypeOK
    CursorMatchesAllocations
    StuckOnlyBehindWalk
    NoDoubleAllocation
    UsageNeverDrifts
    RetiredInOrder
PROPERTIES
    OnlyMovesForward
    KeptUntilRetired
