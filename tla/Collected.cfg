SPECIFICATION CollectorSpec
CONSTANTS
    ListIDs = {l1, l2}
    Shards = {s1}
    Issuers = {i1}
    Keys = {"a"}
    Sizes = {1}
    Index <- MCIndex
    Null = Null
    MaxExpiry = 1
    Grace = 1
    Retention = 1
    DBRetention = 1
    MaxTime = 3
    Bits = 8
    MaxVersion = 0
    Sweepers = {s1}
    SweeperShard <- OwnShard
    LastArrival = 1
PROPERTY Collected
