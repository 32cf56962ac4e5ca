SPECIFICATION Spec
CONSTANTS
    ListIDs = {l1}
    Shards = {s1, s2}
    Issuers = {i1}
    Keys = {"a"}
    Sizes = {1}
    Index <- MCIndex
    Null = Null
    MaxExpiry = 0
    Grace = 1
    Retention = 1
    DBRetention = 1
    MaxTime = 3
    Bits = 8
    MaxVersion = 0
    Requests = {r1}
    Loops = {}
    ShardOf <- OneShard
    Width = 1
    Capacity = 1
    MaxAge = 0
    MaxAttempts = 2
    Sweepers = {s1, s2}
    SweeperShard <- OwnShard
    Noisers = {}
    NoiserShard <- Replicas
INVARIANT PurgedMeansDropped
