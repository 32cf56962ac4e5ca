SPECIFICATION Spec
CONSTANTS
    ListIDs = {l1}
    Shards = {s1}
    Issuers = {i1}
    Keys = {"a"}
    Sizes <- MCSizes
    Index <- MCIndex
    Null = Null
    MaxExpiry = 0
    Grace = 1
    Retention = 1
    DBRetention = 1
    MaxTime = 0
    Bits = 2
    MaxVersion = 3
    Requests = {r1, r2}
    Loops = {}
    ShardOf <- OneShard
    Width = 1
    Capacity = 2
    MaxAge = 1
    MaxAttempts = 2
    Sweepers = {}
    SweeperShard <- OwnShard
    Noisers = {}
    NoiserShard <- Replicas
INVARIANT GrantedReadsOwnersWrite
