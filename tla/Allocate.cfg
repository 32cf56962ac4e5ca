SPECIFICATION Spec
CONSTANTS
    ListIDs = {l1, l2, l3}
    Shards = {s1}
    Issuers = {i1}
    Keys = {"a"}
    Sizes = {1}
    Index <- MCIndex
    Null = Null
    MaxExpiry = 0
    Grace = 1
    Retention = 1
    DBRetention = 1
    MaxTime = 1
    Bits = 8
    MaxVersion = 0
    Requests = {r1, r2}
    Loops = {}
    ShardOf <- OneShard
    Width = 1
    Capacity = 1
    MaxAge = 1
    MaxAttempts = 2
    Sweepers = {}
    SweeperShard <- OwnShard
    Noisers = {}
    NoiserShard <- Replicas
SYMMETRY Symmetry
INVARIANTS
    TypeOK
    RetryNeverRepeats
    PoolOvershootBounded
