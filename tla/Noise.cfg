SPECIFICATION Spec
CONSTANTS
    ListIDs = {l1}
    Shards = {s1}
    Issuers = {i1}
    Keys = {"a"}
    Sizes = {1}
    Index <- MCIndex
    Null = Null
    MaxExpiry = 0
    Grace = 1
    Retention = 1
    DBRetention = 1
    MaxTime = 1
    Bits = 2
    MaxVersion = 1
    Requests = {r1}
    Loops = {p1}
    ShardOf <- OneShard
    Width = 1
    Capacity = 1
    MaxAge = 1
    MaxAttempts = 1
    Sweepers = {}
    SweeperShard <- OwnShard
    Noisers = {n1, n2}
    NoiserShard <- Replicas
SYMMETRY NoiserSymmetry
INVARIANTS
    NoDecoyRaceOnceFrozen
    GrantedReadsOwnersWrite
PROPERTY RevokedDecoyStays
