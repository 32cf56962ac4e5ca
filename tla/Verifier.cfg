SPECIFICATION MCSpec
CONSTANTS
    ListIDs = {l1}
    List = l1
    Shards = {s1}
    Issuers = {i1}
    Keys = {"a"}
    Sizes = {1}
    Index <- MCIndex
    Null = Null
    MaxExpiry = 0
    Grace = 0
    Retention = 1
    DBRetention = 1
    MaxTime = 2
    Writers = {w1}
    Readers = {r1, r2}
    Processes = {v1}
    ProcessOf <- OneProcess
    NoToken = NoToken
    MaxWrites = 1
    MaxScripts = 1
INVARIANTS
    ServedUntilRetired
    GoneForGood
SYMMETRY Symmetry
PROPERTY ImplementsFeed
