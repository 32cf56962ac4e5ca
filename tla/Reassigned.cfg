SPECIFICATION EndpointSpec
CONSTANTS
    s1 = s1
    s2 = s2
    Issuers = {i1, i2}
    Shards = {s1, s2}
    Credentials = {c1}
    SHARDS <- MCShards
    HashOf <- MCHash
    Backends = {s1, s2}
    Requests = {r1, r2}
    Legacy = {}
    TargetLists <- MCTargets
    MaxTokens = 2
    Null = Null
    Keys = {k1, k2}
    PDP = TRUE
INVARIANT AllocatedUnaffected
