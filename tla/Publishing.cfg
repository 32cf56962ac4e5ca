SPECIFICATION PublishingSpec
CONSTANTS
    Floor = 2
    Null = Null
    MaxStarting = 2
    Writers = {w1}
    Readers = {poll, f1}
    Poll = poll
    Processes = {s1}
    ProcessOf <- OneProcess
    NoToken = NoToken
    MaxWrites = 3
INVARIANT Scheduled
PROPERTIES
    FloorRespected
    EveryTriggerFires
    NeverLeftStale
