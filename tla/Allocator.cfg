SPECIFICATION Spec
CONSTANTS
    N = 5
    RoundFunctions <- MCRoundFunctions
    HalfXor <- MCXor
    MaxCycleWalks = 5
    Null = Null
    Error = Error
INVARIANTS
    NoCollision
    WalkNeverRepeats
CHECK_DEADLOCK FALSE
