SPECIFICATION FairSpec
CONSTANTS
    Requests = {r1, r2, r3}
    Kinds <- Everything
    Faults <- AllFaults
    MaxPair = 7
    None = None
CHECK_DEADLOCK FALSE
INVARIANT NoFalseAlarm
INVARIANT RetryIsFresh
PROPERTY EveryCallSettles
