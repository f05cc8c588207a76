SPECIFICATION FairSpec
CONSTANTS
    Attempts = {a1, a2}
    Keys = {k1}
    NoKey = NoKey
    Bodies = {b1, b2}
    TTL = 2
    MaxClock = 4
CHECK_DEADLOCK FALSE
INVARIANT AtMostOncePerLifetime
INVARIANT AnswersAreBacked
PROPERTY EveryAttemptSettles
PROPERTY ImplementsPromise
