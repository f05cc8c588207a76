SPECIFICATION SessionsFairSpec
CONSTANTS
    Requests = {r1, r2, r3}
    Tokens = {t1, t2, t3}
    Passwords = {p1}
    None = None
CHECK_DEADLOCK FALSE
INVARIANT OneHeadPerFamily
INVARIANT OneHeir
PROPERTY OverStaysOver
PROPERTY EveryRequestEnds
