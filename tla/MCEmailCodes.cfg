SPECIFICATION Spec
CONSTANTS
    Requests = {r1, r2, r3, r4}
    Codes = {c1, c2}
    Purposes <- VerificationAndChange
    Addresses = {home, a}
    Home = home
    MaxAttempts = 1
    ResendAfter = 1
    TTL = 2
    MaxTime = 2
    None = None
SYMMETRY Symmetry
CHECK_DEADLOCK FALSE
INVARIANT RedeemedOnce
INVARIANT EveryWrongGuessCounts
INVARIANT ConfirmedAddressWasReached
