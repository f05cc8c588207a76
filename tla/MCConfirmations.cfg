SPECIFICATION FairSpec
CONSTANTS
    Requests = {r1, r2}
    RowIds = {e1, e2}
    Rules = {rent, gym}
    Occurrences = {1}
    MaxDay = 2
    PatchDates = {1, 2}
    None = None
CHECK_DEADLOCK FALSE
INVARIANT PaidOnce
PROPERTY AskedAgain
