SPECIFICATION Spec
CONSTANTS
    FirstMonth <- January2023
    LastMonth <- March2025
    FirstWeekday = 0
    StartDays <- Days1And10And28
    Cadences <- SevenCadences
    CreationDays <- LateJanuaryAndFebruary
    LastToday <- LateMarch
    MaxChanges = 2
    Openings <- MCOpenings
    Stories <- MCStories
    TrackedFrom <- MCTrackedFrom
CHECK_DEADLOCK FALSE
INVARIANT OccurrencesAreExact
PROPERTY RebaseKeepsPayments
INVARIANT SubscriptionIsFound
INVARIANT ForecastIsCautious
INVARIANT CutsMakeUp
