SPECIFICATION SetupSpec
CONSTANTS
    Phones = {ola, jan}
    MaxAnswered = 4
    MaxSent = 2
    MaxLost = 1
    MaxRestarts = 1
SYMMETRY Alike
INVARIANTS AnswersAreShown SetUpIsASuccess
CHECK_DEADLOCK FALSE
