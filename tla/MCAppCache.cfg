SPECIFICATION Spec
CONSTANTS
    Expenses = {e1, e2}
    Submits = {1, 2, 3}
    Changes = {c1}
    MaxFaults = 2
    MaxRefetches = 1
    MaxMounted = 1
SYMMETRY Symmetry
CONSTRAINT Bounded
INVARIANTS ScreenSettles NumbersAreCurrent UndoHolds
CHECK_DEADLOCK FALSE
