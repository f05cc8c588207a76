SPECIFICATION Spec
CONSTANTS
    Accounts = {ola, jan}
    LockAfter = 1
    MaxTime = 2
    MaxVersion = 1
    MaxSignIns = 2
    Skews = {1, 3}
    PlanSize = 2
    MaxSwitches = 1
SYMMETRY Symmetry
CONSTRAINT Bounded
INVARIANTS NoPeekAfterAbsence WidgetFollows NoStrayReminders
CHECK_DEADLOCK FALSE
