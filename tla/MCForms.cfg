SPECIFICATION FormsSpec
CONSTANTS
    Devices = {ola, jan}
    MaxOpened = 2
    MaxTyped = 2
    MaxFaults = 1
    MaxSaves = 2
SYMMETRY Alike
INVARIANTS EditsMeet CreatedOnce
CHECK_DEADLOCK FALSE
