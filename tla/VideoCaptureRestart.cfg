SPECIFICATION Spec
CONSTANTS
    Gpu = TRUE
    Sizes = {1, 2}
    Resizes = 1
    Starts = 1
    Changes = 0
    Resets = 1
    Faults = 0
INVARIANTS RestartIsKept
CHECK_DEADLOCK FALSE
