SPECIFICATION MCSpec
CONSTANTS
    Gpu = TRUE
    Sizes = {1, 2}
    Resizes = 2
    Starts = 0
    Changes = 0
    Resets = 0
    Faults = 1
    FewResizes = 1
    ManyResizes = 3
INVARIANTS CaptureIsSound
PROPERTIES RequestsAreAnswered
CHECK_DEADLOCK FALSE
