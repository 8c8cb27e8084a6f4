SPECIFICATION Spec
CONSTANTS
    NewIntraDelay = 3
    MaxInflight = 3
    MaxId = 5
    MaxDisruptions = 1
    SlowSender = FALSE
PROPERTY ResetIsAnswered
CHECK_DEADLOCK FALSE
