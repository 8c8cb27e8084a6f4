SPECIFICATION MCSpec
CONSTANTS
    Type = "video"
    Size = 2
    MaxId = 3
    Original <- SingleOriginal
    Fec <- NoFec
    TooLarge <- ExactlyFull
    MaxDelay = 2
    InitialFrames = 2
    ScanSlack = 10
    NackBehind = 5
    OtherSize = 3
    MaxAudioId = 6
    MaxGpuId = 5
    OtherDelay = 3
INVARIANT NoAbort
CHECK_DEADLOCK FALSE
