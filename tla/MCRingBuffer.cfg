SPECIFICATION MCSpec
CONSTANTS
    Type = "video"
    Size = 2
    MaxId = 5
    Original <- MixedOriginal
    Fec <- MixedFec
    TooLarge <- LargeFec
    MaxDelay = 2
    InitialFrames = 2
    ScanSlack = 0
    NackBehind = 5
    OtherSize = 3
    MaxAudioId = 6
    MaxGpuId = 5
    OtherDelay = 3
INVARIANTS NoAbort PendingCountExact OtherCountsExact
PROPERTIES PlaysInOrder StreamsPlayOn
CHECK_DEADLOCK FALSE
