SPECIFICATION MCSpec
CONSTANTS
    MaxVideo = 2
    MaxAudio = 2
    MaxDrops = 1
    MaxErrors = 1
    MaxAlerts = 1
    Targets = {2, 4}
    MaxFrames = 6
    MaxRing = 6
    MaxAdjusts = 1
    MaxRefreshes = 1
    software_decode_type = 2
    Sizes = {small, large}
    MaxDecoded = 4
    MaxFailures = 1
INVARIANT RendererIsDone
CHECK_DEADLOCK FALSE
