SPECIFICATION MCSpec
CONSTANTS
    Readers = {r1, r2, r3}
    Writers = {w1, w2}
    Screens = {11, 16}
    Links = {7}
    Losses = {0}
    Delays = {"over"}
    Latencies = {"low"}
    SevereWait = 1
    UpdateWait = 2
    StuckWait = 3
    NetSize = 2
    MaxOps = 1
    MaxSevere = 1
    MaxResizes = 1
    MaxConnections = 1
    MaxSettingsLosses = 1
    MaxFaults = 1
    Window = 11
    Link = 20
    AllLosses = {0, 20}
    AllDelays = {"over", "under", "none"}
    AllLatencies = {"low", "raised", "high", "very high"}
    Rates = 3
    SevereSignals = 1
INVARIANT BurstsMatch
CHECK_DEADLOCK FALSE
