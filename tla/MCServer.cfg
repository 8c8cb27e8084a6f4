SPECIFICATION MCSpec
CONSTANTS
    Loopers = {}
    Visitors = {dbus}
    MaxConnections = 2
    UdpWait = 1
    TcpWait = 1
    ServerUdpWait = 10
    ServerTcpWait = 2
    ReplyWait = 1000
    InitWait = 2000
    RetryPause = 2
    MaxAttempts = 6
    PongWait = 5
    PingWait = 10
    TimeToExit = 120
    MaxOutages = 2
    OutageTicks = 12
INVARIANT ClientLockIsSafe
PROPERTIES ShutdownEnds SessionIsKept
