SPECIFICATION MCSpec
CONSTANTS
    Cursors = {1, 2, 3, 4}
    Pngs = {1, 2, 3}
    MaxEntries = 2
    MaxId = 4
    DecoderMayFail = FALSE
    Window = 2
    MaxFiles = 2
    MaxPieces = 2
    MaxReconnects = 1
    Threads = {video, audio, nacks}
    Sizes = {1, 3}
    PacketMax = 3
    Buckets = {1, 4}
    Starting = 4
    Width = 64
    MaxTickets = 4
    MaxChanges = 1
INVARIANTS FilesArriveWhole ThrottlingIsSound CachesAgree ShowsCapturedCursor
PROPERTIES DropsSettle EveryTicketIsServed
CHECK_DEADLOCK FALSE
