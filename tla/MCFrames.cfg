SPECIFICATION MCSpec
CONSTANTS
    NewIntraDelay = 3
    MaxInflight = 3
    MaxId = 5
    MaxDisruptions = 1
    SlowSender = FALSE
    PacketSizes = {0, 2, 9, 11, 13}
    MaxPayload = 2
    Ratios = {20, 50}
    RS_FIELD_SIZE = 5
    max_group_size = 5
    max_group_overhead = 2
    BlockLength = 3
    Keys = {57, 80, 226, 228}
    OsTypes = {"apple", "linux"}
    MaxEvents = 3
    MaxPinches = 1
    MaxQueued = 1
    MaxMessage = 4
    MaxRaces = 1
    MaxConnects = 1
    MaxSpecials = 1
INVARIANTS PlayableIsDecodable GoodReferenceIsHeld DecodingIsSound KeyboardFollows
CHECK_DEADLOCK FALSE
