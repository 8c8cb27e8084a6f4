SPECIFICATION Spec
CONSTANTS
  QueueSize = 2
  NetSize = 2
  MaxPings = 1
  ClientSends = 2
  ServerSends = 1
INVARIANTS NoPacketStranded
PROPERTIES ChannelSpec ClosingEnds
CHECK_DEADLOCK FALSE
