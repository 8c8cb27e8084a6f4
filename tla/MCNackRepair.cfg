SPECIFICATION RepairSpec
CONSTANTS
  MaxFrame = 3
  Segments = 2
  Buffers = 2
  MaxNacks = 2
  NackBehind = 1
  Unordered = 1
  Recovery = {1, 3}
  MaxLosses = 2
INVARIANTS NacksAreAnswerable
PROPERTIES RepairCompletes
CHECK_DEADLOCK FALSE
