CONSTANTS
  small = small
  large = large
  None = None
  Attrs = {small, large}
  Size <- MCSize
  Configs <- RoomyOnly
  MemoryWrap = 64
  MaxRequests = 2
SPECIFICATION FairSpec
PROPERTIES
  EveryRequestServed
CHECK_DEADLOCK FALSE
