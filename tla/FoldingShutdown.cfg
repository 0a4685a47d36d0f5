CONSTANTS
  small = small
  large = large
  None = None
  Attrs = {small, large}
  Size <- MCSize
  Configs <- RoomyOnly
  MemoryWrap = 64
  MaxRequests = 2
SPECIFICATION Spec
INVARIANTS
  CacheOutlivesTasks
CHECK_DEADLOCK FALSE
