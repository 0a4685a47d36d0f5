CONSTANTS
  small = small
  large = large
  None = None
  Attrs = {small, large}
  Size <- MCSize
  Configs <- EachConfig
  MemoryWrap = 64
  MaxRequests = 4
SPECIFICATION FairSpec
INVARIANTS
  TypeOK
  ActiveTasksBounded
  MemoryMatchesCache
  FoldedStaysCached
PROPERTIES
  EveryTaskFinishes
CHECK_DEADLOCK FALSE
