CONSTANTS
  small = small
  large = large
  None = None
  Attrs = {small, large}
  Size <- MCSize
  Configs <- OverflowingOnly
  MemoryWrap = 64
  MaxRequests = 3
SPECIFICATION Spec
INVARIANTS
  ReferencesStayValid
CHECK_DEADLOCK FALSE
