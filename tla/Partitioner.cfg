CONSTANTS
  TotalSize = 11
  Sizes = {1, 2, 3}
  Alignments = {1, 2, 4}
SPECIFICATION Spec
INVARIANTS
  TypeOK
  GapsSeparated
  MemoryPartitioned
  AllocFindsRoom
CHECK_DEADLOCK FALSE
