CONSTANTS
  one = one
  two = two
  three = three
  pinned = pinned
  None = None
  TotalSize = 6
  Ranges = {one, two, three, pinned}
  Size <- MCSize
  Alignment <- MCAlignment
  FixedAddr <- MCFixedAddr
  SpillWeight <- MCSpillWeight
  Reserved <- MCReserved
  Regions <- MCRegions
  ReservedSpaces <- MCReservedSpaces
  MaxRequest = 2
  AllowSpills = {FALSE, TRUE}
  SpillAnswers = {FALSE, TRUE}
SPECIFICATION FairSpec
INVARIANTS
  TypeOK
  LiveRangesDisjoint
  SuccessKeepsOthers
  NoTraceLeft
PROPERTIES
  UsesPartitioner
  CallReturns
CHECK_DEADLOCK FALSE
