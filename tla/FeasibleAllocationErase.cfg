CONSTANTS
  Programs <- TwoRelocations
  BarrierLimit = 8
  PrefetchingLevelLimit = 35
  MaxEvents = 40
  Thresholds = {0, 10000}
SPECIFICATION PassSpec
INVARIANTS
  FinalScheduleComplete
