CONSTANTS
  Programs <- MCPrograms
  BarrierLimit = 8
  PrefetchingLevelLimit = 35
  MaxEvents = 40
  Thresholds = {0, 10000}
SPECIFICATION FairPassSpec
INVARIANTS
  TypeOK
  MemoryMatchesAlive
  OpsFollowDeps
  UsesFindTheirData
  FailsOnlyWithoutRoom
  PassNeverThrows
  ConflictsOrdered
  DataArrives
  FinalScheduleComplete
PROPERTIES
  RollbackIsExact
  SchedulerTerminates
  OptimizationKeepsOrder
