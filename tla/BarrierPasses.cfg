CONSTANTS
  NumPids = 2
  NumFifos = 2
  ProducerSlots = 4
  TotalSlots = 6
  PartialWlm = TRUE
  MCTasks = 4
  MCBarriers = 3
  MCUsers = 3
  MCWaits = 2
  Programs <- MCPrograms
  Modes = {"dynamic", "wlm", "pages"}
SPECIFICATION PassSpec
INVARIANTS
  AssignedMappingValidates
  WlmPidReuseIsOrdered
PROPERTY ValidatedScheduleRuns
CHECK_DEADLOCK FALSE
