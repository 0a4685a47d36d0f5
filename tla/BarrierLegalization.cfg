CONSTANTS
  NumPids = 2
  NumFifos = 2
  ProducerSlots = 10
  TotalSlots = 16
  PartialWlm = TRUE
  MCTasks = 4
  MCBarriers = 3
  MCUsers = 3
  MCWaits = 2
  Programs <- MCPrograms
  Modes = {"dynamic", "wlm"}
SPECIFICATION LegalSpec
INVARIANTS
  NeverThrows
  VerdictIsExact
  BatchesExceedLimit
PROPERTY LegalizationTerminates
CHECK_DEADLOCK FALSE
