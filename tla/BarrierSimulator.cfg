CONSTANTS
  NumPids = 2
  NumFifos = 2
  ProducerSlots = 3
  TotalSlots = 5
  PartialWlm = TRUE
  MCTasks = 4
  MCBarriers = 2
  MCUsers = 3
  MCWaits = 2
  Programs <- MCPrograms
  Modes = {"dynamic", "wlm", "pages", "static"}
SPECIFICATION FairSpec
INVARIANTS
  TypeOK
  MappingsAgree
  RingHoldsFreePids
  TaskBarriersProgrammed
  SlotsBalance
PROPERTY Terminates
CHECK_DEADLOCK FALSE
