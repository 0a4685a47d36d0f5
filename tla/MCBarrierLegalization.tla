------------------------- MODULE MCBarrierLegalization -------------------------
EXTENDS BarrierLegalization, BarrierSchedules
CONSTANTS MCTasks, MCBarriers, MCUsers, MCWaits
MCPrograms ==
  Schedules(MCTasks, MCBarriers - 1, MCUsers, MCWaits, NumFifos, {1, 2}, 2, NumPids \div 2)
  \cup Schedules(MCTasks, MCBarriers, MCUsers, MCWaits, NumFifos, {1, 2}, 2, NumPids \div 2)
=============================================================================
