-------------------------- MODULE MCBarrierSimulator --------------------------
EXTENDS BarrierSimulator, BarrierSchedules
CONSTANTS MCTasks, MCBarriers, MCUsers, MCWaits
\* The second set has two barriers in one page, too many for two PIDs.
MCPrograms ==
  Schedules(MCTasks, MCBarriers, MCUsers, MCWaits, NumFifos, {1, 2}, 2, NumPids \div 2)
  \cup Schedules(2, 1, 2, 1, NumFifos, {1, 2}, 2, NumPids)
=============================================================================
