------------------------- MODULE MCFeasibleAllocation -------------------------
EXTENDS FeasibleAllocation, SchedulerPrograms

\* Layer 4 still reads what operation 1 brought in when its memory is needed.
LateUser == SharedInput(6)

\* Two chains of layers in little memory, the results of two of which are moved.
TwoRelocations ==
  {Program(<<"DMA_DDR", "DMA_DDR", "DMA_DDR", "DMA_DDR", "DMA_DDR", "SHAVE_ACT", "SHAVE_ACT",
             "DPU", "DPU", "DPU", "DMA_CMX", "DMA_CMX">>,
           <<{}, {}, {}, {}, {}, {4}, {5, 6}, {1, 2}, {3, 8}, {9}, {7}, {10}>>,
           <<{1}, {2}, {3}, {4}, {5}, {6}, {7}, {8}, {9}, {10}, {}, {}>>, NoDDR,
           <<1, 1, 1, 1, 1, 1, 1, 2, cost, 1, 1, 1>>, <<2, 1, 4, 4, 5, 1, 1, 1, 1, 1>>,
           Options(memory, 1, active)) : cost \in 1 .. 2, memory \in 7 .. 9, active \in BOOLEAN}
=============================================================================
