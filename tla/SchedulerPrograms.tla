-------------------------- MODULE SchedulerPrograms --------------------------
(***************************************************************************)
(* Programs for MemoryScheduler.  Each brings in an input and the weights  *)
(* of three layers and takes out a result; they differ in how the layers   *)
(* are connected, in the sizes of the buffers and in the memory there is.  *)
(***************************************************************************)
EXTENDS MemoryScheduler

\* An operation depends on what wrote its inputs, on what it reads through DDR,
\* and a compute operation on the one before it in its queue (linearizeComputeOps).
DepsOf(queue, ins, outs, ddr) ==
  [i \in DOMAIN queue |->
    {j \in 1 .. i - 1 : outs[j] \cap ins[i] # {}} \cup ddr[i]
    \cup (IF queue[i] \in {"DPU", "SHAVE_ACT"}
          THEN LET before == {j \in 1 .. i - 1 : queue[j] = queue[i]}
               IN  IF before = {} THEN {} ELSE {Max(before)}
          ELSE {})]

Options(memory, ports, active) ==
  [concat |-> {}, dequantize |-> {}, segmented |-> {}, strided |-> {}, nested |-> {},
   memory |-> memory, ports |-> ports, activelySpill |-> active]

Program(queue, ins, outs, ddr, cost, size, o) ==
  [queue |-> queue, ins |-> ins, outs |-> outs, cost |-> cost, size |-> size,
   deps |-> DepsOf(queue, ins, outs, ddr), concat |-> o.concat, dequantize |-> o.dequantize,
   segmented |-> o.segmented, strided |-> o.strided, nested |-> o.nested,
   memory |-> o.memory, ports |-> o.ports, activelySpill |-> o.activelySpill]

NoDDR == [i \in 1 .. 14 |-> {}]
Costs == <<1, 1, 2, 1, 2, 1, 2, 1>>
LayerQueues(q1, q2, q3) ==
  <<"DMA_DDR", "DMA_DDR", q1, "DMA_DDR", q2, "DMA_DDR", q3, "DMA_CMX">>

\* What runs the second and the third layer.
LaterLayers == {<<"DPU", "DPU">>, <<"SHAVE_ACT", "DPU">>, <<"SHAVE_ACT", "SHAVE_ACT">>}

\* Operations 2, 4 and 6 bring in the weights of the layers 3, 5 and 7.  A layer
\* reads its weights and some of the activations before it.
Layers(q, in2, in3, size, o) ==
  Program(LayerQueues("DPU", q[1], q[2]),
          <<{}, {}, {1, 2}, {}, in2 \cup {4}, {}, in3 \cup {6}, {7}>>,
          <<{1}, {2}, {3}, {4}, {5}, {6}, {7}, {}>>, NoDDR, Costs, size, o)

LayerPrograms ==
  {Layers(q, in2, in3, size, Options(memory, 1, active)) :
     q \in LaterLayers,
     in2 \in {{1}, {1, 3}, {3}}, in3 \in {{5}, {1, 5}, {1, 3, 5}},
     size \in {<<a, w, a, w, b, w, b>> : a \in 1 .. 2, b \in 1 .. 2, w \in {1, 3}},
     memory \in {5, 7}, active \in BOOLEAN}

\* Layers 3 and 5 write two parts of buffer 3, which layer 7 reads; the views may be nested.
Concats ==
  {Program(LayerQueues("DPU", q2, "DPU"),
           <<{}, {}, {1, 2}, {}, {1, 4}, {}, {3, 5}, {6}>>,
           <<{1}, {2}, {3}, {4}, {3}, {5}, {6}, {}>>, NoDDR, Costs, size,
           [Options(memory, ports, active) EXCEPT
              !.concat = concat, !.segmented = {1, 3}, !.nested = nested]) :
     nested \in {{}, {3}}, q2 \in ComputeQueues, size \in {<<a, w, a, w, w, 1>> : a \in 1 .. 2, w \in 1 .. 3},
     memory \in 5 .. 7, ports \in 1 .. 2, active \in BOOLEAN, concat \in {{}, {3}}}

\* The result of layer 3 goes to DDR (4) and comes back (5) for layer 7; a kernel (2)
\* dequantizes the weights of layer 3.
RoundTrips ==
  {Program(<<"DMA_DDR", "SHAVE_ACT", "DPU", "DMA_CMX", "DMA_DDR", "DMA_DDR", "DPU", "DMA_CMX">>,
           <<{}, {1}, {1, 2}, {3}, {}, {}, in3 \cup {4, 5}, {6}>>,
           <<{1}, {2}, {3}, {}, {4}, {5}, {6}, {}>>,
           [NoDDR EXCEPT ![5] = {4}], Costs, size,
           [Options(memory, ports, active) EXCEPT !.dequantize = {2}]) :
     in3 \in {{}, {1}, {2}, {3}}, size \in {<<a, w, a, a, w, b>> : a \in 1 .. 2, b \in 1 .. 2, w \in 1 .. 3},
     memory \in 4 .. 6, ports \in 1 .. 2, active \in BOOLEAN}

\* The data operations come first in the IR (1 .. 4), then the layers 5, 6 and 7, so
\* that everything may be prefetched.  Operations 1 and 2 may bring in two parts of
\* the input, 3 and 4 two parts of the weights of layer 6; operation 3 may be slow.
Hoisted ==
  {Program(<<"DMA_DDR", "DMA_DDR", "DMA_DDR", "DMA_DDR", "DPU", q[1], q[2], "DMA_CMX">>,
           <<{}, {}, {}, {}, {1, data[2]}, in2 \cup {3}, in3 \cup {data[4]}, {7}>>,
           <<{1}, {data[2]}, {data[3]}, {data[4]}, {5}, {6}, {7}, {}>>, NoDDR, cost, size,
           Options(memory, 1, active)) :
     q \in LaterLayers,
     data \in {<<1, 2, 3, 4>>, <<1, 1, 3, 4>>, <<1, 2, 3, 3>>, <<1, 3, 4, 4>>},
     cost \in {<<1, 1, 1, 1, 1, 1, 1, 1>>, <<1, 1, 3, 1, 2, 2, 2, 1>>},
     in2 \in {{1}, {5}}, in3 \in {{6}, {5, 6}},
     size \in {<<a, b, w[1], w[2], a, 1, b>> :
                  a \in 1 .. 2, b \in 1 .. 2, w \in {<<1, 3>>, <<3, 1>>, <<3, 3>>}},
     memory \in {6, 8}, active \in BOOLEAN}

\* Buffer 2 is written in two parts and evicted more than once.
Reused ==
  {Program(<<"DMA_DDR", "DMA_DDR", "DMA_DDR", "SHAVE_ACT", "DMA_DDR", "DPU", "DMA_DDR",
             "SHAVE_ACT", "DMA_CMX">>,
           <<{}, {}, {}, {1, 2}, {}, {1, 3, 4}, {}, {3, 5, 6}, {7}>>,
           <<{1}, {2}, {2}, {3}, {4}, {5}, {6}, {7}, {}>>, NoDDR, cost,
           <<2, 1, 1, 2, 2, 1, 3>>, Options(memory, 1, active)) :
     cost \in {<<1, 1, 1, 1, 1, 1, 1, 1, 1>>, <<1, 1, 1, 2, 1, 2, 1, 2, 1>>},
     memory \in 6 .. 7, active \in BOOLEAN}

\* Two chains of layers, the results of which are moved to make room for each other.
TwoChains ==
  {Program(<<"DMA_DDR", "DMA_DDR", "DMA_DDR", "DMA_DDR", "DPU", "DPU", "SHAVE_ACT",
             "SHAVE_ACT", "DPU", "DMA_CMX", "DMA_CMX">>,
           <<{}, {}, {}, {}, {1, 2}, {3, 5}, {4}, {7}, {6}, {8}, {9}>>,
           <<{1}, {2}, {3}, {4}, {5}, {6}, {7}, {8}, {9}, {}, {}>>, NoDDR,
           <<1, 1, 2, 1, 1, 2, 2, 2, 2, 2, 2>>, <<2, 1, 4, 4, 1, 1, 1, 3, 2>>,
           Options(memory, 1, active)) :
     memory \in 7 .. 8, active \in BOOLEAN}
  \cup
  {Program(<<"DMA_DDR", "DMA_DDR", "DMA_DDR", "DMA_DDR", "DMA_DDR", "DMA_DDR", "SHAVE_ACT",
             "SHAVE_ACT", "SHAVE_ACT", "DPU", "DPU", "DPU", "DMA_CMX", "DMA_CMX">>,
           <<{}, {}, {}, {}, {}, {}, {4}, {5, 7}, {6, 8}, {1, 2}, {3, 10}, {11}, {9}, {12}>>,
           <<{1}, {2}, {3}, {4}, {5}, {6}, {7}, {8}, {9}, {10}, {11}, {12}, {}, {}>>, NoDDR,
           <<1, 1, 2, 1, 1, 1, 1, 1, cost, 1, 1, 1, 1, 1>>,
           <<2, 1, 4, 1, 2, 4, 1, 2, 1, 1, 1, 1>>, Options(memory, 1, active)) :
     cost \in 1 .. 2, memory \in 7 .. 9, active \in BOOLEAN}

\* Layers 3, 4 and 5 on two executors read what operation 1 brings in; layer 4 may
\* be slow.
SharedInput(slow) ==
  {Program(<<"DMA_DDR", "DMA_DDR", "DPU", "DPU", "SHAVE_ACT", "DPU", "DMA_CMX">>,
           <<{}, {}, {1}, {3}, {3}, {2, 4, 5}, {6}>>, <<{1}, {2}, {3}, {4}, {5}, {6}, {}>>,
           NoDDR, <<1, 1, 1, slow, 1, 1, 1>>, <<1, 3, a, 1, b, 1>>, Options(memory, 1, active)) :
     a \in 1 .. 3, b \in 1 .. 3, memory \in 6 .. 8, active \in BOOLEAN}

MCPrograms ==
  LayerPrograms \cup Concats \cup RoundTrips \cup Hoisted \cup Reused \cup TwoChains
  \cup SharedInput(1)
=============================================================================
