---------------------------- MODULE MemoryScheduler ----------------------------
(***************************************************************************)
(* vpux::FeasibleMemoryScheduler (feasible_memory_scheduler.cpp): a list   *)
(* scheduler that gives every operation of a program a cycle and every     *)
(* buffer an address in NN_CMX.  Operations that only bring data in (data  *)
(* operations) are scheduled with the compute operation that needs them,   *)
(* or before it if there is room (prefetching).  When nothing fits, a      *)
(* buffer is evicted: a spill write copies it to DDR, a spill read brings  *)
(* it back, to any address, when an operation needs it.                    *)
(*                                                                         *)
(* A program has operations 1 .. n in IR order, and buffers 1 .. k in IR   *)
(* order.  The queues are those of an NPU with one DMA channel for data in *)
(* DDR and one for data in NN_CMX.  Loop regions are left out.             *)
(***************************************************************************)
EXTENDS GapLists, FiniteSetsExt, SequencesExt

CONSTANTS
  Programs,               \* the programs scheduled, with what runs them
  BarrierLimit,           \* _barrierPerCluster * _nceClusterCount
  PrefetchingLevelLimit,  \* _prefetchingLevelLimit
  MaxEvents               \* bound: the entries of a schedule

VARIABLES
  prog,          \* the program: AsyncDepsInfo, MemLiveRangeInfo and the options
  isDataOp,      \* _isDataOp, a set
  opLevel,       \* _opLevelVec
  pc,            \* where schedulingLoop is
  m,             \* what scheduling an operation changes, see Fresh below
  readyDMA,      \* _readyDMAOps
  inDegree,      \* _inDegreeTable; 0 for an operation that was ready
  computeOrder,  \* _computeOpOrder
  endHeap,       \* _cycleEndHeap
  users,         \* MemLiveRangeInfo: the users of a buffer that have not ended
  outputOps,     \* _outputOps
  scheduled,     \* _scheduledOps
  call,          \* the local variables of scheduleComputeOps and prefetchOps
  prefetchSpill, \* _evictionCandidateToSupportPrefetch while
                 \* _prefetchFailedDueToFragmentation holds, or NoCandidate
  candidates,    \* _evictionCandidatesCache
  failed         \* a VPUX_THROW was met

vars == <<prog, isDataOp, opLevel, pc, m, readyDMA, inDegree, computeOrder, endHeap, users,
          outputOps, scheduled, call, prefetchSpill, candidates, failed>>
tables == <<prog, isDataOp, opLevel>>

-----------------------------------------------------------------------------
(***************************************************************************)
(* The program.                                                            *)
(***************************************************************************)
DMAQueues == {"DMA_DDR", "DMA_CMX"}
ComputeQueues == {"DPU", "SHAVE_ACT"}
Queues == DMAQueues \cup ComputeQueues

Ops == DOMAIN prog.queue
Buffers == DOMAIN prog.size
Deps(i) == prog.deps[i]
Consumers(i) == {j \in Ops : i \in Deps(j)}
UsedBuffers(i) == prog.ins[i] \cup prog.outs[i]
IsCompute(i) == prog.queue[i] \in ComputeQueues

\* What the IR gives the scheduler.  An operation depends on operations before it,
\* among them one that writes each buffer it reads; a DMA from DDR reads no buffer
\* of NN_CMX.
IsProgram(p) ==
  /\ p.queue \in Seq(Queues) /\ p.size \in Seq(Nat \ {0})
  /\ p.ins \in [DOMAIN p.queue -> SUBSET DOMAIN p.size]
  /\ p.outs \in [DOMAIN p.queue -> SUBSET DOMAIN p.size]
  /\ p.cost \in [DOMAIN p.queue -> Nat]
  /\ p.deps \in [DOMAIN p.queue -> SUBSET DOMAIN p.queue]
  /\ p.memory \in Nat \ {0} /\ p.ports \in Nat \ {0}
  /\ \A i \in DOMAIN p.queue :
       /\ \A d \in p.deps[i] : d < i
       /\ \A b \in p.ins[i] : \E d \in p.deps[i] : b \in p.outs[d]
       /\ p.queue[i] = "DMA_DDR" => p.ins[i] = {}

ASSUME ProgramsAssumption == \A p \in Programs : IsProgram(p)

\* operationCycleCost, and spilledOperationCycleCost from the size of the buffer.
Cost(i) == prog.cost[i]
SpillCost(b) == prog.size[b]

\* The elements of S in a strict total order, without trying all sequences.
Sorted(S, Before(_, _)) ==
  [k \in 1 .. Cardinality(S) |-> CHOOSE x \in S : Cardinality({y \in S : Before(y, x)}) = k - 1]
Ascending(S) == Sorted(S, <)

\* identifyDataOps: a DMA from DDR to NN_CMX that has consumers and depends on no
\* data operation.
IdentifyDataOps ==
  LET IsDataOp[i \in Ops] ==
        /\ prog.queue[i] = "DMA_DDR" /\ prog.outs[i] # {}
        /\ Consumers(i) # {}
        /\ \A d \in Deps(i) : ~IsDataOp[d]
  IN  {i \in Ops : IsDataOp[i]}

\* The levels init gives to compute operations and, the first one that is not 0,
\* to what they depend on.
Levels ==
  LET Assign(acc, i) ==
        [next |-> acc.next + 1,
         of |-> [j \in Ops |-> IF j = i \/ (j \in Deps(i) /\ acc.of[j] = 0)
                               THEN acc.next ELSE acc.of[j]]]
  IN  FoldLeft(Assign, [next |-> 0, of |-> [j \in Ops |-> 0]],
               Ascending({i \in Ops : IsCompute(i)})).of

\* isNoInputDepComputeOp: a dequantize kernel that needs only constants and
\* function inputs.
IsNoInputDepComputeOp(i) ==
  i \in prog.dequantize /\ \A d \in Deps(i) : d \in isDataOp /\ Deps(d) = {}

-----------------------------------------------------------------------------
(***************************************************************************)
(* Memory.  The buffers of a call are placed one after the other, the ones *)
(* whose writers have the most consumers first.                            *)
(***************************************************************************)
OutDegree(b) ==
  MapThenSumSet(LAMBDA i : Cardinality(Consumers(i)), {i \in Ops : b \in prog.outs[i]})

PlacedBefore(a, b) ==
  LET da == OutDegree(a) db == OutDegree(b)
  IN  \/ da > db
      \/ da = db /\ prog.size[a] > prog.size[b]
      \/ da = db /\ prog.size[a] = prog.size[b] /\ a < b

SortUsedBuffers(bs) == Sorted(bs, PlacedBefore)

TotalBuffersSize(bs) == MapThenSumSet(LAMBDA b : prog.size[b], bs)
TotalFreeSize(gaps) ==
  FoldLeft(LAMBDA sum, g : sum + GapSize(g), 0, gaps)

\* LinearScan::alloc without spills; fits is what canAlloc returns.
PlaceBuffers(gaps, addr, bs) ==
  LET Place(acc, b) ==
        LET i == ChooseMinimalGap(acc.gaps, prog.size[b], 1, "Up")
            at == GetAddrFromGap(acc.gaps[i], prog.size[b], 1, "Up")
        IN  IF ~acc.fits \/ i = 0 THEN [acc EXCEPT !.fits = FALSE]
            ELSE [acc EXCEPT !.gaps = UseGap(@, i, at, prog.size[b]), !.addr[b] = at]
  IN  FoldLeft(Place, [gaps |-> gaps, addr |-> addr, fits |-> TRUE], SortUsedBuffers(bs))

CanAlloc(s, bs) == PlaceBuffers(s.gaps, s.addr, bs).fits

\* Mutant: dead ranges are not given back.
FreeNothing(s, bs) == [s EXCEPT !.alive = @ \ bs]

\* markAsDead and freeDeadRanges
FreeBuffers(s, bs) ==
  LET dead == bs \cap s.alive
  IN  [s EXCEPT
        !.gaps = FoldLeft(LAMBDA gs, b : FreeInto(gs, s.addr[b], prog.size[b]), @, Ascending(dead)),
        !.alive = @ \ dead]

-----------------------------------------------------------------------------
(***************************************************************************)
(* The part of the state that the helpers below take and return.           *)
(***************************************************************************)
Unallocated == -1

\* What a call of scheduleComputeOps has to put back: the entries it added to
\* producer, lastUse and opEnd, and the old values of the ones it changed.
NoDeltas ==
  [newProducers |-> {}, oldProducers |-> <<>>,
   newUses |-> {}, oldUses |-> <<>>,
   newEnds |-> {}, oldEnds |-> <<>>]

Fresh ==
  [gaps |-> <<Gap(0, prog.memory)>>,            \* _scan
   addr |-> [b \in Buffers |-> Unallocated],
   alive |-> {},
   spilled |-> [b \in Buffers |-> 0],           \* _readySpilledOps and _spillBufferMap
   pipelines |-> [q \in Queues |->              \* _executorPipelines
                    [k \in 1 .. IF q \in DMAQueues THEN prog.ports ELSE 1 |-> 1]],
   beginHeap |-> {},                            \* _cycleBeginHeap
   readyCompute |-> {},                         \* _readyComputeOps
   readyData |-> {},                            \* _readyDataOps
   producer |-> [b \in Buffers |-> 0],          \* _bufferProducer; 0 for none
   lastUse |-> [b \in Buffers |-> 0],           \* _bufferLastCycleUse
   opEnd |-> [i \in Ops |-> 0],                 \* _opIdxEndCycleMap; 0 if not scheduled
   deltas |-> NoDeltas]

ResetDeltas(s) == [s EXCEPT !.deltas = NoDeltas]

\* An old value is kept the first time an entry changes.
Keep(old, keys, map) ==
  [k \in DOMAIN old \cup keys |-> IF k \in DOMAIN old THEN old[k] ELSE map[k]]

\* updateBufferCycleUseAndProducer for the buffers an operation writes and uses.
UpdateBuffers(s, op, end, written, used) ==
  LET known == {b \in used : s.lastUse[b] # 0}
  IN  [s EXCEPT
        !.producer = [b \in Buffers |-> IF b \in written THEN op ELSE @[b]],
        !.lastUse = [b \in Buffers |-> IF b \in used /\ @[b] < end THEN end ELSE @[b]],
        !.deltas.newProducers = @ \cup {b \in written : s.producer[b] = 0},
        !.deltas.oldProducers = Keep(@, written, s.producer),
        !.deltas.newUses = @ \cup (used \ known),
        !.deltas.oldUses = Keep(@, known, s.lastUse)]

\* insertInOpIdxCycleEndMap
UpdateOpEnd(s, op, end) ==
  IF s.opEnd[op] = 0
  THEN [s EXCEPT !.opEnd[op] = end, !.deltas.newEnds = @ \cup {op}]
  ELSE IF s.opEnd[op] < end
  THEN [s EXCEPT !.opEnd[op] = end, !.deltas.oldEnds = Keep(@, {op}, s.opEnd)]
  ELSE s

\* Heap elements; op is the operation that wrote a spilled buffer.
Element(op, type, queue, ports, begin, cost, buf) ==
  [op |-> op, type |-> type, queue |-> queue, ports |-> ports,
   begin |-> begin, end |-> begin + cost, buf |-> buf]
NoBuffer == 0
IsOriginal(e) == e.type \in {"original", "prefetched"}

\* updateCurrentCycleForExecutor and pushToCycleBeginHeap
Push(s, e) ==
  LET busy == [s EXCEPT
        !.pipelines[e.queue] = [k \in DOMAIN @ |-> IF k \in e.ports THEN e.end ELSE @[k]],
        !.beginHeap = @ \cup {e}]
      written == IF e.type = "read" THEN {e.buf} ELSE IF IsOriginal(e) THEN prog.outs[e.op] ELSE {}
      used == IF IsOriginal(e) THEN UsedBuffers(e.op) ELSE written
  IN  UpdateOpEnd(UpdateBuffers(busy, e.op, e.end, written, used), e.op, e.end)

-----------------------------------------------------------------------------
(***************************************************************************)
(* Cycles.                                                                 *)
(***************************************************************************)
\* getExecutorInstanceMask: the port that is free first, or all of them for a
\* buffer that is split over the clusters.
Ports(s, queue, bs) ==
  LET cycles == s.pipelines[queue]
      first == CHOOSE k \in DOMAIN cycles : \A j \in DOMAIN cycles :
                 cycles[k] < cycles[j] \/ (cycles[k] = cycles[j] /\ k <= j)
  IN  IF queue \in DMAQueues /\ bs \cap prog.segmented # {} THEN DOMAIN cycles ELSE {first}

OpPorts(s, i) == Ports(s, prog.queue[i], UsedBuffers(i))
PortsFree(s, queue, ports) == Max({s.pipelines[queue][k] : k \in ports})

\* Mutant: what the operation depends on is not waited for.
CycleOfQueue(s, i) == PortsFree(s, prog.queue[i], OpPorts(s, i))

\* getCurrentCycleAndExecutorInstanceMask
CurrentCycle(s, i) ==
  Max({PortsFree(s, prog.queue[i], OpPorts(s, i))} \cup {s.opEnd[d] : d \in Deps(i)})

\* getEarliestComputeBeginCycle
EarliestBegin(s, i) ==
  Max({CurrentCycle(s, i)}
      \cup {s.opEnd[s.producer[b]] : b \in {b \in UsedBuffers(i) : s.producer[b] # 0}})

\* Mutant: nobody waits until memory is really free.
AlignNothing(s, cycle) == s

\* alignExecutors
AlignExecutors(s, cycle) ==
  [s EXCEPT !.pipelines = [q \in Queues |-> [k \in DOMAIN @[q] |-> Max({@[q][k], cycle})]]]

-----------------------------------------------------------------------------
(***************************************************************************)
(* Scheduling one operation and what it needs.                             *)
(***************************************************************************)
SpilledBuffers(s, op) == {b \in Buffers : s.spilled[b] = op}
IsSpilled(s, op) == SpilledBuffers(s, op) # {}
IsScheduled(s, i) == s.opEnd[i] # 0
NonAlive(s, i) == UsedBuffers(i) \ s.alive
NeededDeps(s, i) == {d \in Deps(i) : ~IsScheduled(s, d)}

\* getBuffersToAllocateForOp.  What a data operation depends on is scheduled, so
\* the recursion ends after one step.
BuffersFor(s, i) == NonAlive(s, i) \cup UNION {NonAlive(s, d) : d \in NeededDeps(s, i)}

\* scheduleSpilledOpBuffer
ScheduleSpillRead(s, b) ==
  LET ports == Ports(s, "DMA_DDR", {b})
  IN  Push([s EXCEPT !.spilled[b] = 0, !.alive = @ \cup {b}],
           Element(s.spilled[b], "read", "DMA_DDR", ports, PortsFree(s, "DMA_DDR", ports),
                   SpillCost(b), b))

\* The first part of scheduleDependencies: the operation's buffers become alive and
\* the spilled ones are read back.
ReviveBuffers(s, i) ==
  LET Revive(acc, b) ==
        IF acc.spilled[b] # 0 THEN ScheduleSpillRead(acc, b)
        ELSE [acc EXCEPT !.alive = @ \cup {b}]
  IN  FoldLeft(Revive, s, Ascending(NonAlive(s, i)))

PushOp(s, i, type) ==
  LET ports == OpPorts(s, i)
  IN  Push(s, Element(i, type, prog.queue[i], ports, EarliestBegin(s, i), Cost(i), NoBuffer))

ScheduleDataOp(s, d, type) ==
  [PushOp(ReviveBuffers(s, d), d, type) EXCEPT !.readyData = @ \ {d}]

\* scheduleOp, with the data operations it depends on, the one that can begin
\* first before the others.
ScheduleOp(s, i) ==
  LET revived == ReviveBuffers(s, i)
      Sooner(a, b) ==
        LET ca == CurrentCycle(revived, a) cb == CurrentCycle(revived, b)
        IN  ca < cb \/ (ca = cb /\ a < b)
      ready == FoldLeft(LAMBDA acc, d : ScheduleDataOp(acc, d, "original"), revived,
                        Sorted(NeededDeps(s, i), Sooner))
  IN  PushOp(ready, i, "original")

\* The throws of getBuffersToAllocateForOp and scheduleDependencies.
DepsReady(s, i) == NeededDeps(s, i) \subseteq s.readyData

-----------------------------------------------------------------------------
(***************************************************************************)
(* Prefetching.                                                            *)
(***************************************************************************)
\* getOperationLevel of a spilled operation: the lowest level of a consumer still
\* to come; empty if there is none.
RemainingLevels(s, op) == {opLevel[c] : c \in {c \in Consumers(op) : ~IsScheduled(s, c)}}

\* getPrefetchCandidates, with their levels.
PrefetchCandidates(s, lastOp, lastLevel) ==
  LET data == {[op |-> d, level |-> opLevel[d]] : d \in s.readyData}
      spilled == {[op |-> s.spilled[b], level |-> Min(RemainingLevels(s, s.spilled[b]))] :
                   b \in {b \in Buffers : s.spilled[b] # 0 /\ RemainingLevels(s, s.spilled[b]) # {}}}
  IN  {c \in data \cup spilled : c.op <= lastOp /\ c.level <= lastLevel + PrefetchingLevelLimit}

\* getPrefetchInfo
PrefetchBuffers(s, op) ==
  IF op \in s.readyData THEN BuffersFor(s, op) ELSE SpilledBuffers(s, op)

PrefetchCycle(s, op) ==
  IF op \in s.readyData THEN CurrentCycle(s, op)
  ELSE Max({PortsFree(s, "DMA_DDR", Ports(s, "DMA_DDR", {b})) : b \in SpilledBuffers(s, op)})

\* executePrefetch
ExecutePrefetch(s, op) ==
  IF op \in s.readyData THEN ScheduleDataOp(s, op, "prefetched")
  ELSE FoldLeft(ScheduleSpillRead, s, SortUsedBuffers(SpilledBuffers(s, op)))

\* barrierLimit is a size_t: with more operations than barriers it wraps.
LimitReached(placed, alive) ==
  Cardinality(placed) <= BarrierLimit /\ BarrierLimit - Cardinality(placed) <= alive

\* What prefetchOps knows of the compute operations just scheduled; a cost of 1
\* stands for an unknown one.
Computed(s, placed) == {i \in placed : IsCompute(i) /\ ~IsSpilled(s, i)}
LastOp(s, placed) == Max({1} \cup Computed(s, placed))
LastLevel(s, placed) == Max({0} \cup {opLevel[i] : i \in Computed(s, placed)})
LastCycle(s, placed) == Max({0} \cup {s.opEnd[i] : i \in {i \in Computed(s, placed) : Cost(i) > 1}})

\* A candidate of a later level that would only begin when they have ended.
TooEarly(s, placed, op) ==
  /\ LastCycle(s, placed) # 0
  /\ LastLevel(s, placed) + 1 < opLevel[op]
  /\ PrefetchCycle(s, op) >= LastCycle(s, placed)

AliveDataOps(s) == {s.producer[b] : b \in s.alive} \cap isDataOp

-----------------------------------------------------------------------------
(***************************************************************************)
(* Eviction.                                                               *)
(***************************************************************************)
NoCandidate == [op |-> 0, buf |-> NoBuffer]

EvictionPriority(op, b) == IF b \in prog.concat THEN 0 ELSE IF op \notin isDataOp THEN 2 ELSE 3

\* getEarliestConsumerIdx; with no consumer left the largest number there is.
EarliestConsumer(s, op) ==
  Min({Cardinality(Ops) + 1}
      \cup {c \in Consumers(op) : IsCompute(c) /\ ~IsSpilled(s, c) /\ ~IsScheduled(s, c)})

Candidate(s, b) ==
  [op |-> s.producer[b], buf |-> b,
   priority |-> EvictionPriority(s.producer[b], b),
   consumer |-> EarliestConsumer(s, s.producer[b])]

\* The order of EvictionPriority; the outputs of an operation are in IR order.
EvictedBefore(a, b) ==
  LET size(c) == prog.size[c.buf]
  IN  \/ a.priority > b.priority
      \/ /\ a.priority = b.priority
         /\ \/ a.consumer > b.consumer
            \/ /\ a.consumer = b.consumer
               /\ \/ size(a) < size(b)
                  \/ size(a) = size(b) /\ a.op > b.op
                  \/ size(a) = size(b) /\ a.op = b.op /\ a.buf > b.buf

\* chooseCandidateForEvictionToSupportPrefetch: of the buffers that were alive in s
\* and whose producer has ended, the smallest one without which the fragmented
\* buffers, and the evicted one again, can be placed.  The buffers are tried from
\* the back of their order, and a later one must be smaller.
ChooseForPrefetch(s, running, fragmented) ==
  LET Helps(b) ==
        /\ \A e \in running : e.op # s.producer[b]
        /\ CanAlloc(FreeBuffers(s, {b}), fragmented \cup {b})
      Better(a, b) ==
        prog.size[a] < prog.size[b] \/ (prog.size[a] = prog.size[b] /\ PlacedBefore(b, a))
      ordered == Sorted({b \in s.alive : Helps(b)}, Better)
  IN  IF ordered = <<>> THEN NoCandidate
      ELSE [op |-> s.producer[Head(ordered)], buf |-> Head(ordered)]

\* performEvictionAndScheduling and evictActiveOp: the memory is free at once, but
\* nothing begins before the spill write has ended.
Evict(s, c) ==
  LET freed == [FreeBuffers(s, {c.buf}) EXCEPT !.spilled[c.buf] = c.op]
      ports == Ports(freed, "DMA_CMX", {c.buf})
      begin == Max({s.lastUse[c.buf], PortsFree(freed, "DMA_CMX", ports)})
      write == Element(c.op, "write", "DMA_CMX", ports, begin, SpillCost(c.buf), c.buf)
  IN  AlignExecutors(Push(freed, write), write.end)

\* The local variables of a call that has not begun.
NoCall == [todo |-> <<>>, placed |-> {}, bufs |-> {}, alive |-> 0, fragmented |-> {}, saved |-> <<>>]

-----------------------------------------------------------------------------
(***************************************************************************)
(* init.                                                                   *)
(***************************************************************************)
\* Mutant: off by one.
UnlockedEarly(degree, done) ==
  {c \in Ops : Deps(c) \cap done # {} /\ Cardinality(Deps(c) \cap done) + 1 >= degree[c]}

\* reduceInDegreeOfAdjacentOperations for the operations in done.
Unlocked(degree, done) ==
  {c \in Ops : Deps(c) \cap done # {} /\ Cardinality(Deps(c) \cap done) >= degree[c]}
Reduced(degree, done) ==
  [c \in Ops |-> Max({0, degree[c] - Cardinality(Deps(c) \cap done)})]

\* Mutant: DMA operations are put in the list of compute operations.
AddReadyMixed(s, ready, others) ==
  [s EXCEPT !.readyData = @ \cup (ready \cap isDataOp), !.readyCompute = @ \cup others]

\* distributeReadyOps.  The consumers of a data operation are unlocked with it, and
\* none of them is a data operation.
ReadyWith(degree, ready) == (ready \ isDataOp) \cup Unlocked(degree, ready \cap isDataOp)
AddReady(s, ready, others) ==
  [s EXCEPT !.readyData = @ \cup (ready \cap isDataOp),
            !.readyCompute = @ \cup {i \in others : IsCompute(i)}]

Init ==
  /\ prog \in Programs
  /\ isDataOp = IdentifyDataOps
  /\ opLevel = Levels
  /\ LET degree == [i \in Ops |-> Cardinality(Deps(i))]
         ready == {i \in Ops : Deps(i) = {}}
     IN  /\ m = AddReady(Fresh, ready, ReadyWith(degree, ready))
         /\ readyDMA = {i \in ReadyWith(degree, ready) : ~IsCompute(i)}
         /\ inDegree = Reduced(degree, ready \cap isDataOp)
  /\ computeOrder = [q \in ComputeQueues |-> Ascending({i \in Ops : prog.queue[i] = q})]
  /\ users = [b \in Buffers |-> {i \in Ops : b \in UsedBuffers(i)}]
  /\ outputOps = {i \in Ops : Consumers(i) = {}}
  /\ pc = "loop"
  /\ endHeap = {} /\ scheduled = <<>>
  /\ call = NoCall
  /\ prefetchSpill = NoCandidate /\ candidates = {}
  /\ failed = FALSE

\* The consumers of the operations in done are unlocked and distributed, in state s.
Unlock(s, done) ==
  \E ready \in {Unlocked(inDegree, done)}, degree \in {Reduced(inDegree, done)} :
    \E others \in {ReadyWith(degree, ready)} :
      /\ m' = AddReady(s, ready, others)
      /\ readyDMA' = readyDMA \cup {i \in others : ~IsCompute(i)}
      /\ inDegree' = Reduced(degree, ready \cap isDataOp)
      /\ failed' = (failed \/ others \cap (s.readyCompute \cup readyDMA) # {}
                          \/ ready \cap s.readyData # {})

-----------------------------------------------------------------------------
(***************************************************************************)
(* schedulingLoop.                                                         *)
(***************************************************************************)
\* The order of _cycleBeginHeap.
MovedBefore(a, b) ==
  \/ a.begin < b.begin
  \/ /\ a.begin = b.begin
     /\ \/ a.type = "prefetched" /\ b.type # "prefetched"
        \/ /\ (a.type = "prefetched") = (b.type = "prefetched")
           /\ a.op < b.op \/ (a.op = b.op /\ a.buf < b.buf)

Located(bs) == {[buf |-> b, addr |-> m.addr[b]] : b \in bs}

\* populateScheduledOps
Event(e) ==
  [op |-> e.op, type |-> e.type, queue |-> e.queue, ports |-> e.ports,
   begin |-> e.begin, end |-> e.end,
   ins |-> Located(IF e.type = "write" THEN {e.buf} ELSE IF IsOriginal(e) THEN prog.ins[e.op] ELSE {}),
   outs |-> Located(IF e.type = "read" THEN {e.buf} ELSE IF IsOriginal(e) THEN prog.outs[e.op] ELSE {})]

OutOfEvents == Len(scheduled) + Cardinality(m.beginHeap) > MaxEvents

MoveFromCycleBeginToCycleEndHeap ==
  /\ pc = "loop" /\ outputOps # {}
  /\ m.beginHeap # {}
  /\ ~OutOfEvents
  /\ LET moved == Sorted(m.beginHeap, MovedBefore)
         events == [k \in DOMAIN moved |-> Event(moved[k])]
     IN  /\ scheduled' = scheduled \o events
         /\ failed' = (failed \/ \E k \in DOMAIN events : \E r \in events[k].ins \cup events[k].outs :
                                   r.addr = Unallocated)
  /\ m' = [m EXCEPT !.beginHeap = {},
                    !.addr = [b \in Buffers |->
                      IF \E e \in m.beginHeap : e.type = "write" /\ e.buf = b THEN Unallocated ELSE @[b]]]
  /\ endHeap' = endHeap \cup m.beginHeap
  /\ outputOps' = outputOps \ {e.op : e \in m.beginHeap}
  /\ UNCHANGED <<tables, pc, readyDMA, inDegree, computeOrder, users, call, prefetchSpill, candidates>>

\* Mutant: off by one.
EndedBefore ==
  {e \in endHeap : \A f \in endHeap : \A k \in f.ports : e.end < m.pipelines[f.queue][k]}

\* unscheduleAllCompletingOps, with freeMemoryResources and unlockNewReadyOps.
Ended ==
  {e \in endHeap : \A f \in endHeap : \A k \in f.ports : e.end <= m.pipelines[f.queue][k]}

FreeMemory(ended, left) ==
  LET dead == {b \in Buffers : users[b] # {} /\ left[b] = {}}
      freeing == {e \in ended : \E b \in dead : e.op \in users[b]}
  IN  IF dead = {} THEN m ELSE AlignExecutors(FreeBuffers(m, dead), Max({e.end : e \in freeing}))

UnscheduleAllCompletingOps ==
  /\ pc = "loop" /\ outputOps # {}
  /\ m.beginHeap = {}
  /\ users' = [b \in Buffers |-> users[b] \ {e.op : e \in Ended}]
  /\ Unlock(FreeMemory(Ended, users'),
            {e.op : e \in {e \in Ended : IsOriginal(e) /\ IsCompute(e.op) /\ ~IsSpilled(m, e.op)}})
  /\ endHeap' = endHeap \ Ended
  /\ pc' = "select"
  /\ UNCHANGED <<tables, computeOrder, outputOps, scheduled, call, prefetchSpill, candidates>>

-----------------------------------------------------------------------------
(***************************************************************************)
(* scheduleComputeOps, one operation or prefetch candidate at a time:      *)
(* compute operations, prefetching, DMA operations, prefetching again, and *)
(* the allocation of all their buffers.                                    *)
(***************************************************************************)
\* The compute operations that could start, in the order of their queues: those that
\* need only constants, or the others.
Startable(q, constants) ==
  IF /\ computeOrder[q] # <<>>
     /\ Head(computeOrder[q]) \in m.readyCompute
     /\ \A e \in endHeap : e.queue # q
     /\ IsNoInputDepComputeOp(Head(computeOrder[q])) = constants
  THEN <<Head(computeOrder[q])>> ELSE <<>>
StartableOps(constants) == Startable("DPU", constants) \o Startable("SHAVE_ACT", constants)

\* The operations of a list that fit, together with what is to be allocated already.
Select(ops, start) ==
  LET Add(acc, i) ==
        IF CanAlloc(m, BuffersFor(m, i) \cup acc.bufs)
        THEN [ops |-> Append(acc.ops, i), bufs |-> BuffersFor(m, i) \cup acc.bufs] ELSE acc
  IN  FoldLeft(Add, start, ops)

\* selectOpsToSchedule: operations that need only constants come last, and wait if
\* another one does not fit.
SelectMore(first, second, chosen) ==
  IF Len(chosen.ops) = Len(first) THEN Select(second, chosen) ELSE chosen

SelectComputeOps ==
  /\ pc = "select"
  /\ \E chosen \in {SelectMore(StartableOps(FALSE), StartableOps(TRUE),
                               Select(StartableOps(FALSE), [ops |-> <<>>, bufs |-> {}]))} :
       /\ call' = [NoCall EXCEPT !.todo = chosen.ops, !.bufs = chosen.bufs, !.saved = m]
       /\ pc' = IF chosen.ops = <<>> THEN "selectDMA" ELSE "compute"
  /\ m' = ResetDeltas(m)
  /\ failed' = (failed \/ \E i \in ToSet(StartableOps(FALSE) \o StartableOps(TRUE)) : ~DepsReady(m, i))
  /\ prefetchSpill' = NoCandidate
  /\ UNCHANGED <<tables, readyDMA, inDegree, computeOrder, endHeap, users, outputOps, scheduled, candidates>>

ScheduleComputeOp ==
  /\ pc = "compute"
  /\ call.todo # <<>>
  /\ m' = [ScheduleOp(m, Head(call.todo)) EXCEPT !.readyCompute = @ \ {Head(call.todo)}]
  /\ call' = [call EXCEPT !.todo = Tail(@), !.placed = @ \cup {Head(call.todo)}]
  /\ UNCHANGED <<tables, pc, readyDMA, inDegree, computeOrder, endHeap, users, outputOps, scheduled,
                 prefetchSpill, candidates, failed>>

\* prefetchOps after the operations placed were scheduled in state s.
Closer(a, b) == a.level < b.level \/ (a.level = b.level /\ a.op < b.op)
StartPrefetch(s) ==
  call' = [call EXCEPT
            !.alive = Cardinality(AliveDataOps(s)),
            !.todo = IF LimitReached(call.placed, Cardinality(AliveDataOps(s))) THEN <<>>
                     ELSE Sorted(PrefetchCandidates(s, LastOp(s, call.placed), LastLevel(s, call.placed)),
                                 Closer)]

PrefetchForCompute ==
  /\ pc = "compute"
  /\ call.todo = <<>>
  /\ StartPrefetch(m)
  /\ pc' = "prefetch"
  /\ UNCHANGED <<tables, m, readyDMA, inDegree, computeOrder, endHeap, users, outputOps, scheduled,
                 prefetchSpill, candidates, failed>>

\* A candidate that does not fit ends the prefetching.  If the memory that is free
\* would do, it is fragmented.
PrefetchRefused(bs) ==
  /\ call' = [call EXCEPT
       !.todo = <<>>,
       !.fragmented = IF /\ pc = "prefetch" /\ prog.activelySpill
                         /\ TotalBuffersSize(bs) <= TotalFreeSize(m.gaps)
                      THEN bs ELSE {}]
  /\ UNCHANGED m

PrefetchTaken(op, bs, count) ==
  /\ m' = ExecutePrefetch(m, op)
  /\ call' = [call EXCEPT !.bufs = bs, !.alive = count,
                          !.todo = IF LimitReached(call.placed, count) THEN <<>> ELSE Tail(@)]

TryPrefetch(op, own) ==
  \/ own = {} /\ call' = [call EXCEPT !.todo = Tail(@)] /\ UNCHANGED m
  \/ own # {} /\ TooEarly(m, call.placed, op) /\ call' = [call EXCEPT !.todo = <<>>] /\ UNCHANGED m
  \/ /\ own # {} /\ ~TooEarly(m, call.placed, op)
     /\ IF CanAlloc(m, own \cup call.bufs)
        THEN PrefetchTaken(op, own \cup call.bufs,
                           call.alive + IF op \in m.readyData THEN 1 ELSE Cardinality(own))
        ELSE PrefetchRefused(own \cup call.bufs)

PrefetchOp ==
  /\ pc \in {"prefetch", "prefetchDMA"}
  /\ call.todo # <<>>
  /\ TryPrefetch(Head(call.todo).op, PrefetchBuffers(m, Head(call.todo).op))
  /\ UNCHANGED <<tables, pc, readyDMA, inDegree, computeOrder, endHeap, users, outputOps, scheduled,
                 prefetchSpill, candidates, failed>>

\* Mutant: only new entries are undone.
RevertNew(map, old, new) == [k \in DOMAIN map |-> IF k \in new THEN 0 ELSE map[k]]

\* restoreStateBeforeScheduling: ScheduleStateSnapshot and the deltas.
Revert(map, old, new) ==
  [k \in DOMAIN map |-> IF k \in new THEN 0 ELSE IF k \in DOMAIN old THEN old[k] ELSE map[k]]

RestoreState(saved, s) ==
  [s EXCEPT !.gaps = saved.gaps, !.addr = saved.addr, !.alive = saved.alive,
            !.spilled = saved.spilled, !.pipelines = saved.pipelines,
            !.beginHeap = saved.beginHeap,
            !.readyCompute = saved.readyCompute, !.readyData = saved.readyData,
            !.producer = Revert(@, s.deltas.oldProducers, s.deltas.newProducers),
            !.lastUse = Revert(@, s.deltas.oldUses, s.deltas.newUses),
            !.opEnd = Revert(@, s.deltas.oldEnds, s.deltas.newEnds)]

\* A buffer is to be evicted before the operations are scheduled again.
GiveUpPrefetch(restored, victim) ==
  /\ victim # NoCandidate
  /\ m' = restored
  /\ prefetchSpill' = victim
  /\ pc' = "evict"
  /\ UNCHANGED computeOrder

KeepComputeOps(victim) ==
  /\ victim = NoCandidate
  /\ m' = [m EXCEPT !.alive = @ \cup call.bufs]
  /\ computeOrder' = [q \in ComputeQueues |->
       IF computeOrder[q] # <<>> /\ Head(computeOrder[q]) \in call.placed
       THEN Tail(computeOrder[q]) ELSE computeOrder[q]]
  /\ pc' = "selectDMA"
  /\ UNCHANGED prefetchSpill

EndPrefetch ==
  /\ pc = "prefetch"
  /\ call.todo = <<>>
  /\ \E restored \in {RestoreState(call.saved, m)} :
       \E victim \in {IF call.fragmented = {} THEN NoCandidate
                      ELSE ChooseForPrefetch(restored, endHeap, call.fragmented)} :
         GiveUpPrefetch(restored, victim) \/ KeepComputeOps(victim)
  /\ UNCHANGED <<tables, readyDMA, inDegree, endHeap, users, outputOps, scheduled, call, candidates, failed>>

SelectDMAOps ==
  /\ pc = "selectDMA"
  /\ \E chosen \in {Select(Ascending(readyDMA), [ops |-> <<>>, bufs |-> call.bufs])} :
       /\ call' = [call EXCEPT !.todo = chosen.ops, !.bufs = chosen.bufs]
       /\ pc' = IF chosen.ops = <<>> THEN "allocate" ELSE "dma"
  /\ failed' = (failed \/ \E i \in readyDMA : ~DepsReady(m, i))
  /\ UNCHANGED <<tables, m, readyDMA, inDegree, computeOrder, endHeap, users, outputOps, scheduled,
                 prefetchSpill, candidates>>

ScheduleDMAOp ==
  /\ pc = "dma"
  /\ call.todo # <<>>
  /\ m' = ScheduleOp(m, Head(call.todo))
  /\ readyDMA' = readyDMA \ {Head(call.todo)}
  /\ call' = [call EXCEPT !.todo = Tail(@), !.placed = @ \cup {Head(call.todo)}]
  /\ UNCHANGED <<tables, pc, inDegree, computeOrder, endHeap, users, outputOps, scheduled,
                 prefetchSpill, candidates, failed>>

\* What depends on a DMA operation is unlocked when that is scheduled, so that data
\* it wrote to DDR can be prefetched.
PrefetchForDMA ==
  /\ pc = "dma"
  /\ call.todo = <<>>
  /\ \E dma \in {{i \in call.placed : ~IsCompute(i)}} :
       Unlock(m, dma)
  /\ StartPrefetch(m')
  /\ pc' = "prefetchDMA"
  /\ UNCHANGED <<tables, computeOrder, endHeap, users, outputOps, scheduled, prefetchSpill, candidates>>

AllocateBuffers ==
  /\ pc = "allocate" \/ (pc = "prefetchDMA" /\ call.todo = <<>>)
  /\ \E memory \in {PlaceBuffers(m.gaps, m.addr, call.bufs)} :
       /\ m' = [m EXCEPT !.gaps = memory.gaps, !.addr = memory.addr, !.alive = @ \cup call.bufs]
       /\ failed' = (failed \/ ~memory.fits \/ \E b \in call.bufs : m.addr[b] # Unallocated)
  /\ call' = NoCall
  /\ pc' = "evict"
  /\ UNCHANGED <<tables, readyDMA, inDegree, computeOrder, endHeap, users, outputOps, scheduled,
                 prefetchSpill, candidates>>

-----------------------------------------------------------------------------
(***************************************************************************)
(* What schedulingLoop does then.                                          *)
(***************************************************************************)
ForceSpillingForPrefetch ==
  /\ pc = "evict"
  /\ prefetchSpill # NoCandidate
  /\ m' = Evict(m, prefetchSpill)
  /\ pc' = "loop"
  /\ UNCHANGED <<tables, readyDMA, inDegree, computeOrder, endHeap, users, outputOps, scheduled,
                 call, prefetchSpill, candidates, failed>>

\* Nothing runs and nothing could be scheduled.  The candidates found for the last
\* eviction are used again if nothing was scheduled since.
ForceScheduleActiveOpEviction ==
  /\ pc = "evict"
  /\ prefetchSpill = NoCandidate
  /\ m.beginHeap = {} /\ endHeap = {}
  /\ m.alive # {}
  /\ LET cached == candidates # {} /\ Last(scheduled).type = "write"
         all == IF cached THEN candidates ELSE {Candidate(m, b) : b \in m.alive}
         victim == CHOOSE c \in all : \A d \in all \ {c} : EvictedBefore(c, d)
     IN  /\ candidates' = all \ {victim}
         /\ m' = Evict(m, victim)
         /\ failed' = (failed \/ victim.buf \notin m.alive)
  /\ pc' = "loop"
  /\ UNCHANGED <<tables, readyDMA, inDegree, computeOrder, endHeap, users, outputOps, scheduled,
                 call, prefetchSpill>>

\* Scheduler failure, cannot schedule anything and there is no buffer to spill.
NothingToSpill ==
  /\ pc = "evict"
  /\ prefetchSpill = NoCandidate
  /\ m.beginHeap = {} /\ endHeap = {}
  /\ m.alive = {}
  /\ failed' = TRUE
  /\ pc' = "failed"
  /\ UNCHANGED <<tables, m, readyDMA, inDegree, computeOrder, endHeap, users, outputOps, scheduled,
                 call, prefetchSpill, candidates>>

NoEviction ==
  /\ pc = "evict"
  /\ prefetchSpill = NoCandidate
  /\ m.beginHeap # {} \/ endHeap # {}
  /\ pc' = "loop"
  /\ UNCHANGED <<tables, m, readyDMA, inDegree, computeOrder, endHeap, users, outputOps, scheduled,
                 call, prefetchSpill, candidates, failed>>

Accesses(e) == e.ins \cup e.outs

\* generateSchedule sorts the schedule by cycles; what is left open is the order of
\* two spills of an operation.
ScheduledBefore(a, b) ==
  \/ a.begin < b.begin
  \/ a.begin = b.begin /\ a.end < b.end
  \/ /\ a.begin = b.begin /\ a.end = b.end
     /\ a.op < b.op \/ (a.op = b.op /\ \E r \in Accesses(a) : \A q \in Accesses(b) : r.buf < q.buf)

Finish ==
  /\ pc = "loop"
  /\ outputOps = {}
  /\ scheduled' = Sorted(ToSet(scheduled), ScheduledBefore)
  /\ pc' = "done"
  /\ UNCHANGED <<tables, m, readyDMA, inDegree, computeOrder, endHeap, users, outputOps,
                 call, prefetchSpill, candidates, failed>>

Stopped == pc \in {"done", "failed"}

Next ==
  \/ MoveFromCycleBeginToCycleEndHeap
  \/ UnscheduleAllCompletingOps
  \/ SelectComputeOps \/ ScheduleComputeOp \/ PrefetchForCompute \/ PrefetchOp \/ EndPrefetch
  \/ SelectDMAOps \/ ScheduleDMAOp \/ PrefetchForDMA \/ AllocateBuffers
  \/ ForceSpillingForPrefetch
  \/ ForceScheduleActiveOpEviction
  \/ NothingToSpill
  \/ NoEviction
  \/ Finish
  \/ (Stopped \/ OutOfEvents) /\ UNCHANGED vars

Spec == Init /\ [][Next]_vars

-----------------------------------------------------------------------------
(***************************************************************************)
(* Properties.                                                             *)
(***************************************************************************)
Elements ==
  [op : Ops, type : {"original", "prefetched", "write", "read"}, queue : Queues,
   ports : SUBSET (1 .. prog.ports), begin : Nat, end : Nat, buf : Buffers \cup {NoBuffer}]

\* The values the scheduler's state may hold: each ready list has operations of its
\* own kind.
TypeOK ==
  /\ pc \in {"loop", "select", "compute", "prefetch", "selectDMA", "dma", "prefetchDMA", "allocate",
             "evict", "done", "failed"}
  /\ isDataOp \subseteq Ops /\ opLevel \in [Ops -> Nat]
  /\ m.beginHeap \subseteq Elements /\ endHeap \subseteq Elements
  /\ m.alive \subseteq Buffers
  /\ m.addr \in [Buffers -> {Unallocated} \cup 0 .. prog.memory]
  /\ m.spilled \in [Buffers -> Ops \cup {0}] /\ m.producer \in [Buffers -> Ops \cup {0}]
  /\ m.lastUse \in [Buffers -> Nat] /\ m.opEnd \in [Ops -> Nat]
  /\ m.readyData \subseteq isDataOp
  /\ m.readyCompute \subseteq {i \in Ops : IsCompute(i)}
  /\ readyDMA \subseteq {i \in Ops \ isDataOp : ~IsCompute(i)}
  /\ outputOps \subseteq Ops
  /\ users \in [Buffers -> SUBSET Ops]
  /\ failed \in BOOLEAN

Overlap(b1, addr1, b2, addr2) == addr1 < addr2 + prog.size[b2] /\ addr2 < addr1 + prog.size[b1]

\* The buffers that are alive have their own memory and all other memory is free:
\* what was evicted, freed and rolled back is neither lost nor given away twice.
MemoryMatchesAlive ==
  pc \in {"loop", "select", "evict"} =>
  /\ TotalFreeSize(m.gaps) + TotalBuffersSize(m.alive) = prog.memory
  /\ \A b \in m.alive : m.addr[b] # Unallocated
  /\ \A b, c \in m.alive : b # c => ~Overlap(b, m.addr[b], c, m.addr[c])

Events == ToSet(scheduled)
OriginalEvents(i) == {e \in Events : IsOriginal(e) /\ e.op = i}
BuffersOf(rs) == {r.buf : r \in rs}

\* Every operation is scheduled exactly once, whatever was rolled back and tried
\* again, and begins after all it depends on has ended.
OpsFollowDeps ==
  pc = "done" =>
    \A i \in Ops :
      /\ Cardinality(OriginalEvents(i)) = 1
      /\ \A e \in OriginalEvents(i), d \in Deps(i) :
           \A f \in OriginalEvents(d) : f.end <= e.begin

\* When an operation or a spill write uses a buffer, the last one that wrote the
\* buffer or read it back has ended, put it at the address used, and nobody has
\* written to that memory since.
UsesFindTheirData ==
  pc = "done" =>
    \A e \in {e \in Events : e.type # "read"} : \A r \in Accesses(e) :
      LET before == {w \in Events : r.buf \in BuffersOf(w.outs) /\ w.begin < e.begin}
      IN  (before # {} \/ r \in e.ins) =>
            \E w \in before :
              /\ \A v \in before : v.end <= w.end
              /\ w.end <= e.begin
              /\ r \in w.outs
              /\ \A x \in Events : \A q \in x.outs :
                   (q.buf # r.buf /\ Overlap(q.buf, q.addr, r.buf, r.addr)) =>
                     x.end <= w.begin \/ e.end <= x.begin

\* What an operation needs in memory at once.
Demand(i) == UsedBuffers(i) \cup UNION {UsedBuffers(d) : d \in Deps(i) \cap isDataOp}

\* No check of the scheduler fails, and it gives up only when the memory is too
\* small for one of the operations alone.
FailsOnlyWithoutRoom == failed => \E i \in Ops : TotalBuffersSize(Demand(i)) > prog.memory

\* The state a failed prefetch goes back to is the state before the compute
\* operations were scheduled, in the three maps that are restored entry by entry too.
RollbackIsExact ==
  [][(pc = "prefetch" /\ pc' = "evict") => ResetDeltas(m') = ResetDeltas(call.saved)]_vars

\* Evicting and reading back ends: the scheduler returns or throws.
SchedulerTerminates == <>Stopped
=============================================================================
