# TLA+ models of the NPU compiler

The NPU compiler translates a neural network into a blob for the Intel NPU
through a chain of MLIR dialects.  Most of its code rewrites graphs; the parts
that are hard to get right are the ones that decide *when* things happen on the
hardware (barriers, queues, memory) and the ones that run on several threads
inside the compiler.  This directory models those parts in TLA+, checks them
with TLC on small instances, and proves the core results with TLAPS.

Paths below are relative to `src/`; `VC` is `src/vpux_compiler`.

## 1. Inventory

### 1.1 Barriers

| Component | State | Operations | Source |
|---|---|---|---|
| Barrier simulator | FIFOs of tasks and a position in each; per virtual barrier (VID) its physical barrier (`realId`) and the producer and consumer slots left; `toVirtual` and `prevVidOfPhysBar` per physical barrier (PID); ring of free PIDs; queue of VIDs per PID (page approach); batches | `parseBarriers`, `parseTasks`, `checkProducerCount`, `checkProducerAndConsumerCount`, `simulateBarriers`, `simulateBarriersForWlmPageApproach`, `processSim`, `getBarrierBatchesToLegalize`, `linkNextIds` | `VC/src/dialect/VPURT/interfaces/barrier_simulator.cpp`, `vpux_utils/.../ring_buffer.hpp` |
| AssignPhysicalBarriers pass | the IR | simulate to choose the PIDs, rewrite virtual barriers to `ConfigureBarrierOp` | `VC/src/dialect/VPURT/transforms/passes/assign_physical_barriers.cpp` |
| BarrierSimulation pass | the IR | simulate with the PIDs in the IR; fail if the simulation does | `.../barrier_simulation.cpp` |
| ReduceExceedingActiveCountBarriers pass | the IR, BarrierInfo | simulate in legalization mode, linearise the batches that exceed the number of PIDs, repeat, verify | `.../reduce_exceeding_active_count_barriers.cpp` |
| BarrierInfo | producers, consumers, waits, updates; control graph blocks; FIFO map | control map, `optimizeBarriers`, splits by slots, linearisation helpers | `VC/src/core/barrier_info.cpp` |
| WLM page split, enqueue barriers | pages, legal and boundary barriers, enqueue barrier per task | split VIDs into pages, find the barrier at which a task may be enqueued | `VC/src/dialect/VPURT/interfaces/barrier_pages_split.cpp`, `enqueue_barrier.cpp` |
| NPU runtime (external) | barrier counters, FIFOs | start a task when its wait barriers are produced, consume, produce, reprogram a consumed PID | not in the repository |

How they interact: a schedule is a list of tasks, each on an in-order hardware
FIFO, that wait on and update VIDs.  Passes call the simulator one after the
other on the IR they each change; a simulator is built anew from the IR each
time.  What one pass decides is only correct if the next one, and finally the
hardware, agrees with it.

What is hard: the simulator tries *one* order of the FIFOs while the hardware
takes any; PIDs are chosen with one algorithm and validated with another; the
mapping is held in several places that are updated at different points of a
long loop; `RingBuffer` checks neither overflow nor underflow; the legalization
run changes the number of PIDs while barriers are mapped to them.

What makes them correct: the views of the mapping agree; each free PID is in
the ring exactly once; a running task's barriers are programmed; slot counts
end at zero; the loops end; an assigned mapping validates; a validated schedule
runs on the hardware in any order; under WLM a PID is reused only after its
last use; the legalization verdict is exact.

### 1.2 Folding constants in background

| Component | State | Operations | Source |
|---|---|---|---|
| `BackgroundConstantFolding` | `_activeTasks`, `_mutex`, `_cv`, listener future | constructor, listener, `processFoldingRequest`, `tryFoldingPartially`, `TaskCompletionNotifier`, `stopFoldingListener`, destructor | `VC/src/dialect/const/utils/constant_folding_in_background.cpp` |
| `ConstantFoldingCache` | request queue, concurrent map of contents with reference counts, `_memoryUsedCache`, limits, statistics | `enqueueRequest`, `getRequest`, `hasContent`, `addContent`, `removeContent`, `getContent`, `replaceContentAttr`, `cleanUpCache` | `VC/src/dialect/const/utils/constant_folding_cache.cpp` |
| `ConstantFoldingCacheManager` | map from context to cache | `addCache`, `removeCache`, `contains`, `get` | same file |
| `ContentAttr::get`, `ContentAttr::fold` | - | enqueue a request; look up the cache | `content_setup.cpp`, `content.cpp` |
| ConstantFolding pass | - | fold what is left in parallel, bounded by memory | `VC/src/dialect/const/passes/constant_folding.cpp` |

How they interact: the compiling thread enqueues requests and looks results up;
the listener takes requests in order and starts pool tasks; tasks work on the
shared cache and report completion through a counter and a condition variable;
the destructor stops the listener, removes the cache and waits for the tasks.

What is hard: nearly everything is an interleaving: the counter is changed
without the mutex its waiters use, looking up and adding are separate steps,
entries are evicted while references to them are in use, shutdown races tasks.

What makes it correct: at most `_maxConcurrentTasks` tasks; every request is
served; the memory accounted for is the memory used and stays below the limit;
no result is lost; what `getContent` returns stays valid while it is read;
nothing uses the cache after it is gone.

### 1.3 Memory

| Component | State | Operations | Source |
|---|---|---|---|
| `Partitioner` | sorted list of gaps | `alloc` (best fit, from either end), `allocFixed`, `free` | `VC/src/utils/partitioner.cpp` |
| `LinearScan` | live ranges, a partitioner | `alloc` with optional spilling, with reserved space, with excluded regions; `canAlloc` and its variants; `freeDeadRanges` | `VC/include/vpux/compiler/utils/linear_scan.hpp` |
| Handler of `LinearScan` | sizes, addresses, liveness | asked and told by `LinearScan` | `VC/src/core/linear_scan_handler.cpp` |

How they interact: the memory scheduler asks `LinearScan` to place buffers and
tells the handler which are dead; `LinearScan` takes and returns memory through
the partitioner and reports addresses, frees and spills to the handler.

What is hard: long sequences of calls, each legal; the partitioner checks its
contract and its list by `assert` only; a call places several ranges and may
fail at any of them, after it has already taken others out to make room; a test
allocates for real and must leave no trace.

What makes it correct: gaps and blocks partition the memory; free merges all it
can; `alloc` fails only if it must; live ranges are disjoint; a call that fails
changes nothing; a call that succeeds moves nothing it did not spill; calls
return.

### 1.4 Scheduling memory

| Component | State | Operations | Source |
|---|---|---|---|
| `FeasibleMemoryScheduler` | ready lists (data, compute, other DMAs), heaps of begin and end cycles, a cycle per executor, buffers that are alive with their addresses, spilled buffers, last use and producer of each buffer, snapshots for a failed prefetch | `schedulingLoop`: end operations and free memory, unlock consumers, schedule compute operations with what they need, prefetch, schedule DMAs, evict | `VC/src/core/feasible_memory_scheduler.cpp` |
| `FeasibleMemorySchedulerSpilling` | the schedule, the addresses | `optimizeDataOpsSpills`, `removeComputeOpRelocationSpills`, `removeRedundantSpillWrites`, `insertSpillDmaOps` | `.../feasible_memory_scheduler_spilling.cpp` |
| `ControlEdgeGenerator`, `FeasibleMemorySchedulerControlEdges` | an interval tree of the owners of memory | `generateControlEdges`, `updateControlEdgesInDepsInfo`, `insertScheduleOrderDepsForExecutor` | `VC/include/vpux/compiler/core/control_edge_generator.hpp`, `.../feasible_memory_scheduler_control_edges.cpp` |
| FeasibleAllocation pass | the IR | the above, one after the other, `linearizeComputeOps`, positions and cycles of the final order | `VC/src/dialect/VPUIP/transforms/passes/feasible_allocation.cpp` |
| `AsyncDepsInfo`, OptimizeAsyncDeps pass | the operations each one waits for | `buildDepsMap`, `addDependency`, closures, `optimizeDepsMap` | `VC/src/core/async_deps_info.cpp`, `.../optimize_async_deps.cpp` |
| Concurrent schedulers, prefetching of data operations, loop regions | several schedulers, of which the cheapest is taken | | `.../concurrent_scheduler.cpp`, `.../feasible_memory_scheduler.cpp` |

How they interact: the scheduler turns the dependencies into a schedule, a list
of operations with cycles, in which a spilled buffer is written out and read
back.  The next steps edit that list: they drop spills, which moves buffers, and
make operations of the others.  Control edges then turn the use of memory in the
list back into dependencies, after which only these count: the final order and
the cycles are made from them, and `OptimizeAsyncDeps` thins them out.

What is hard: memory is given away when the list says its last user has ended,
but the hardware knows dependencies only, so every shared address must become an
edge; spills are optimized on the cycles of a schedule that they invalidate; a
prefetch is tried by doing it and undone piece by piece; eviction may put back
what it has just brought in; each step finds operations and buffers by numbers
and positions that the one before may have changed.

What makes them correct: each operation is scheduled once, after all it depends
on; it finds its data, at the address it uses; live buffers do not overlap;
operations that share memory are ordered by dependencies; a failed prefetch
leaves no trace; the scheduler ends, and fails only if an operation alone does
not fit; the reduction of dependencies keeps the order they stand for.

### 1.5 The rest

| Component | State and operations | Correctness |
|---|---|---|
| Inference execution simulator | cycle estimates | none that other code relies on |
| Level Zero wrapper, VCL driver compiler, ELF back ends, profiling | I/O and serialisation | |
| IE, VPU, VPUIP dialects, cost model | graph rewriting, numerical | |

The hazards these parts are exposed to are listed line by line in
`PROJECT.json`, each with the properties that would catch it.

## 2. Plan

Done:

1. `BarrierSimulator`, with the type invariant and the consistency of the
   mapping proved.
2. `BarrierPasses`: assignment, validation and hardware on one schedule.
3. `BarrierLegalization`: the legalization run and its verdict.
4. `ConstantFolding`: threads, cache, eviction and shutdown.
5. `Partitioner`, with all its safety properties proved.
6. `LinearScan`, shown to use the partitioner within its contract by refinement.
7. `MemoryScheduler` on the lists of gaps of `Partitioner`.
8. `Spilling`, `ControlEdges` and `AsyncDeps`, composed with it in
   `FeasibleAllocation`.
9. Theorems: the slots of the simulator; the order of reuse under WLM and the
   validation of an assigned mapping; the verdict, the batches and the checks of
   the legalization run; type correctness, the bound on tasks, the
   accounting and the results of constant folding; every safety property of
   `LinearScan` and its refinement of `Partitioner`; an inductive invariant of
   `MemoryScheduler`, with its types, its memory, its rollback and the order of
   its schedule.

Next, in this order:

10. Abstract specifications worth stating: `BarrierContract` (each VID is
   programmed once, on one PID, for a contiguous time, and a PID holds one VID
   at a time), implemented by `BarrierSimulator` and by the hardware of
   `BarrierPasses`; and a folding service (a request is eventually answered, an
   answer is the value of its attribute), implemented by `ConstantFolding`
   with one task.
11. `linearizeBarriers` and the slot split, so that `BarrierLegalization` covers
   the whole loop of the pass; `optimizeBarriers` as a pure algorithm.
12. The cache manager with several contexts, and the ConstantFolding pass.
13. Enqueue barriers and page split.
14. Loop regions and `PrefetchDataOps` of the scheduler, and the choice between
    concurrent schedulers.
15. On the invariant of `MemoryScheduler`: the data that a use finds
    (`UsesFindTheirData`), which needs, for every address, the cycles in which each
    buffer had it.

## 3. Modules

| Module | Models |
|---|---|
| `BarrierSimulator` | the simulator: construction, slot checks, page approach, `simulateBarriers`, `processSim` |
| `BarrierSchedules` | all small schedules, as the passes before the simulator leave them, with `buildTaskControlMap` |
| `BarrierPasses` | extends it: the two passes in sequence, then the NPU |
| `BarrierLegalization` | extends it: legalization mode, then a plain simulation to compare with |
| `BarrierSimulatorProofs` | theorems: types, mapping, ring and slots of the simulator |
| `BarrierPassesProofs` | extends `BarrierPasses` and it: theorems about the passes in sequence |
| `BarrierLegalizationProofs` | extends `BarrierLegalization` and `BarrierSimulatorProofs`: theorems about legalization |
| `ConstantFolding` | background folding |
| `ConstantFoldingProofs` | the theorems about it |
| `DataTheorems` | lemmas about sums over finite sets, folds over sequences, sets in order, sequences, and what the algorithms of `GapLists` do to the memory a list of gaps covers |
| `GapLists` | the lists of gaps of `Partitioner` and its algorithms, as operators |
| `Partitioner` | extends it: the partitioner and a client within its contract |
| `PartitionerProofs` | the theorems about `Partitioner` |
| `LinearScan` | linear scan with spilling, rollback and tests; instantiates `Partitioner` |
| `LinearScanProofs` | the theorems about it, the refinement included |
| `MemoryScheduler` | the feasible memory scheduler; extends `GapLists` |
| `MemorySchedulerInvariant` | its inductive invariants, and predicates for what each helper and step does |
| `MemorySchedulerProofs` | extends it: the theorems |
| `SchedulerPrograms` | families of small programs for it |
| `Spilling` | extends it: the passes that remove spills from a schedule |
| `ControlEdges` | the edges between operations that share memory |
| `AsyncDeps` | dependencies and their reduction |
| `FeasibleAllocation` | extends the three: the whole pass, then OptimizeAsyncDeps |
| `MC...` | instances for TLC |

### BarrierSimulator

A schedule `prog` holds what the constructor reads from the IR.  The simulator
is sequential; `stage` is its program counter and each step is one iteration of
one of its loops:

    parse --(ParseTask)*--> CheckSlots ----------------------> loop
                        \-> BeginPages -> AssignPage* -> EndPages -^
    loop --BeginIteration--> map --(MapBarrier)*--StopMapping--> fifos
    fifos --BeginTask--> task --(ConsumeBarrier|ProduceBarrier)*--EndTask--> fifos
    fifos --EndIteration--> loop, or done when the iteration changed nothing
    loop --Succeed--> done

`mode` says how VIDs get PIDs: `dynamic` and `wlm` take them from the ring,
`wlm` only if `canBarrierReusePidFromBarrier` agrees; `pages` takes them from
the queues that `simulateBarriersForWlmPageApproach` filled; `static` has them
fixed.  The variables keep the names of the code.  Four queues of the code
(DMA, DPU, SHAVE, M2I) are one family of FIFOs, which differ in the code only
in the order in which they are processed.  An MLIR operation, its location and
cycle attributes are left out; `count` is the number of barrier slots a task
uses.  The ring buffer is a sequence; that its fixed capacity suffices is a
consequence of `RingHoldsFreePids`.

### BarrierPasses

`pass` runs through "assign", "validate" and then "hardware" or "free".
`RewriteBarriers` writes `realId` to the IR and builds a new simulator in
static mode.  "hardware" is the NPU that programs each PID with the VIDs
`linkNextIds` chains, in any interleaving with the FIFOs; a task takes its wait
barriers when it starts and posts to its update barriers when it ends.  "free"
is the WLM case: only barriers and FIFOs hold tasks back, so a PID shared by two
VIDs must be ordered by the schedule itself.  Both are external, modelled from
what the compiler assumes of them.

### BarrierLegalization

Replaces three steps of the simulator by what they are with
`barrierLegalization` set: the end of the mapping loop records a batch, the end
of an iteration grows or shrinks the set of PIDs, and the end of the run returns
failure if a batch was recorded.  `Shrink` follows the code in erasing
`prevVidOfPhysBar` at indexes that were collected while `toVirtual` was being
erased from.  Afterwards a plain simulation of the same schedule runs, to
compare the verdict with.  The pass linearises the batches in between; that
changes the schedule and is not modelled yet.

### ConstantFolding

Three kinds of processes: the compiling thread (`compiler`), the listener
(`listener`) and the tasks (`pc`).  A step is what no other thread can see the
middle of: one atomic operation, or the section in which an accessor of
`tbb::concurrent_hash_map` locks an entry.  `_cv.wait` is three places, "check",
"blocking" and "asleep", because a finishing task does not take `_mutex` and can
fall between the test and the sleep.  A content is known by the task that folded
it (`buffer`), which is what "the same buffer" means to a reader.  Attributes are
cache keys, that is hash codes.  `_memoryUsedCache` wraps at `MemoryWrap`.  A
task that touches the cache or the condition variable after it was destroyed may
go on or crash (`Crash`), as the build decides.

### GapLists, Partitioner

A gap is a pair of addresses; the vector of gaps is a sequence.  What `erase`,
`insert` and assignments through references do is one operator, `Splice`.  The
two loops of `chooseMinimalGap` are the choice of a least element in the order
in which they prefer gaps (`Preferred`), with the last gap of the direction left
for the end.  `GapAt` is the binary search of `allocFixed`.  `FreeInto` follows
the branches of `free` one by one, the unreachable one included.  The client of
`Partitioner` does what the comment on `allocFixed` asks ("called when client is
certain about ability to allocate") and frees what it was given.

### LinearScan

`LinearScan` is sequential.  `pc` is the place in a call, and each step makes at
most one call of the partitioner, so that a step of `LinearScan` is a step of
`Partitioner` or leaves it alone:

    idle --Call--> (keep --Keep-->) place
    place --Test*--> restore                                  (canAlloc...)
    place --FindAddress--> process --ProcessCandidate*--RecordAllocation--> place
    place --GetSpillCandidate--> place
    place --Commit--> restore;  --GiveUp--> rollback --Rollback*--> restore
    restore --Restore*--> returned --Return--> idle
    idle --FreeDeadRanges--> sweep --Sweep*--> idle

`live` holds each range with the address the handler was told; the addresses of
ranges that are not live are the handler's business and left out.  `temp` is
what `TempAllocationTester` and the two variants of `alloc` free at the end, and
`pending` is both `pendingAllocations` and what `AllocationGuard` records, which
are the same blocks.  The six entry points are one action, `Call`, that differs
in whether it is a test and in what memory it keeps aside.  Clients do not
reserve space or exclude regions together with fixed ranges, as
`allocFixedRange` looks at live ranges only and would not notice.

`before` is a history variable for the properties: the gaps and live ranges when
the call was made.

### MemoryScheduler

A program `prog` is what the scheduler reads from the IR: for each operation its
executor, the buffers it uses, its cost and what it depends on; for each buffer
its size.  Executors are two DMA channels with one or two ports, the DPU and the
SHAVEs.  `pc` is the place in `schedulingLoop`:

    loop --MoveFromCycleBeginToCycleEndHeap--> loop
    loop --UnscheduleAllCompletingOps--> select --SelectComputeOps--> compute
    compute --ScheduleComputeOp*--PrefetchForCompute--> prefetch
    prefetch --PrefetchOp*--EndPrefetch--> selectDMA, or evict if it is given up
    selectDMA --SelectDMAOps--> dma --ScheduleDMAOp*--PrefetchForDMA--> prefetchDMA
    prefetchDMA --PrefetchOp*--AllocateBuffers--> evict --one of four--> loop
    loop --Finish--> done

What scheduling an operation changes is one record, `m`, because the code saves
most of it before it schedules compute operations and goes back to it when the
prefetch fails.  The code restores `_bufferProducer`, `_bufferLastCycleUse` and
`_opIdxEndCycleMap` entry by entry, from what it noted down at each change
(`deltas`); `Revert` does the same, and `RollbackIsExact` compares the result
with a copy of the state made at the beginning.  `spilled` is
`_readySpilledOps`, `_spillBufferMap` and the dynamic spill state of the handler
in one.  Operations and cycles count from 1, so that 0 can say "none".  All
buffers have alignment 1, and a spill costs the size of its buffer.

`IsProgram` is what the IR promises (`ProgramsAssumption`): an `async.execute`
has only earlier ones as operands, one of which wrote each buffer that it reads
in NN_CMX (`buildDepsMap`; dependencies are reduced only after the pass), and a
DMA of the channel for DDR reads nothing in NN_CMX.

Left out: loop regions; statistics and dumps; `_optimizeFragmentation = false`.

### Spilling

Each pass is an operator on a record with the schedule, the addresses and the
sets the code keeps from one pass to the next.  The tree of a data operation's
spills is the sorted sequence of their positions, and `erase` of several
positions is `EraseEach` where the code does not sort them and
`WithoutIndexes` where it does.

### ControlEdges, AsyncDeps

The interval tree is a function from addresses to owners; an interval of the
code is a run of addresses with the same owners.  `AsyncDeps` has the full and
the partial closure, and `OptimizeDepsMap` takes the threshold between them as a
parameter, as both are used on large and small functions.  `Ordered` is the
reference: the transitive closure of any dependency map.

### FeasibleAllocation

`phase` is the place in `safeRunOnFunc`; each phase is one step on what the
earlier ones left.  A spill read makes a new instance of its buffer in the IR,
and all later operations use it; `ir.home` has the address of each instance.
The scheduler is run once, with or without active spilling, where the code runs
two of them and takes one (`concurrent_scheduler.cpp`).

Operations have at most one result, do not work in place and read whole buffers;
several operations may write parts of one buffer.  `InsertSpillOps` is recursive
as in the code, which keeps the module out of the prover's reach.

## 4. Runs

| Run | Instance | Shows |
|---|---|---|
| `simulator` | schedules of 4 tasks and 3 barriers, 2 FIFOs, 2 PIDs, all modes, every fixed mapping | consistency of mapping, ring and slots; the simulator returns |
| `passes` | 4 tasks, 3 or 4 barriers, 2 PIDs, dynamic, WLM and pages | an assigned mapping validates; a validated one runs; WLM reuse is ordered |
| `legalization` | 4 tasks, 3 or 4 barriers, 2 PIDs | no internal check fails, verdict exact, batches exceed the limit, it ends |
| `folding` | 1 task at a time with eviction; 2 tasks with requests of every kind and a limit that is not reached; 2 tasks and 4 requests, the last two renames in either direction; the configurations are initial states | bound on tasks, accounting of one task exact and below the limit, no result lost, every task finishes but renames that hold each other's entry |
| `folding_lost_wakeup` | 1 task, 2 requests | **violated**: the listener sleeps forever |
| `folding_shutdown` | 1 task, 2 requests | **violated**: a task uses the removed cache |
| `folding_evicted_reference` | 1 task, 3 requests, 2 lookups, limit 5 | **violated**: a buffer is evicted while it is read |
| `partitioner` | memory of 11, sizes 1 to 3, alignments 1, 2, 4, both directions | order and merging of gaps, partition of the memory, completeness of `alloc` |
| `linear_scan` | memory of 6, four ranges of sizes 1 to 3 (one aligned, one fixed), a reserved block, a region, a reserved space, 2 ranges a call, a handler that may refuse to spill | refinement of `Partitioner`, disjoint ranges, tests and failures without spilling leave no trace, success keeps the others, calls return |
| `feasible_allocation` | more than 6,000 programs of 7 to 14 operations, 5 to 12 buffers, memory of 4 to 9 | all of 1.4: scheduled once and in order, data found at each stage, memory shared in order only, exact rollback, termination, exact reduction |
| `feasible_allocation_race` | programs in which one layer reads its input for long | **violated**: memory is reused under an operation that still reads it, and nothing orders the two |
| `feasible_allocation_erase` | two chains of layers with two relocations | **violated**: operations of the program are erased instead of spills |

Bounds.  Two PIDs and three or more barriers make PIDs be reused, refused by the
WLM search and run out; two FIFOs give every order of two queues; users of a
barrier are limited to three, so a barrier has two producers or two consumers.
DPU tasks use two slots, so slot counts are not just task counts, and the slot
limits of `simulator` and `passes` are small enough to be exceeded by some
schedules.  Two PIDs make
pages of one barrier, so up to four pages alternate between the two PIDs; that
larger pages do not overlap is proved for every number of PIDs
(`NeighbouringPagesShareNoPid`).  Schedules that have a sync task are
checked both with the control graph split there and not.  For folding, two
attributes are enough for one to be evicted by the other and to be renamed or
extended into the other, two tasks for every race between two, and three
requests for a constant to be folded, evicted and folded again.
Two renames can only wait for each other after both constants were folded, which
takes the four requests of `Exchanging`.  `requests` says what the n-th request of a
behaviour may be, so that only this configuration is that long.
`MaxRequests` and `MaxLookups` are the bounds in the guards.  A memory of 11 has
room for four gaps between blocks, so that every branch of `free` and both ends
of `chooseMinimalGap` occur, with alignments that do and do not divide the
addresses; one of 6 cannot hold the four ranges of `linear_scan`, so calls fail,
spill, restore what did not conflict, and fail after spilling.  `MaxRequest`
bounds the ranges in a call.  If the handler
refuses to spill, the block already allocated for the new range is not recorded
by the guard and leaks (section 5); `newAddr` keeps it in sight, so that the
refinement still accounts for it, and the client, which throws, makes no further
call.  Deadlock is not
checked: all models end, when the simulator returns, the NPU has run everything,
or the destructor is done.

The programs of `feasible_allocation` are families of three to six layers: a chain
with every way of connecting layers, concatenation of parts, a round trip through
DDR, data operations that come first, a buffer in parts that is evicted more than
once, two chains that compete for memory, an input shared by layers.  In memories
of 4 to 9 some need no eviction, some many, and some do not fit.
States were sought for each branch that depends on the programs and were found:
spills of data operations removed, of buffers in two parts as well; writes
replaced by reading again; redundant writes; two relocations in one program;
spills moved; dependencies reduced; prefetches refused for fragmentation and
undone.  Control edges are dropped only in `feasible_allocation_race`, as only
there operations that share memory overlap in cycles.  Data of different
programs never meets, so a program is checked alone, from its own initial state.
`BarrierLimit` 8 and `PrefetchingLevelLimit` 35 are small enough and too large to
bind; `MaxEvents` 40 bounds the length of a schedule: one that outgrew it would be
reported by `SchedulerTerminates`.  `Thresholds` selects the full closure and the
partial one.

Fairness.  The simulator is a sequential function and `WF(Next)` says it goes
on.  On the NPU some step is taken whenever one is possible (`WF(RunStep)`); no
FIFO is favoured.  For folding, each task, the listener and the shutdown of the
compiling thread run when they can: the constructor turns folding off unless the
pool has more than one thread.  Spurious wakeups and requests are not fair, as
nothing makes them happen.

The configuration of `folding` with two tasks has a limit that is not reached,
since what is evicted is allowed to be gone; the ones with one task have eviction.
The accounting is exact only with one task, which is the default number of threads
(`VC/include/vpux/compiler/core/pipelines_options.hpp`).  With two,
tasks asked for the same constant can both pass `hasContent`, and `addContent`
(`constant_folding_cache.cpp:85`) then adds its size twice: `MemoryMatchesCache`
does not hold there.  Nor is it claimed with equivalences among the requests
(`NoEquivalence`), which leave the counter alone.  `ReferencesStayValid`
fails as soon as a cache overflows; it holds with one task and a limit that is
not reached.

A call of `LinearScan` is a sequential function too (`WF(CallStep)`); nothing
makes a client call.  The feasible allocation pass is one thread; `FairPassSpec`
is `WF(PassNext)`, written without ENABLED: it goes on changing the state until it
has returned or thrown.

## 5. Findings

1. `constant_folding_in_background.cpp:138`: lost wakeup between a finishing
   task and the listener, or the destructor (`folding_lost_wakeup`).
2. `constant_folding_in_background.cpp:240`: the cache is removed before the
   tasks that use it have finished (`folding_shutdown`).
3. `constant_folding_cache.cpp:131`: a reference to a cached buffer may outlive
   the entry (`folding_evicted_reference`).
4. `feasible_memory_scheduler_control_edges.cpp:357`
   (`feasible_allocation_race`): `unscheduleAllCompletingOps` ends every
   operation that the slowest executor has passed, in cycles, and memory is given
   back with the last user of a buffer.  The executors are aligned with that
   user, not with one that ends later, so the next writer may begin while another
   operation is still reading.  The edge that would order the two is dropped,
   because operations that overlap in cycles are taken to have been meant to
   (line 355).  The programs of the passing run have no operation that runs so much
   longer than the last user of its input.
5. `feasible_memory_scheduler_spilling.cpp:444` (`feasible_allocation_erase`):
   the positions of the spills of several relocated operations are erased in an
   order that is not descending, unlike at line 865, so other entries go.

Met while modelling, without a run of their own:

`constant_folding_cache.cpp:142`: `replaceContentAttr`, documented as thread-safe
(`constant_folding_cache.hpp:217`), inserts the new entry while it holds the
original one.  Two tasks that rename in opposite directions, with both constants
cached, wait for each other forever, and so does whoever needs one of the two
entries afterwards.  `folding` reaches this state; it is the exception
(`BlockedRenames`) that `EveryTaskFinishes` makes, and without it TLC reports the
behaviour.  Two tasks are then all that run; with more, others wait behind them, as
the property allows.  Opposite directions lose results as well: a partial fold finds
the original, stores the extended constant, another task renames that one back, and
the partial fold removes the original.  Hence extensions and renames go the same way
in `Concurrent`, and `Exchanging` has no extensions.  Equivalences are meant for
replacing a list of transformations by a better one, and no pass enqueues them yet,
but nothing forbids either direction.

`barrier_simulator.cpp:743` erases from `prevVidOfPhysBar` at indexes collected
while `toVirtual` was being erased from, so that the two are misaligned when a
legalization run drops several PIDs at once.  The WLM search of that run reads the
vector.  With two PIDs a wrong entry is never one it depends on, so the runs do not
show a consequence, and no property of theirs would; with more PIDs a PID may be
judged by the wrong VID.

`linear_scan.hpp:545`: a call of `alloc`
that fails after it took spill candidates does not restore them, against its
documentation, and if the handler refuses to spill one, the new range's block
leaks as well.  The handler the compiler uses does not implement spilling, and
its calls pass `allowSpills = false`, for which `NoTraceLeft` shows the promise
kept.

## 6. Proofs

`BarrierSimulatorProofs` proves, for every set of well-formed schedules, every
number of PIDs and FIFOs, all slot limits and all modes:

- `TypeCorrect`: `Spec => []TypeOK`;
- `MappingCorrect`: `Spec => []MappingsAgree`, and `RingCorrect`:
  `Spec => []RingHoldsFreePids`, from one invariant (`MappingInv`);
- `NeighbouringPagesShareNoPid`: the PIDs `simulateBarriersForWlmPageApproach`
  gives to a page and the next one are all different.

Assumptions: those on the constants in `BarrierSimulator` (`NumPids` and
`NumFifos` positive, schedules well formed: barriers and FIFOs in range, no
barrier twice in one list of a task, positive slot counts).  TLC evaluates them
in every run, like the one that only `BarrierPassesProofs` uses
(`ControlsAssumption`, below).

The type invariant is not inductive alone: `HeadTask` and the barriers a step
works on are in range only where the program counter says so.  `ControlOK` adds
that a task that runs is not past the end of its FIFO.

The mapping needs more (`MappingInv`).  Consuming the last slot of a barrier
frees the PID `realId` names, without a look at `toVirtual`; the two properties
survive that only if the barrier is still the one programmed there.  Hence
`UnconsumedKeepPid`: when PIDs are assigned, a VID with a PID and slots left to
consume is programmed on it.  `NothingMappedYet` makes VIDs from `bar` on have
no PID while PIDs are assigned, so that mapping one never touches a VID that is
live; it also covers the parse loop, where the slot counts still grow.
`QueuedHavePid` ties the queues of the page approach to `realId`.  Each action
then has one step of the proof; actions that leave the mapping alone share
`MappingQuiet`.  The ring is handled by two lemmas about sequences:
`TakeFromRingKeepsOthers` (taking position k keeps every other PID, once) and
`AppendToRing`.

About the slots it proves, under the same assumptions:

- `SlotsCorrect`: `Spec => []SlotsBalance`;
- `TaskBarriersCorrect`: `Spec => []TaskBarriersProgrammed`.

The counts the simulator keeps per barrier are tied to the tasks (`CountsOK`):
they are at every moment the slots of the tasks that are still queued and use the
barrier, less what the running task has already done.  A count that is zero
then means that no task is left, as slots are positive, and subtracting can never
go below zero.  `QueueOK` says that a task is in one FIFO, once.
`UnproducedKeepPid`, the counterpart of `UnconsumedKeepPid`, holds because a PID is
given back by a consumer, which ran only when no producer was left.

`BarrierPassesProofs` is about what the assignment hands over, from the moment a
schedule is parsed to the NPU:

- `PidReuseCorrect`: `PassSpec => []WlmPidReuseIsOrdered`;
- `AssignedMappingCorrect`: `PassSpec /\ Dynamic => []AssignedMappingValidates`.

`Dynamic` in an initial state says that the first simulation searches PIDs among
the free ones, under WLM or not.  In the page mode validation also needs what the
page split guarantees of the pages, which is not modelled as an assumption; there
the property is checked by TLC only.

They need one more assumption, `ControlsAssumption`, on what the passes before
leave in the IR: tasks are numbered in an order in which they can run
(`orderExecutionTasksAndBarriers`, which throws if there is none), so that the
producers of a barrier come before its consumers; the control map leads from a task
only along FIFOs and barriers (`buildTaskControlMap`), across blocks through the
sync task between them; and a barrier that is waited on has a producer
(`barrier_info.cpp:1385`).  It says nothing of which paths the map holds, so it
covers the maps with and without FIFO edges.  TLC evaluates it for the schedules
of `BarrierSchedules`, whose maps are computed as the code does.

For the reuse, the NPU has nothing but the order of the FIFOs and the barriers.
`RunInOrder` says what that gives: a task starts only after all that are directly
before it, and its wait barriers have no producer left.  The other half is made much
earlier, by the search: `ReuseFollowsPaths` says that a control path leads from
every consumer of a VID to every producer of the next VID of the same PID.  The
check of the code asks this of `prevVidOfPhysBar` alone; that this is the latest
VID on the PID is `PrevIsLatest`, and that mapping goes in VID order
`MappedInOrder`.  `EarlierVidsConsumed` goes from the next VID to every later one:
the smallest later VID for which it failed has a VID right before it on the PID,
whose consumers have all started, and so one of its producers has run already.

That a mapping validates is shown without following the search.  `Orderable(V, T)`
says that among any of the VIDs in V and tasks in T, not all gone, one has nothing in
the rest that must precede it: for a VID the smaller VIDs and the consumers of the
earlier VIDs of its PID, for a task its barriers and the tasks directly before it.
The search keeps `Orderable` of what it has mapped and run, since each step adds
one element that comes after all before it; a search that succeeds has
covered the whole schedule.  The static simulation then cannot be stuck
(`NeverStuck`): of the VIDs and tasks it has left, `Orderable` names one, and it is
the next VID, whose PID its consumers have given back, or the head of a FIFO,
ready to run.  `WhyStuck` records what an iteration without progress has looked at,
and `StaticPids` that a PID is free as soon as its VID is consumed.  The slot checks
cannot fail the second time because they passed the first (`SlotsFit`).

The invariants, `PassInv` and `SearchInv`, contain those of `BarrierSimulatorProofs`
about mapping and slots, which hold of a simulator that was just built, by either
pass (`Fresh`).

`BarrierLegalizationProofs` is about the run that adds PIDs, and the plain run
after it:

- `VerdictCorrect`: `LegalSpec => [](mode = "dynamic" => VerdictIsExact)`;
- `LegalizationNeverThrows`: `LegalSpec => []NeverThrows`;
- `BatchesCorrect`: `LegalSpec => []BatchesExceedLimit`.

Assumptions: those of the simulator, `ControlsAssumption` above, and
`LegalModesAssumption`: the pass throws unless barriers are virtual
(`reduce_exceeding_active_count_barriers.cpp:329`).  TLC evaluates it, too.  The
lemmas about single steps of the simulator are stated for any set of PIDs
(`Types`, `SimOK`), so that they hold while the set grows and shrinks; only
`BaseInv` adds that the PIDs are those of the hardware.

The verdict compares two runs that map and run in different orders, with different
numbers of PIDs.  What they have in common is the schedule: `DeadEnd(b, P)` says
that with b VIDs mapped and the tasks P left, `NumPids` PIDs let nobody map a VID
and no task can run.  It does not mention PIDs or `realId`.  `ActiveNow` says that
who holds a PID depends on b and P only, so a simulation that is stuck is in a dead
end (`BlockedIsDeadEnd`).  `DeadEndsAhead` is the converse, that a run within the
limit never gets past one: what it has mapped and run is always part of what has
been in the dead end.  A step that left that part would be possible in the dead end
as well (`AheadMap`, `AheadEnd`): with fewer tasks pending there are fewer VIDs active
(`ActiveGrow`) and fewer tasks to wait for.  Hence a run that ends with everything
done has met none, and whether a schedule has a dead end decides both runs.
A legalization run that adds a PID was stuck within the limit the first time
(`Legalizing`), and from then on only has to remember it.

Nothing of the code keeps free PIDs few, yet it throws when one beyond the limit
is left unmapped.  `RoomToGrow` is why it does not: a PID is added only when no PID
is free and a VID waits, which takes it in the next iteration, and at the end of
an iteration all free PIDs beyond the limit go.  `BatchFollows` ties that PID to the
batch it opens.  `Shrink` renumbers the PIDs; `EraseKeepsOthers` says that an
index moves down by the erased ones below it, which is the correction `realId`
gets, and `Renumbered` that a simulation goes on unharmed under any such
renumbering.  The indexes at which `prevVidOfPhysBar` is erased are other ones, but
without WLM nobody reads it.

`ConstantFoldingProofs` proves, for every set of constants and requests, every
number of folding threads and every limit:

- `TypeCorrect` and `ActiveCorrect`: `Spec => []TypeOK` and
  `Spec => []ActiveTasksBounded`;
- `MemoryCorrect`: `Spec => [](LimitsFit => MemoryMatchesCache)`;
- `FoldedCorrect`: `Spec => [](FoldOnly => FoldedStaysCached)`.

The bound on tasks is inductive because only the listener adds to the counter,
after it has tested it, while all others subtract; `FoldingInv` adds where a task
may be, by the kind of its request (`JobsFit`), and which entries are locked
(`LocksHeld`).  `MemoryMatchesCache` is about one folding thread; its invariant
(`OneAccount`) says, at each place the one task can be, how far the counter is from
the sizes of what is cached: ahead by what was erased and not yet subtracted, or
behind by what was stored and not yet added.
`LimitsFit` holds the three hypotheses without which the counter of the code is
not exact: no equivalences, since `replaceContentAttr` may overwrite an entry
whose size is in the counter; a threshold below 1, so that cleaning begins above
the level it ends at; and a limit that leaves room for one more constant in a
`size_t`.  The runs check instances of each kind.  `FoldedCorrect` needs, as the
property does, a limit that leaves nothing to evict; that the counter never reaches it,
although two tasks may add the size of one constant twice, is
`memory <= Cardinality(Counted) * LargestSize`.  `FoldOnly` restricts it to what
`ContentAttr::get` asks for; the other kinds of requests are checked by TLC.

`DataTheorems` begins with `MapThenSumSet` of the community modules: adding and
removing one element, sums of equal functions, bounds.  The library's induction
theorems cannot be used, as they take an operator as a parameter, but their basis
can: a set of counterexamples that is not empty has a minimal one (`WFMin`,
`MinimalSubset`).

`PartitionerProofs` proves, for every memory size and all sizes and alignments:

- `TypeCorrect`, `GapsStaySeparated`, `MemoryStaysPartitioned`:
  `Spec => []TypeOK`, `[]GapsSeparated` and `[]MemoryPartitioned`;
- `AllocStaysComplete`: `Spec => []AllocFindsRoom`.

Assumptions: the memory is not empty, sizes and alignments are positive, as
`partitioner.cpp` asserts.  The invariant is the conjunction of the first three:
`alloc` may hand out a block only because what is in a gap is in no block
(`MemoryPartitioned`), and `free` and the binary search of `allocFixed` are right
only in a list in order (`GapsSeparated`).  The argument is about what a list of
gaps covers, and is in `DataTheorems`, as the proofs about the other two
allocators need it as well.
`SpliceGaps` says it for the one operator that changes a list;
`UseGapTakesBlock` and `FreeIntoAdds` follow: taking a block removes exactly its
addresses, freeing adds exactly its addresses.  `FreeIntoAdds` needs that a block
no address of which is free lies between two neighbouring gaps or at an end,
which is the least element of a set of indexes (`NatMinimum`).  Completeness rests
on `AlignedMultiples`: stepping down by one alignment is enough when rounding up
went too far.

`LinearScanProofs` proves, for every memory, all ranges (with and without fixed
addresses), reserved blocks, regions, calls and answers of the handler:

- `TypeCorrect`, `LiveRangesCorrect`, `NoTraceCorrect`, `SuccessCorrect`:
  `Spec => []TypeOK`, `[]LiveRangesDisjoint`, `[]NoTraceLeft` and
  `[]SuccessKeepsOthers`;
- `PartitionerUsedCorrectly`: `Spec => UsesPartitioner`, that is `Spec => P!Spec`:
  `LinearScan` implements the client of `Partitioner`, with what it holds as the
  blocks that are in use.

Assumptions: sizes and alignments are positive; reserved blocks are in the memory
and do not overlap; a fixed address is in the memory and not in a reserved block.
TLC evaluates them.  None of the properties is inductive, and they share one
invariant (`Good`).  Its core is `Owns(gaps, Owned)`: the blocks that LinearScan
holds, each with what it is held for (a reserved block, a live or pending range,
the range being placed, memory held until the call returns), are apart, and the
gaps are exactly what they leave.  Two blocks of equal extent are told apart by
their owner, without which freeing one of them could not be followed.  Around it:

- `RangesOnce`: a range is live, pending, a candidate or still to be placed, and
  only one of these;
- `CandidatesApart`: a spill candidate has given its memory back, and only the
  range being placed may have taken it, so that one that does not conflict can be
  restored where it was (`allocFixed` would not notice);
- `FixedOK`: ranges with a fixed address are placed before all others and are
  apart from each other and from what is pending, so that testing them against
  live ranges only, as `allocFixedRange` does, is enough;
- `PlacesOK`: what is empty at which place of a call;
- `CallInv`: what the call has changed since it was made.

Each action has one lemma with two conclusions: it keeps `Good`, and it is a step of
`Partitioner` or leaves gaps and blocks alone (`PStep`).  Actions that change the
gaps do it through three lemmas, for taking any block of a gap, taking a given
block and giving one back (`OwnsTake`, `OwnsFixed`, `OwnsGive`).  `NoTraceLeft`
then follows from `OwnsUnique`: what is owned determines the list of gaps, since a
list in which no two gaps touch is determined by the addresses it covers.

`MemorySchedulerProofs` proves, for every program, memory size, number of ports
and limit:

- `SchedulerInvariant`: `Spec => []IInv`, the inductive invariant;
- `TypesCorrect`: `Spec => []TypeOK`;
- `MemoryCorrect`: `Spec => []MemoryMatchesAlive`;
- `RollbackCorrect`: `Spec => RollbackIsExact`;
- `ScheduleCorrect`: `Spec => []OpsFollowDeps`;
- `AllocationSucceeds`: `Spec => [](InCall => CanAlloc(m, call.bufs))`, so the
  `VPUX_THROW_UNLESS` in `sortAndAllocateBuffers` never fires.

The only assumption is `ProgramsAssumption`, which TLC evaluates.  None of these
properties is inductive, and they share the invariant of `MemorySchedulerInvariant`:

- `Memory(m, Held)`: every address is either in a gap or in the block of exactly one
  buffer that has its memory.  In a call of `scheduleComputeOps` these are the
  buffers alive before it: the others come to life when their operation is
  scheduled but get memory only at its end, after prefetching;
- `CallInv`: they fit, and they are exactly what the operations still to be
  scheduled will bring to life and what was brought to life already, so the
  allocation at the end succeeds and gives no two buffers one address;
- `DoneInv(D)`, for some set `D` of operations that count as done: the degrees are the
  numbers of dependencies outside `D`, and what is ready depends on `D` only.
  The code keeps no such set.  DMAs enter it when they are scheduled, compute
  operations when they end, data operations when they become ready;
  it is why an operation that is chosen needs at most data operations with it
  (`NeededAreData`), and those need nothing (`NothingNeeded`);
- `OneOriginal`: a compute operation is in the heaps once, so that it unlocks
  what depends on it once;
- `DeltasFit(call.saved, m)`: for each of the three maps, an entry is new, or
  has its old value noted down, or is what it was.  An old value that is noted
  twice, or an entry that was new and is then changed, would break it; `MapStillFits` shows
  that the first note wins and that `ExactRevert` undoes it.  What was
  saved is itself a state in which the invariant holds (`SavedInv`), which makes
  giving up a step like the others (`GiveUpKeeps`);
- `CandidatesInv` and `WritesInv`: a cached eviction candidate still
  was written by something scheduled, and a buffer with its spill write
  in the heap is not alive.

`OpsFollowDeps` rests on a second invariant, `LogInv`, which is inductive together with
the first.  It is about the log of all that was scheduled: the events and the
elements still in the heap (`Log`), each with its operation, its cycles and the buffers it
uses.

- `EntriesOK`: an operation counts as scheduled (`opEnd` is set) exactly if it has
  an original entry; it has one only, and that begins after those of its
  dependencies have ended, since `opEnd` bounds their entries and
  `getCurrentCycleAndExecutorInstanceMask` takes the greatest `opEnd` of the
  dependencies.  A spill may raise `opEnd` of an operation later, never lower it;
- `UsesOK`: no entry of a buffer ends after its last use, or, once the buffer is in
  DDR, after any executor is free.  A spill is the reason: its write or read is
  another entry of the same operation, and only because they end later than each
  other does the sort of the schedule have an order for them (`EventsComparable`);
- `Unscheduled`: what is ready was not scheduled, which is why nothing is scheduled
  twice; `Waiting` says the same of the DMAs of a call;
- the log holds for `call.saved` as well, so that after giving up, operations that
  were scheduled in vain have no entry;
- `EventsOK` and `OutputsInv`: no two events have one entry, and the loop ends only
  when all operations without consumers are in the schedule.  Then all are
  (`AllScheduled`): the last one that is not would have a consumer that is, and what a
  scheduled operation depends on was scheduled.

Each helper hands on the log (`KeepsLog`, and `Logged` in the predicates about
eviction), so that each action needs one more lemma (`MoveLogged`, ...).  That
`Sorted` loses and doubles nothing is part of the proof: `MovedBefore` is a strict order
of the heap because of `HeapOK`, `ScheduledBefore` one of the events because of
`EntriesOK`.

`MemoryMatchesAlive` speaks of sizes and not of addresses; the two are connected by
counting: the sizes of the gaps count the addresses they cover (`GapsCountAddresses`), the
sizes of the buffers those of their blocks (`SizesCountAddresses`).

The helpers are folds over sorted lists, with operators that no prover can
instantiate.  `DataTheorems` says of `FoldLeft` what can be said with
functions instead: `FoldWithin` takes the values that the fold may have for each set of
positions (`W`), and gives a function that has such values and solves the
equation of the fold (`FoldSolution`); the proof about a helper shows that
its fold is that function (`GapsFreed`, `PlacedBuffers`, `DataOpsGrow`,
`SelectedAll`).  `ByRankIsSorted` does the same for `Sorted`: by rank, every member of a
set in a strict order comes once.

Only model-checked, and why: all liveness (termination, no deadlock, requests
served), since the prover does not handle fairness; the properties of
`FeasibleAllocation`, which has a recursive operator; of `MemoryScheduler`,
`UsesFindTheirData`, which needs an invariant about the cycles in which every
address belonged to each buffer, and `FailsOnlyWithoutRoom`, which
rests on progress: that something can be evicted or is alone in memory;
`VerdictIsExact` under WLM, where what can be
mapped depends on the PIDs chosen before and not on what has been done alone;
`AssignedMappingValidates` in the page mode, and what the NPU is promised in the
end (`ValidatedScheduleRuns`), which is liveness.  The schedules of `BarrierSchedules` are
folded and sorted with library operators that only TLC evaluates.

## 7. Not modelled

`linearizeBarriers` and the slot split of the legalization pass;
`calculateBarrierBatchesForParallelTasks`; `generateBarrierOrderWithSimulation`
and `updateBarrierOrderInIr`, which nothing calls; `clean_after` and
`start_after` attributes; statistics of the folding cache; iteration over the
concurrent map while it changes, and collisions of hash codes, where the outcome
is decided by the library and the hash; the cache manager with several contexts;
`totalFreeSize` and `maxFreeSize`, which only read; the dynamic-spill bookkeeping
of the handler of `LinearScan`; wrap-around of addresses at 2^64, since memory
sizes are far below; and the components of 1.5.

Of 1.4: loop regions (`feasible_memory_scheduler.cpp:1166-1800`) and prefetching
of data operations across them; `concurrent_scheduler.cpp`, whose two threads
write costs to one vector (lines 27-37) and which takes the schedule with the
smaller end cycle of its last entry (lines 52-72); operations with several
results, operations that work in place, and view operations inside a consumer,
which make `identifyDataOpsWithInputOverwrite` and the partial removal of data
operations matter; DMA channels other than the two; alignments above 1;
statistics, strides and the rewriting of types when a spill is inserted.
