---------------------- MODULE MemorySchedulerInvariant ----------------------
(***************************************************************************)
(* The inductive invariants of MemoryScheduler, and what each of its       *)
(* helpers and steps does to a state.  MemorySchedulerProofs proves that   *)
(* it is so.                                                               *)
(*                                                                         *)
(* The inductive invariant IInv says that memory is exactly divided: an    *)
(* address is either in a gap or belongs to one buffer that is alive and   *)
(* already placed (Memory); that the three maps a rollback restores entry  *)
(* by entry can be restored exactly (DeltasFit); that what a call of       *)
(* scheduleComputeOps chose still fits when its buffers are placed         *)
(* (CallInv); and that there is a set D of operations that count as done,  *)
(* from which the degrees and the ready lists follow (DoneInv).  The last  *)
(* is what the others need: an operation that is chosen waits for nothing  *)
(* but data operations, so that the call knows all that it brings to life. *)
(*                                                                         *)
(* LogInv is the invariant of the schedule.  The log is what the schedule  *)
(* and the heap hold together: an operation that counts as scheduled has   *)
(* one entry of its own, which begins after those of its dependencies have *)
(* ended, and entries of one operation that share a buffer end at          *)
(* different cycles, so that sorting the schedule keeps them apart.        *)
(***************************************************************************)
EXTENDS MemoryScheduler, DataTheorems

-----------------------------------------------------------------------------
(***************************************************************************)
(* What a state is.                                                        *)
(***************************************************************************)
\* What the fields of the state hold.  Cycles begin with 1; Instances(q) are the ports
\* of queue q.
Cycles == Nat \ {0}
Instances(q) == 1 .. IF q \in DMAQueues THEN prog.ports ELSE 1
PartialMaps(K, V) == UNION {[D -> V] : D \in SUBSET K}

\* The entries to put back, and the cycles at which the ports of each queue are free.
Deltas ==
  [newProducers : SUBSET Buffers, oldProducers : PartialMaps(Buffers, Ops \cup {0}),
   newUses : SUBSET Buffers, oldUses : PartialMaps(Buffers, Nat),
   newEnds : SUBSET Ops, oldEnds : PartialMaps(Ops, Nat)]

Pipelines ==
  {f \in [Queues -> PartialMaps(1 .. prog.ports, Cycles)] :
     \A q \in Queues : f[q] \in [Instances(q) -> Cycles]}

\* A heap has finitely many elements.
Heaps == {S \in SUBSET Elements : IsFiniteSet(S)}

\* The states that the helpers take and return.
States ==
  [gaps : Seq(GapRec),
   addr : [Buffers -> {Unallocated} \cup 0 .. prog.memory],
   alive : SUBSET Buffers,
   spilled : [Buffers -> Ops \cup {0}],
   pipelines : Pipelines,
   beginHeap : Heaps,
   readyCompute : SUBSET Ops,
   readyData : SUBSET Ops,
   producer : [Buffers -> Ops \cup {0}],
   lastUse : [Buffers -> Nat],
   opEnd : [Ops -> Nat],
   deltas : Deltas]

\* The ready lists have operations of their own kind.
ReadyOK(s) ==
  /\ s \in States
  /\ s.readyData \subseteq isDataOp
  /\ s.readyCompute \subseteq {i \in Ops : IsCompute(i)}

\* Where schedulingLoop is: in a call of scheduleComputeOps, in the part of it that
\* can be rolled back, and while there are operations chosen to be scheduled.
InCall == pc \in {"compute", "prefetch", "selectDMA", "dma", "prefetchDMA", "allocate"}
Trying == pc \in {"compute", "prefetch"}
Scheduling == pc \in {"compute", "dma"}

\* An operation to be prefetched and its level.
CandidateOps == [op : Ops, level : Nat]

\* The local variables of the call, as far as they are in use.
CallOK ==
  /\ call.bufs \subseteq Buffers /\ call.placed \subseteq Ops
  /\ pc \in {"prefetch", "prefetchDMA"} => call.todo \in Seq(CandidateOps)
  /\ Scheduling => call.todo \in Seq(Ops)
  /\ call = [todo |-> call.todo, placed |-> call.placed, bufs |-> call.bufs, alive |-> call.alive,
             fragmented |-> call.fragmented, saved |-> call.saved]
  /\ call.fragmented \subseteq Buffers
  /\ pc \in {"compute", "prefetch", "selectDMA"} => \A i \in call.placed : IsCompute(i)

-----------------------------------------------------------------------------
(***************************************************************************)
(* The invariant.                                                          *)
(***************************************************************************)
\* What holds of a state of the helpers at any time.
Consistent(s) ==
  /\ \A b \in Buffers : s.producer[b] # 0 => IsScheduled(s, s.producer[b])
  /\ \A b \in Buffers : s.spilled[b] # 0 => IsScheduled(s, s.spilled[b])
  /\ \A i \in Ops : IsScheduled(s, i) => \A b \in prog.outs[i] : s.producer[b] # 0
  /\ \A b \in s.alive : s.spilled[b] = 0
  /\ \A e \in s.beginHeap : IsOriginal(e) => IsScheduled(s, e.op)

\* Every buffer that is alive or spilled was written.
Written(s) == \A b \in Buffers : b \in s.alive \/ s.spilled[b] # 0 => s.producer[b] # 0

\* saved is map with the entries in new taken away and those in old put back.
MapFits(saved, map, old, new) ==
  \A k \in DOMAIN map :
    IF k \in new THEN saved[k] = 0
    ELSE IF k \in DOMAIN old THEN old[k] = saved[k] /\ map[k] # 0
    ELSE map[k] = saved[k]

\* The three maps that a rollback puts back entry by entry.
DeltasFit(saved, s) ==
  /\ MapFits(saved.producer, s.producer, s.deltas.oldProducers, s.deltas.newProducers)
  /\ MapFits(saved.lastUse, s.lastUse, s.deltas.oldUses, s.deltas.newUses)
  /\ MapFits(saved.opEnd, s.opEnd, s.deltas.oldEnds, s.deltas.newEnds)

\* How the ready lists follow from the operations in D, the ones that count as
\* done for those that depend on them.
ReadyFollow(s, dmas, D) ==
  /\ \A i \in s.readyCompute \cup s.readyData \cup dmas : Deps(i) \subseteq D
  /\ \A i \in D \ isDataOp : IsScheduled(s, i)
  /\ \A i \in s.readyCompute : ~IsScheduled(s, i)
  /\ \A i \in Ops \ isDataOp : IsScheduled(s, i) => Deps(i) \subseteq D

\* A DMA of this call, and one that waits for it.
ScheduledDMA(i, D) == i \notin D \cup isDataOp \cup readyDMA /\ IsScheduled(m, i)
WaitingDMA(i, D) == i \in Ops \ (D \cup isDataOp) /\ Deps(i) \subseteq D /\ ~IsCompute(i)

\* A compute operation is in the heaps once, and not after it is done.
OneOriginal(heap, D) ==
  /\ \A e, f \in heap : IsOriginal(e) /\ IsOriginal(f) /\ e.op = f.op /\ IsCompute(e.op) => e = f
  /\ \A e \in heap : IsOriginal(e) /\ IsCompute(e.op) => e.op \notin D

\* D explains the degrees.
Degrees(degree, D) == degree = [c \in Ops |-> Cardinality(Deps(c) \ D)]

\* What D explains of a state of the helpers.
DoneCore(s, dmas, degree, D) ==
  /\ Degrees(degree, D)
  /\ \A i \in D \cap isDataOp : Deps(i) \subseteq D
  /\ ReadyFollow(s, dmas, D)
  /\ dmas \cap D = {}

\* What the DMAs of the call are.
CallFollows(D) ==
  /\ \A i \in call.placed : IsCompute(i) \/ ScheduledDMA(i, D)
  /\ \A k \in DOMAIN call.todo : WaitingDMA(call.todo[k], D)

\* D explains the degrees and the ready lists; an operation counts once.
DoneInv(D) ==
  /\ DoneCore(m, readyDMA, inDegree, D)
  /\ Trying => ReadyFollow(call.saved, readyDMA, D)
  /\ OneOriginal(m.beginHeap \cup endHeap, D)
  /\ pc = "dma" => CallFollows(D)

\* What runs was scheduled.
RunningInv ==
  /\ \A e \in endHeap : IsOriginal(e) => IsScheduled(m, e.op)
  /\ Trying => \A e \in endHeap : IsOriginal(e) => IsScheduled(call.saved, e.op)

\* A buffer that may be evicted was written by an operation that was scheduled.
Candidates(s, cs) ==
  \A c \in cs : c.op \in Ops /\ c.buf \in Buffers /\ IsScheduled(s, c.op) /\ s.producer[c.buf] # 0

EvictionCandidates == [op : Ops, buf : Buffers, priority : Nat, consumer : Nat]

\* The candidates kept for a later eviction are candidates still.
CandidatesInv ==
  /\ candidates \subseteq EvictionCandidates /\ IsFiniteSet(candidates)
  /\ Candidates(m, candidates)
  /\ Trying => Candidates(call.saved, candidates)
  /\ InCall => prefetchSpill = NoCandidate
  /\ pc = "evict" /\ prefetchSpill # NoCandidate => Candidates(m, {prefetchSpill})

\* Nothing that is alive has its spill write in the heap, and nothing is written to
\* DDR in a call.
WritesInv ==
  /\ \A e \in m.beginHeap : e.type = "write" => pc \in {"loop", "done"} /\ e.buf \notin m.alive
  /\ pc = "select" => m.beginHeap = {}

\* What the schedule keeps of an element of the heap, and of an event.
EntryOf(e) ==
  [op |-> e.op, original |-> IsOriginal(e), begin |-> e.begin, end |-> e.end,
   bufs |-> IF IsOriginal(e) THEN UsedBuffers(e.op) ELSE {e.buf}]
EventEntry(e) ==
  [op |-> e.op, original |-> IsOriginal(e), begin |-> e.begin, end |-> e.end,
   bufs |-> BuffersOf(Accesses(e))]

\* All that was scheduled when the entries in P are in the schedule and the rest is in
\* the heap.
Log(s, P) == P \cup {EntryOf(e) : e \in s.beginHeap}

\* Every operation that counts as scheduled has one entry; what it depends on ended
\* before; and two entries of an operation that share a buffer differ in their end.
EntriesOK(s, P) ==
  /\ \A x \in Log(s, P) :
       /\ x.op \in Ops /\ x.begin \in Nat /\ x.end \in Nat /\ x.original \in BOOLEAN
       /\ IsScheduled(s, x.op)
       /\ x.original => x.bufs = UsedBuffers(x.op) /\ x.end <= s.opEnd[x.op]
       /\ ~x.original => \E b \in prog.outs[x.op] : x.bufs = {b}
  /\ \A x, y \in Log(s, P) : x.original /\ y.original /\ x.op = y.op => x = y
  /\ \A x \in Log(s, P) : x.original =>
       \A d \in Deps(x.op) :
         IsScheduled(s, d) /\ \A y \in Log(s, P) : y.original /\ y.op = d => y.end <= x.begin
  /\ \A i \in Ops : IsScheduled(s, i) => \E x \in Log(s, P) : x.original /\ x.op = i
  /\ \A x, y \in Log(s, P) : x # y /\ x.op = y.op /\ x.bufs \cap y.bufs # {} => x.end # y.end

\* The next entry of a buffer ends after the others: a buffer in memory is not written
\* to DDR before its last use, and one in DDR is not read back before any executor is free.
UsesOK(s, P) ==
  /\ \A x \in Log(s, P) : \A b \in x.bufs :
       IF s.spilled[b] = 0 THEN x.end <= s.lastUse[b]
       ELSE \A q \in Queues : \A k \in Instances(q) : x.end <= s.pipelines[q][k]
  /\ \A b \in Buffers : s.spilled[b] # 0 => b \in prog.outs[s.spilled[b]]
  /\ \A b \in Buffers : s.producer[b] # 0 => b \in prog.outs[s.producer[b]]

\* The heap holds what is not in the schedule yet.
HeapOK(s, P) ==
  /\ \A e \in s.beginHeap :
       /\ EntryOf(e) \notin P
       /\ IF IsOriginal(e) THEN e.buf = NoBuffer ELSE e.buf \in Buffers /\ e.end = e.begin + SpillCost(e.buf)
  /\ \A e, f \in s.beginHeap : EntryOf(e) = EntryOf(f) => e = f

Logged(s, P) == EntriesOK(s, P) /\ UsesOK(s, P) /\ HeapOK(s, P)

\* No executor of t is free sooner than in s.
NotSooner(s, t) == \A q \in Queues : \A k \in Instances(q) : s.pipelines[q][k] <= t.pipelines[q][k]

\* The operations in new wait for nothing and were not scheduled.
Schedulable(s, new) == \A j \in new : ~IsScheduled(s, j) /\ \A d \in Deps(j) : IsScheduled(s, d)

\* Scheduling them keeps the log in order.
KeepsLog(s, t, new) == \A P : Logged(s, P) /\ Schedulable(s, new) => Logged(t, P)

\* Address x belongs to buffer b.
InBlock(s, b, x) == s.addr[b] <= x /\ x < s.addr[b] + prog.size[b]

\* The buffers held have their own memory and everything else is free.
Memory(s, held) ==
  /\ IsGapList(s.gaps, prog.memory)
  /\ \A b \in held : s.addr[b] \in Nat /\ s.addr[b] + prog.size[b] <= prog.memory
  /\ \A b, c \in held : b # c => ~Overlap(b, s.addr[b], c, s.addr[c])
  /\ \A x \in 0 .. prog.memory - 1 : Covers(s.gaps, x) <=> ~\E b \in held : InBlock(s, b, x)

\* The buffers of the call are placed at its end.
Held == IF InCall THEN m.alive \ call.bufs ELSE m.alive

\* What holds of the state at every step.
StateInv ==
  /\ Consistent(m) /\ Written(m)
  /\ Memory(m, Held)

\* The buffers that the operations still to be scheduled will bring to life.
ToCome == IF Scheduling THEN UNION {BuffersFor(m, call.todo[k]) : k \in DOMAIN call.todo} ELSE {}

\* What was chosen still fits, and the buffers of the call are the ones to be placed.
CallInv ==
  InCall =>
  /\ call.bufs \subseteq m.alive \cup ToCome
  /\ ToCome \subseteq call.bufs
  /\ CanAlloc(m, call.bufs)
  /\ pc = "compute" => /\ \A k \in DOMAIN call.todo : call.todo[k] \in m.readyCompute
                       /\ \A j, k \in DOMAIN call.todo : call.todo[j] = call.todo[k] => j = k

\* What a rollback goes back to.
SavedInv ==
  Trying =>
  /\ ReadyOK(call.saved) /\ Consistent(call.saved) /\ Written(call.saved)
  /\ Memory(call.saved, call.saved.alive)
  /\ call.saved.beginHeap = {}
  /\ DeltasFit(call.saved, m)

\* A data operation is a DMA from DDR that waits for no data operation.
DataOpsOK ==
  /\ isDataOp \subseteq Ops
  /\ \A i \in isDataOp : prog.queue[i] = "DMA_DDR" /\ Deps(i) \cap isDataOp = {}

\* The operations that computeOrder still holds.
OrderOK(order) ==
  /\ order \in [ComputeQueues -> Seq(Ops)]
  /\ \A q \in ComputeQueues : \A k \in DOMAIN order[q] : prog.queue[order[q][k]] = q

\* What init computes.
TablesInv ==
  /\ prog \in Programs
  /\ DataOpsOK
  /\ opLevel \in [Ops -> Nat]
  /\ OrderOK(computeOrder)

\* The types, with the finiteness that the proofs need.
TypeInv ==
  /\ pc \in {"loop", "select", "compute", "prefetch", "selectDMA", "dma", "prefetchDMA", "allocate",
             "evict", "done", "failed"}
  /\ ReadyOK(m)
  /\ readyDMA \subseteq {i \in Ops \ isDataOp : ~IsCompute(i)}
  /\ endHeap \in Heaps
  /\ users \in [Buffers -> SUBSET Ops] /\ outputOps \subseteq Ops
  /\ failed \in BOOLEAN
  /\ InCall => CallOK

\* What is ready was not scheduled, and what was waits for nothing.
Unscheduled(s, dmas, degree) ==
  /\ \A i \in s.readyData \cup dmas : ~IsScheduled(s, i)
  /\ \A i \in Ops : IsScheduled(s, i) => degree[i] = 0

\* The operations to come wait in dmas, each once.
Waiting(todo, dmas) ==
  /\ \A k \in DOMAIN todo : todo[k] \in dmas
  /\ \A j, k \in DOMAIN todo : todo[j] = todo[k] => j = k

\* The buffer of a candidate is one that its operation writes.
OutsWritten(cs) == \A c \in cs : c.buf \in prog.outs[c.op]

\* The entries of the schedule, one for each event.
Past == {EventEntry(e) : e \in Events}
EventsOK ==
  /\ scheduled \in Seq(Events) /\ IsFiniteSet(Events)
  /\ \A a, b \in Events : EventEntry(a) = EventEntry(b) => a = b

\* The scheduler stops when every operation without consumers is in the schedule.
OutputsInv ==
  /\ \A i \in Ops : Consumers(i) = {} => i \in outputOps \/ \E x \in Past : x.original /\ x.op = i
  /\ outputOps = {} => pc \in {"loop", "done"} /\ m.beginHeap = {}
  /\ pc = "done" => outputOps = {}

\* The invariant of the schedule.
LogInv ==
  /\ Logged(m, Past) /\ Unscheduled(m, readyDMA, inDegree)
  /\ Trying => Logged(call.saved, Past) /\ Unscheduled(call.saved, readyDMA, inDegree)
  /\ pc = "dma" => Waiting(call.todo, readyDMA)
  /\ OutsWritten(candidates)
  /\ prefetchSpill # NoCandidate => OutsWritten({prefetchSpill})
  /\ EventsOK /\ OutputsInv

\* The inductive invariant.
IInv ==
  /\ TablesInv /\ TypeInv
  /\ \E D \in SUBSET Ops : DoneInv(D)
  /\ RunningInv /\ CandidatesInv /\ WritesInv /\ StateInv /\ CallInv /\ SavedInv

-----------------------------------------------------------------------------
(***************************************************************************)
(* The program.                                                            *)
(***************************************************************************)
\* What the program is, in the form that the proofs use.
ProgramOK ==
  /\ IsFiniteSet(Ops) /\ Ops \subseteq Nat \ {0}
  /\ IsFiniteSet(Buffers) /\ Buffers \subseteq Nat \ {0}
  /\ prog.queue \in [Ops -> Queues] /\ prog.size \in [Buffers -> Nat \ {0}]
  /\ prog.ins \in [Ops -> SUBSET Buffers] /\ prog.outs \in [Ops -> SUBSET Buffers]
  /\ prog.cost \in [Ops -> Nat] /\ prog.deps \in [Ops -> SUBSET Ops]
  /\ prog.memory \in Nat \ {0} /\ prog.ports \in Nat \ {0}
  /\ \A i \in Ops :
       /\ \A d \in Deps(i) : d < i
       /\ \A b \in prog.ins[i] : \E d \in Deps(i) : b \in prog.outs[d]
       /\ prog.queue[i] = "DMA_DDR" => prog.ins[i] = {}

-----------------------------------------------------------------------------
(***************************************************************************)
(* What the helpers do to a state s, which gives t or u.                   *)
(***************************************************************************)
\* What an update of a map and of its entries must be for MapFits to stay true.
MapChanges(map, old, new, map2, old2, new2, keys, kept) ==
  /\ DOMAIN map2 = DOMAIN map
  /\ \A k \in DOMAIN map : k \notin keys => map2[k] = map[k]
  /\ \A k \in keys : map[k] # 0 => map2[k] # 0 /\ k \in kept
  /\ kept \subseteq keys
  /\ \A k \in DOMAIN map : k \in new2 <=> k \in new \/ (k \in keys /\ map[k] = 0)
  /\ old2 = Keep(old, kept, map)

\* What Push takes the element to write and to use.
WrittenBy(e) == IF e.type = "read" THEN {e.buf} ELSE IF IsOriginal(e) THEN prog.outs[e.op] ELSE {}
UsedBy(e) == IF IsOriginal(e) THEN UsedBuffers(e.op) ELSE WrittenBy(e)

\* What updateBufferCycleUseAndProducer leaves alone and what it changes.
BuffersUpdated(s, t, op, end, written, used) ==
  /\ t \in States
  /\ t.gaps = s.gaps /\ t.addr = s.addr /\ t.alive = s.alive /\ t.spilled = s.spilled
  /\ t.pipelines = s.pipelines /\ t.beginHeap = s.beginHeap
  /\ t.readyCompute = s.readyCompute /\ t.readyData = s.readyData /\ t.opEnd = s.opEnd
  /\ t.producer = [b \in Buffers |-> IF b \in written THEN op ELSE s.producer[b]]
  /\ \A b \in Buffers : s.lastUse[b] <= t.lastUse[b] /\ (b \in used => end <= t.lastUse[b])
  /\ \A saved : DeltasFit(saved, s) => DeltasFit(saved, t)

\* Cycles only move forward, those of what e uses to its end.
Later(s, t, e) ==
  /\ \A b \in Buffers : s.lastUse[b] <= t.lastUse[b] /\ (b \in UsedBy(e) => e.end <= t.lastUse[b])
  /\ e.end <= t.opEnd[e.op] /\ \A i \in Ops : s.opEnd[i] <= t.opEnd[i]
  /\ (\A k \in e.ports : s.pipelines[e.queue][k] <= e.end) => NotSooner(s, t)

\* The element e comes after the entries in L that it has to come after.
ComesAfter(s, e, L) ==
  /\ IsOriginal(e) =>
       /\ ~IsScheduled(s, e.op) /\ e.buf = NoBuffer
       /\ \A d \in Deps(e.op) : IsScheduled(s, d) /\ s.opEnd[d] <= e.begin
  /\ ~IsOriginal(e) =>
       /\ IsScheduled(s, e.op) /\ e.buf \in prog.outs[e.op] /\ e.end = e.begin + SpillCost(e.buf)
       /\ \A x \in L : e.buf \in x.bufs => x.end <= e.begin

\* t is s with e in the heap.
HasElement(s, t, e) ==
  /\ t.beginHeap = s.beginHeap \cup {e}
  /\ \A i \in Ops : IsScheduled(t, i) <=> IsScheduled(s, i) \/ i = e.op
  /\ Later(s, t, e)

\* A sequence without repetitions.
Distinct(q) == \A j, k \in DOMAIN q : q[j] = q[k] => j = k

\* Below(S) is the order of Ascending.
Below(S) == {p \in S \X S : p[1] < p[2]}

\* The order of SortUsedBuffers as a set of pairs.
Placement(S) == {p \in S \X S : PlacedBefore(p[1], p[2])}

\* What is scheduled only adds to what is alive, scheduled and in the heap, and uses
\* up what was ready or spilled.
Grows(s, t, new) ==
  /\ t \in States /\ Consistent(t)
  /\ t.gaps = s.gaps /\ t.addr = s.addr /\ s.alive \subseteq t.alive
  /\ t.readyCompute = s.readyCompute /\ t.readyData \subseteq s.readyData
  /\ \A b \in Buffers : s.producer[b] # 0 => t.producer[b] # 0
  /\ \A b \in Buffers : t.spilled[b] = s.spilled[b] \/ t.spilled[b] = 0
  /\ \A i \in Ops : IsScheduled(s, i) => IsScheduled(t, i)
  /\ \A i \in Ops : IsScheduled(t, i) => IsScheduled(s, i) \/ i \in new
  /\ s.beginHeap \subseteq t.beginHeap
  /\ \A e \in t.beginHeap \ s.beginHeap : e.type # "write" /\ (IsOriginal(e) => e.op \in new)
  /\ \A saved : DeltasFit(saved, s) => DeltasFit(saved, t)
  /\ KeepsLog(s, t, new)

\* One element at most goes into the heap and nothing becomes alive.
PushesOne(s, t) ==
  /\ t.alive = s.alive /\ t.readyData = s.readyData
  /\ \A e, f \in t.beginHeap \ s.beginHeap : e = f

\* The order of the data operations an operation needs: by cycle, then in IR order.
Earlier(u, a, b) ==
  LET ca == CurrentCycle(u, a) cb == CurrentCycle(u, b)
  IN  ca < cb \/ (ca = cb /\ a < b)

\* The needed data operations in the order in which they are scheduled.
ByCycle(u, S) == Sorted(S, LAMBDA a, b : Earlier(u, a, b))

\* The data operations that an operation needs, in the order of a sequence.
DataOps(s, seq) == FoldLeft(LAMBDA acc, d : ScheduleDataOp(acc, d, "original"), s, seq)

\* What scheduling all of them does.
DataOpsDone(s, t, needed) ==
  /\ Grows(s, t, needed)
  /\ t.alive = s.alive \cup UNION {UsedBuffers(d) : d \in needed}
  /\ t.readyData = s.readyData \ needed
  /\ \A d \in needed : IsScheduled(t, d)

\* The operation comes after the data operations it needs.
OpKeepsLog(s, t, i) ==
  \A P : Logged(s, P) /\ Schedulable(s, NeededDeps(s, i)) /\ ~IsScheduled(s, i) => Logged(t, P)

\* What scheduleOp does for operation i.
OpDone(s, t, i) ==
  /\ Grows(s, t, NeededDeps(s, i) \cup {i})
  /\ t.alive = s.alive \cup BuffersFor(s, i) /\ t.readyData = s.readyData \ NeededDeps(s, i)
  /\ \A d \in Deps(i) \cup {i} : IsScheduled(t, d)
  /\ OpKeepsLog(s, t, i)
  /\ \A e, f \in t.beginHeap \ s.beginHeap :
       IsOriginal(e) /\ IsOriginal(f) /\ e.op = i /\ f.op = i => e = f

\* executePrefetch of a data operation or of an operation's spilled buffers.
PrefetchDone(s, t, op) ==
  /\ Grows(s, t, {op} \cap s.readyData)
  /\ t.alive = s.alive \cup (IF op \in s.readyData THEN UsedBuffers(op) ELSE SpilledBuffers(s, op))
  /\ op \in s.readyData => IsScheduled(t, op)
  /\ op \notin t.readyData

\* What a step that only delays the executors leaves alone.
SameButCycles(s, t) ==
  /\ t \in States
  /\ t.gaps = s.gaps /\ t.addr = s.addr /\ t.alive = s.alive /\ t.spilled = s.spilled
  /\ t.beginHeap = s.beginHeap /\ t.readyCompute = s.readyCompute /\ t.readyData = s.readyData
  /\ t.producer = s.producer /\ t.lastUse = s.lastUse /\ t.opEnd = s.opEnd /\ t.deltas = s.deltas

\* The gaps after freeing the buffers in dead one by one.
GapsWith(s, dead) ==
  FoldLeft(LAMBDA gs, b : FreeInto(gs, s.addr[b], prog.size[b]), s.gaps, Ascending(dead))

\* What freeing the buffers in bs does.
Freed(s, t, bs) ==
  /\ t \in States /\ Memory(t, t.alive) /\ t.alive = s.alive \ bs
  /\ t.addr = s.addr /\ t.spilled = s.spilled /\ t.pipelines = s.pipelines
  /\ t.beginHeap = s.beginHeap /\ t.readyCompute = s.readyCompute /\ t.readyData = s.readyData
  /\ t.producer = s.producer /\ t.lastUse = s.lastUse /\ t.opEnd = s.opEnd /\ t.deltas = s.deltas

\* What evicting the buffer of c does.
Evicted(s, t, c) ==
  /\ t \in States /\ Consistent(t) /\ Written(t) /\ Memory(t, t.alive)
  /\ t.alive = s.alive \ {c.buf}
  /\ t.readyCompute = s.readyCompute /\ t.readyData = s.readyData
  /\ \A b \in Buffers : t.producer[b] = s.producer[b]
  /\ \A i \in Ops : IsScheduled(t, i) <=> IsScheduled(s, i)
  /\ \A e \in t.beginHeap : e \in s.beginHeap \/ (e.type = "write" /\ e.buf = c.buf)
  /\ c.buf \in prog.outs[c.op] => KeepsLog(s, t, {})

\* The memory that LinearScan::alloc returns, and one buffer of it.
Layouts == {v \in [gaps : Seq(GapRec), addr : [Buffers -> {Unallocated} \cup 0 .. prog.memory], fits : BOOLEAN] :
              IsGapList(v.gaps, prog.memory)}

\* The step of PlaceBuffers.
PlaceOne(acc, b) ==
  LET i == ChooseMinimalGap(acc.gaps, prog.size[b], 1, "Up")
      at == GetAddrFromGap(acc.gaps[i], prog.size[b], 1, "Up")
  IN  IF ~acc.fits \/ i = 0 THEN [acc EXCEPT !.fits = FALSE]
      ELSE [acc EXCEPT !.gaps = UseGap(@, i, at, prog.size[b]), !.addr[b] = at]

\* What LinearScan::alloc promises.
BuffersPlaced(s, r, held, bs) ==
  /\ r \in Layouts
  /\ \A b \in Buffers \ bs : r.addr[b] = s.addr[b]
  /\ r.fits => Memory(r, held \cup bs)

\* The equation of IdentifyDataOps.
DataOpIf(f, i) ==
  /\ prog.queue[i] = "DMA_DDR" /\ prog.outs[i] # {}
  /\ Consumers(i) # {}
  /\ \A d \in Deps(i) : ~f[d]

\* The step of Levels.
AssignLevel(acc, i) ==
  [next |-> acc.next + 1,
   of |-> [j \in Ops |-> IF j = i \/ (j \in Deps(i) /\ acc.of[j] = 0) THEN acc.next ELSE acc.of[j]]]

\* The state of the helpers before anything is scheduled.
FreshOK(s) ==
  /\ s \in States /\ Consistent(s) /\ Written(s) /\ Memory(s, s.alive)
  /\ s.alive = {} /\ s.beginHeap = {} /\ s.readyCompute = {} /\ s.readyData = {}
  /\ \A i \in Ops : ~IsScheduled(s, i)

\* What distributing ready operations changes.
ReadyAdded(s, t, ready, others) ==
  /\ t \in States
  /\ t.gaps = s.gaps /\ t.addr = s.addr /\ t.alive = s.alive /\ t.spilled = s.spilled
  /\ t.pipelines = s.pipelines /\ t.beginHeap = s.beginHeap
  /\ t.readyData = s.readyData \cup (ready \cap isDataOp)
  /\ t.readyCompute = s.readyCompute \cup {i \in others : IsCompute(i)}
  /\ t.producer = s.producer /\ t.lastUse = s.lastUse /\ t.opEnd = s.opEnd /\ t.deltas = s.deltas

\* The operations that wait for one in done, and for none that is not in D.
WaitingOnly(done, D) == {c \in Ops : Deps(c) \cap done # {} /\ Deps(c) \subseteq D}

\* DMA operations that are not data operations.
OtherDMAs == {i \in Ops \ isDataOp : ~IsCompute(i)}

\* The operations in done count as done from now on, and so do the data operations
\* that become ready.
UnlockedWith(s, t, dmas, degree, D, done) ==
  \E E \in SUBSET Ops :
    /\ D \cup done \subseteq E /\ E \ (D \cup done) \subseteq isDataOp
    /\ DoneCore(t, dmas, degree, E)

\* The operations in done may be taken as done.
MayUnlock(s, dmas, degree, D, done) ==
  /\ ReadyOK(s) /\ dmas \in SUBSET OtherDMAs /\ DoneCore(s, dmas, degree, D)
  /\ done \in SUBSET Ops /\ done \cap D = {} /\ done \cap isDataOp = {} /\ done \cap dmas = {}
  /\ \A i \in done : IsScheduled(s, i)

\* What Unlock does to the state s, dmas, degree.
Unlocks(s, dmas, degree, done, ready, others, t, dmas2, degree2) ==
  /\ ready = Unlocked(degree, done)
  /\ others = ReadyWith(Reduced(degree, done), ready)
  /\ t = AddReady(s, ready, others)
  /\ dmas2 = dmas \cup {i \in others : ~IsCompute(i)}
  /\ degree2 = Reduced(Reduced(degree, done), ready \cap isDataOp)

\* What selecting operations promises: they are different ones, and what they need
\* fits beside the buffers B.
Selected(c, T, B) ==
  /\ c.ops \in Seq(T) /\ Distinct(c.ops)
  /\ c.bufs \in SUBSET Buffers
  /\ CanAlloc(m, c.bufs)
  /\ c.bufs = B \cup UNION {BuffersFor(m, c.ops[k]) : k \in DOMAIN c.ops}

\* The step of Select.
AddSelected(acc, i) ==
  IF CanAlloc(m, BuffersFor(m, i) \cup acc.bufs)
  THEN [ops |-> Append(acc.ops, i), bufs |-> BuffersFor(m, i) \cup acc.bufs] ELSE acc

\* The operations that may start, of one kind.
Startables(constants) == {i \in m.readyCompute : IsNoInputDepComputeOp(i) = constants}

\* What scheduling i, or prefetching it, does; new is what is scheduled with it.
Takes(s, u, new) ==
  /\ ReadyOK(u) /\ Consistent(u) /\ Written(u)
  /\ u.gaps = s.gaps /\ u.addr = s.addr
  /\ u.readyCompute \subseteq s.readyCompute /\ u.readyData \subseteq s.readyData
  /\ \A b \in Buffers : s.producer[b] # 0 => u.producer[b] # 0
  /\ \A j \in Ops : IsScheduled(s, j) => IsScheduled(u, j)
  /\ \A j \in Ops : IsScheduled(u, j) => IsScheduled(s, j) \/ j \in new
  /\ s.beginHeap \subseteq u.beginHeap
  /\ \A e \in u.beginHeap \ s.beginHeap : e.type # "write" /\ (IsOriginal(e) => e.op \in new)
  /\ \A saved : DeltasFit(saved, s) => DeltasFit(saved, u)

\* Taking operation i.
TakesOp(s, u, i) ==
  /\ Takes(s, u, NeededDeps(s, i) \cup {i})
  /\ u.alive = s.alive \cup BuffersFor(s, i)
  /\ u.readyCompute = s.readyCompute \ {i}
  /\ \A d \in Deps(i) \cup {i} : IsScheduled(u, d)
  /\ \A e, f \in u.beginHeap \ s.beginHeap :
       IsOriginal(e) /\ IsOriginal(f) /\ e.op = i /\ f.op = i => e = f

\* Taking what is prefetched for op.
TakesPrefetch(s, u, op) ==
  /\ Takes(s, u, {op} \cap s.readyData)
  /\ u.alive = s.alive \cup PrefetchBuffers(s, op)
  /\ u.readyCompute = s.readyCompute
  /\ PrefetchBuffers(s, op) \in SUBSET Buffers
  /\ PrefetchBuffers(s, op) \cap s.alive = {}

\* A buffer whose eviction makes room for the prefetch that failed.
HelpsPrefetch(s, running, fragmented, b) ==
  /\ \A e \in running : e.op # s.producer[b]
  /\ CanAlloc(FreeBuffers(s, {b}), fragmented \cup {b})

-----------------------------------------------------------------------------
(***************************************************************************)
(* What the steps do to a whole state.                                     *)
(***************************************************************************)
\* The record of the fields of a state.
Fields(s) ==
  [gaps |-> s.gaps, addr |-> s.addr, alive |-> s.alive, spilled |-> s.spilled,
   pipelines |-> s.pipelines, beginHeap |-> s.beginHeap, readyCompute |-> s.readyCompute,
   readyData |-> s.readyData, producer |-> s.producer, lastUse |-> s.lastUse,
   opEnd |-> s.opEnd, deltas |-> s.deltas]

\* What an operation's end frees, and when.
MemoryFreed(s, t) ==
  /\ t \in States /\ Consistent(t) /\ Written(t) /\ Memory(t, t.alive)
  /\ t.beginHeap = s.beginHeap /\ t.readyCompute = s.readyCompute /\ t.readyData = s.readyData
  /\ t.producer = s.producer /\ t.opEnd = s.opEnd
  /\ \A P : Logged(s, P) => Logged(t, P)

\* A rollback gives the state that was saved, except for the entries it used.
RolledBack(saved, t) ==
  /\ t \in States
  /\ t.gaps = saved.gaps /\ t.addr = saved.addr /\ t.alive = saved.alive /\ t.spilled = saved.spilled
  /\ t.pipelines = saved.pipelines /\ t.beginHeap = saved.beginHeap
  /\ t.readyCompute = saved.readyCompute /\ t.readyData = saved.readyData
  /\ t.producer = saved.producer /\ t.lastUse = saved.lastUse /\ t.opEnd = saved.opEnd
  /\ ResetDeltas(t) = ResetDeltas(saved)

\* The entries to put back are forgotten.
DeltasReset(s, t) ==
  /\ t \in States
  /\ t.gaps = s.gaps /\ t.addr = s.addr /\ t.alive = s.alive /\ t.spilled = s.spilled
  /\ t.pipelines = s.pipelines /\ t.beginHeap = s.beginHeap
  /\ t.readyCompute = s.readyCompute /\ t.readyData = s.readyData
  /\ t.producer = s.producer /\ t.lastUse = s.lastUse /\ t.opEnd = s.opEnd
  /\ DeltasFit(s, t)

\* The buffers of the call got memory.
Allocated(s, t) ==
  /\ t \in States /\ Memory(t, t.alive)
  /\ t.alive = s.alive /\ t.spilled = s.spilled /\ t.pipelines = s.pipelines
  /\ t.beginHeap = s.beginHeap /\ t.readyCompute = s.readyCompute /\ t.readyData = s.readyData
  /\ t.producer = s.producer /\ t.lastUse = s.lastUse /\ t.opEnd = s.opEnd

\* The operations begin; the memory of what was spilled is no longer theirs.
Moved(s, t) ==
  /\ t \in States /\ Memory(t, t.alive)
  /\ t.alive = s.alive /\ t.spilled = s.spilled /\ t.pipelines = s.pipelines
  /\ t.beginHeap = {} /\ t.readyCompute = s.readyCompute /\ t.readyData = s.readyData
  /\ t.producer = s.producer /\ t.lastUse = s.lastUse /\ t.opEnd = s.opEnd

\* The heap is empty and the addresses are addr.
Emptied(s, t, addr) ==
  /\ t \in States
  /\ t.gaps = s.gaps /\ t.addr = addr
  /\ t.alive = s.alive /\ t.spilled = s.spilled /\ t.pipelines = s.pipelines
  /\ t.beginHeap = {} /\ t.readyCompute = s.readyCompute /\ t.readyData = s.readyData
  /\ t.producer = s.producer /\ t.lastUse = s.lastUse /\ t.opEnd = s.opEnd

\* The addresses after the spill writes in the heap: what they wrote to DDR has none.
AddressesLeft(s) ==
  [b \in Buffers |->
    IF \E e \in s.beginHeap : e.type = "write" /\ e.buf = b THEN Unallocated ELSE s.addr[b]]

\* What the operations of todo will bring to life in state s.
Coming(s, todo) == UNION {BuffersFor(s, todo[k]) : k \in DOMAIN todo}

\* The first operation of call.todo was scheduled.
OpScheduled(u, dmas, D) ==
  /\ ReadyOK(u) /\ Consistent(u) /\ Written(u) /\ Memory(u, u.alive \ call.bufs)
  /\ DoneCore(u, dmas, inDegree, D)
  /\ OneOriginal(u.beginHeap \cup endHeap, D)
  /\ \A e \in endHeap : IsOriginal(e) => IsScheduled(u, e.op)
  /\ \A e \in u.beginHeap : e.type # "write"
  /\ Candidates(u, candidates)
  /\ CanAlloc(u, call.bufs)
  /\ call.bufs \subseteq u.alive \cup Coming(u, Tail(call.todo))
  /\ Coming(u, Tail(call.todo)) \subseteq call.bufs
  /\ \A saved : DeltasFit(saved, m) => DeltasFit(saved, u)
  /\ \A j \in Ops : IsScheduled(m, j) => IsScheduled(u, j)

\* The record of the local variables.
CallRec(todo, placed, bufs, alive, fragmented, saved) ==
  [todo |-> todo, placed |-> placed, bufs |-> bufs, alive |-> alive, fragmented |-> fragmented, saved |-> saved]

\* In state u, with the buffers bufs to be allocated, nothing is left to be scheduled
\* but what is prefetched.
Settled(u, bufs, D) ==
  /\ ReadyOK(u) /\ Consistent(u) /\ Written(u) /\ Memory(u, u.alive \ bufs)
  /\ OneOriginal(u.beginHeap \cup endHeap, D)
  /\ \A e \in endHeap : IsOriginal(e) => IsScheduled(u, e.op)
  /\ \A e \in u.beginHeap : e.type # "write"
  /\ Candidates(u, candidates)
  /\ CanAlloc(u, bufs)
  /\ bufs \in SUBSET Buffers /\ bufs \subseteq u.alive
  /\ \A saved : DeltasFit(saved, m) => DeltasFit(saved, u)

\* A prefetch candidate is skipped, ends the prefetching or is taken.
PrefetchTo(op, todo, bufs, alive, fragmented) ==
  /\ call' = CallRec(todo, call.placed, bufs, alive, fragmented, call.saved)
  /\ \/ bufs = call.bufs /\ m' = m
     \/ /\ bufs = PrefetchBuffers(m, op) \cup call.bufs /\ CanAlloc(m, bufs)
        /\ m' = ExecutePrefetch(m, op)

\* What a try may end with.
PrefetchOutcome(op) ==
  \E alive : \E todo \in Seq(CandidateOps), bufs \in SUBSET Buffers, fragmented \in SUBSET Buffers :
    PrefetchTo(op, todo, bufs, alive, fragmented)

\* Distributing ready operations changes nothing that the other parts of the invariant
\* speak of.
SameButReady(s, t) ==
  /\ Consistent(s) => Consistent(t)
  /\ Written(s) => Written(t)
  /\ \A held : Memory(s, held) => Memory(t, held)
  /\ \A bs : CanAlloc(s, bs) => CanAlloc(t, bs)
  /\ \A cs : Candidates(s, cs) => Candidates(t, cs)
  /\ \A saved : DeltasFit(saved, s) => DeltasFit(saved, t)
  /\ \A j : IsScheduled(s, j) <=> IsScheduled(t, j)
  /\ t.alive = s.alive /\ t.beginHeap = s.beginHeap

\* A call begins with operations that were chosen in state m.
Started(chosen) ==
  /\ Selected(chosen, m.readyCompute, {})
  /\ call' = CallRec(chosen.ops, {}, chosen.bufs, 0, {}, m)
  /\ pc' = IF chosen.ops = <<>> THEN "selectDMA" ELSE "compute"

\* A step that leads out of a call or stays outside: what has to hold of the state
\* after it.
Outside(s, running, spills, cs, D) ==
  /\ ReadyOK(s) /\ Consistent(s) /\ Written(s) /\ Memory(s, s.alive)
  /\ OneOriginal(s.beginHeap \cup running, D)
  /\ running \in Heaps
  /\ \A e \in running : IsOriginal(e) => IsScheduled(s, e.op)
  /\ cs \subseteq EvictionCandidates /\ IsFiniteSet(cs) /\ Candidates(s, cs)
  /\ spills # NoCandidate => Candidates(s, {spills})

\* t has what s has, except for memory that was not in use, cycles and what began.
SameSchedule(s, t) ==
  /\ t \in States
  /\ t.alive = s.alive /\ t.spilled = s.spilled /\ t.beginHeap \subseteq s.beginHeap
  /\ t.readyCompute = s.readyCompute /\ t.readyData = s.readyData
  /\ t.producer = s.producer /\ t.opEnd = s.opEnd

\* The parts of the invariant that follow.
SameFacts(s, t) ==
  /\ ReadyOK(s) => ReadyOK(t)
  /\ Consistent(s) => Consistent(t)
  /\ Written(s) => Written(t)
  /\ \A dmas, degree, D : DoneCore(s, dmas, degree, D) => DoneCore(t, dmas, degree, D)
  /\ \A cs : Candidates(s, cs) => Candidates(t, cs)
  /\ \A j : IsScheduled(s, j) <=> IsScheduled(t, j)

\* The compute operations that end are not done yet, and are done now.
EndedOps(ended) ==
  {e.op : e \in {e \in ended : IsOriginal(e) /\ IsCompute(e.op) /\ ~IsSpilled(m, e.op)}}

\* What init does to the state: data operations that depend on nothing count as done.
InitReady(D, ready, others) ==
  /\ ready = {i \in Ops : Deps(i) = {}}
  /\ D = ready \cap isDataOp
  /\ others = (ready \ isDataOp) \cup WaitingOnly(D, D)

\* The ready lists that init makes.
InitLists(s, ready, others, t, dmas) ==
  t = AddReady(s, ready, others) /\ dmas = {i \in others : ~IsCompute(i)}

\* The addresses of the buffers in bs.
BlockAddresses(s, bs) == {x \in 0 .. prog.memory - 1 : \E b \in bs : InBlock(s, b, x)}

\* Each of the buffers has memory of its own.
Apart(s, bs) ==
  /\ \A b \in bs : s.addr[b] \in Nat /\ s.addr[b] + prog.size[b] <= prog.memory
  /\ \A b, c \in bs : b # c => ~Overlap(b, s.addr[b], c, s.addr[c])

\* Equal in what the log speaks of.
SameRecord(s, t) ==
  /\ t.beginHeap = s.beginHeap /\ t.opEnd = s.opEnd /\ t.lastUse = s.lastUse
  /\ t.pipelines = s.pipelines /\ t.spilled = s.spilled /\ t.producer = s.producer
  /\ t.readyData = s.readyData
=============================================================================
