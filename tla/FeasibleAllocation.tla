--------------------------- MODULE FeasibleAllocation ---------------------------
(***************************************************************************)
(* FeasibleAllocationPass (feasible_allocation.cpp): the scheduler, the    *)
(* optimization and insertion of spills, the dependencies that protect     *)
(* memory, the final order, and then OptimizeAsyncDeps.  Each step takes   *)
(* what the one before has left; none of them sees the whole.              *)
(***************************************************************************)
EXTENDS Spilling, ControlEdges, AsyncDeps

CONSTANT Thresholds  \* values of simplifiedOptimizationOpCountThreshold

VARIABLES
  phase,      \* the next step of safeRunOnFunc
  s,          \* what the passes of Spilling change
  ir,         \* the operations in the IR, see Operations below
  depsMap,    \* AsyncDepsInfo
  thrown      \* a VPUX_THROW was met after the schedule was made

passVars == <<phase, s, ir, depsMap, thrown>>

-----------------------------------------------------------------------------
(***************************************************************************)
(* insertSpillDmaOps.  A spill read makes a new instance of its buffer,    *)
(* number n, which all later operations use; instance 0 is the buffer of   *)
(* the program.  Operations that are inserted get the next numbers.  Of    *)
(* each operation the IR has                                               *)
(*   does  "op", "write" or "read" and the operation that is meant: the    *)
(*         one of the program, or the write a read belongs to              *)
(*   ins, outs  the instances it uses                                      *)
(***************************************************************************)
Instance(b, n) == [buf |-> b, n |-> n]
Current(acc, bs) == {Instance(b, acc.latest[b]) : b \in bs}

StartInsertion ==
  [list |-> s.list, deps |-> prog.deps, reRead |-> s.reRead,
   does |-> [i \in Ops |-> [kind |-> "op", of |-> i]],
   ins |-> [i \in Ops |-> {}], outs |-> [i \in Ops |-> {}],
   home |-> [x \in {Instance(b, 0) : b \in Buffers} |-> s.scan[x.buf]],
   latest |-> [b \in Buffers |-> 0],
   lastWrite |-> [b \in Buffers |-> 0],     \* _spillWriteInfoVec
   thrown |-> FALSE]

With(f, x, value) == [y \in DOMAIN f \cup {x} |-> IF y = x THEN value ELSE f[y]]

AddOperation(acc, k, type, kind, of, deps, ins, outs) ==
  [acc EXCEPT !.list[k].op = Len(acc.deps) + 1, !.list[k].type = type,
              !.deps = Append(@, deps),
              !.does = Append(@, [kind |-> kind, of |-> of]),
              !.ins = Append(@, ins), !.outs = Append(@, outs),
              !.thrown = @ \/ k <= 2]   \* no location to insert it

CreateSpillWrite(acc, k) ==
  LET e == acc.list[k]
      x == Instance(SpillBuffer(e), acc.latest[SpillBuffer(e)])
  IN  [AddOperation(acc, k, "spillWrite", "write", 0, {e.op}, {x}, {}) EXCEPT
        !.home = With(@, x, Only(e.ins).addr),
        !.lastWrite[x.buf] = Len(acc.deps) + 1]

\* Spills of the same operation and buffer further on belong to the new operation.
RedirectSpills(list, k, b, op, new) ==
  [j \in DOMAIN list |->
    IF j > k /\ IsSpill(list[j]) /\ list[j].op = op /\ SpillBuffer(list[j]) = b
    THEN [list[j] EXCEPT !.op = new] ELSE list[j]]

CreateSpillRead(acc, k) ==
  LET e == acc.list[k]
      b == SpillBuffer(e)
      new == Len(acc.deps) + 1
      x == Instance(b, acc.latest[b] + 1)
      write == acc.lastWrite[b]
      root == acc.does[e.op].of
      made == IF write # 0
              THEN AddOperation(acc, k, "spillRead", "read", write, {write}, {}, {x})
              ELSE AddOperation(acc, k, "spillRead", "op", root, prog.deps[root] \cup {e.op}, {}, {x})
  IN  [made EXCEPT
        !.list = RedirectSpills(@, k, b, e.op, new),
        !.home = With(@, x, Only(e.outs).addr),
        !.latest[b] = x.n,
        !.reRead = IF e.op \in @ THEN @ \cup {new} ELSE @,
        !.thrown = @ \/ (write = 0 /\ e.op \notin acc.reRead)]

\* Operations of the program use the instances there are when their turn comes.
UseInstances(acc, i) ==
  [acc EXCEPT !.ins = With(@, i, Current(acc, prog.ins[i])),
              !.outs = With(@, i, Current(acc, prog.outs[i]))]

InsertSpillDmaOp(acc, k) ==
  CASE acc.list[k].type = "write" -> CreateSpillWrite(acc, k)
    [] acc.list[k].type = "read" -> CreateSpillRead(acc, k)
    [] OTHER -> UseInstances(acc, acc.list[k].op)

Inserted == FoldLeft(InsertSpillDmaOp, StartInsertion, Upto(Len(s.list)))

-----------------------------------------------------------------------------
(***************************************************************************)
(* Dependencies.                                                           *)
(***************************************************************************)
\* The part of the buffer an operation writes; more than one SubView hides it.
View(i, x) ==
  IF ir.does[i].kind = "op" /\ x \in ir.outs[i] /\ Cardinality(Writers(x.buf)) > 1 /\ x.buf \notin prog.nested
  THEN ir.does[i].of ELSE 0

ResourceOf(i, x, producer) ==
  Resource(i, producer, ir.home[x], ir.home[x] + prog.size[x.buf], x, View(i, x))

\* updateScheduledOpsResourcesForControlEdge
ResourcesOf(i) ==
  SetToSeq({ResourceOf(i, x, FALSE) : x \in ir.ins[i]}) \o SetToSeq({ResourceOf(i, x, TRUE) : x \in ir.outs[i]})

MemoryEdges ==
  LET resources == FlattenSeq([k \in DOMAIN s.list |-> ResourcesOf(s.list[k].op)])
      EventOf(i) == s.list[CHOOSE k \in DOMAIN s.list : s.list[k].op = i]
      placed == {e.op : e \in ToSet(s.list)}
  IN  OrderedEdges(GenerateControlEdges(resources, prog.memory),
                   [i \in placed |-> EventOf(i).begin], [i \in placed |-> EventOf(i).end], s.modified)

\* insertScheduleOrderDepsForExecutor for the only port of each DMA queue.
NextOnQueue(e) ==
  LET later == {f \in ToSet(s.list) : f.queue = e.queue /\ f.begin > e.begin}
  IN  {f \in later : \A g \in later : f.begin <= g.begin}
DMAEdges ==
  IF prog.ports # 1 THEN {}
  ELSE UNION {{<<e.op, f.op>> : f \in NextOnQueue(e)} : e \in {e \in ToSet(s.list) : e.queue \in DMAQueues}}
DMAsInOrder ==
  \A e \in ToSet(s.list) : (prog.ports = 1 /\ e.queue \in DMAQueues) => \A f \in NextOnQueue(e) : e.end <= f.begin

\* linearizeComputeOps: the operations of an executor, in the order of the IR.
LinearEdges ==
  UNION {LET ops == SelectSeq(s.list, LAMBDA e : e.queue = q)
         IN  {<<ops[k].op, ops[k + 1].op>> : k \in 1 .. Len(ops) - 1} : q \in ComputeQueues}

-----------------------------------------------------------------------------
(***************************************************************************)
(* updateAsyncExecuteOpPositionOfSpillOps: spills move up to behind the    *)
(* last one of what they depend on and of their queue.                     *)
(***************************************************************************)
IsInserted(e) == e.type \in {"spillWrite", "spillRead"}

SpillDeps(k) ==
  LET e == s.list[k]
      Before(port) == {j \in 1 .. k - 1 : s.list[j].queue = e.queue /\ port \in s.list[j].ports}
  IN  depsMap[e.op] \cup {s.list[Max(Before(p))].op : p \in {p \in e.ports : Before(p) # {}}}

\* insertSpillOps: what is to come after op, each with what is to come after it.
RECURSIVE InsertSpillOps(_, _, _)
InsertSpillOps(acc, op, event) ==
  LET Insert(a, i) ==
        IF i \in a.placed THEN a
        ELSE LET behind == InsertSpillOps(a, i, event)
             IN  [behind EXCEPT !.order = <<event[i]>> \o @, !.placed = @ \cup {i}]
  IN  [FoldLeft(Insert, acc, Ascending(acc.after[op])) EXCEPT !.after[op] = {}]

Repositioned ==
  LET ids == DOMAIN depsMap
      event == [i \in ids |-> s.list[CHOOSE k \in DOMAIN s.list : s.list[k].op = i]]
      Step(acc, k) ==
        LET e == s.list[k]
            flushed == InsertSpillOps(acc, e.op, event)
        IN  IF ~IsInserted(e) THEN [flushed EXCEPT !.order = <<e>> \o @]
            ELSE [flushed EXCEPT !.after = [i \in ids |-> IF i \in SpillDeps(k) THEN @[i] \cup {e.op} ELSE @[i]]]
  IN  FoldLeft(Step, [order |-> <<>>, placed |-> {}, after |-> [i \in ids |-> {}]],
               Reverse(Upto(Len(s.list)))).order

-----------------------------------------------------------------------------
(***************************************************************************)
(* updateCycleAfterAllScheduleOptimizations: the queues run again, each in *)
(* its order.                                                              *)
(***************************************************************************)
NextOnAllPorts(left, k) ==
  \A j \in 1 .. k - 1 : left[j].queue # left[k].queue \/ left[j].ports \cap left[k].ports = {}

\* Mutant: operations begin when their queue is free.
RecycledOnQueue(acc, e) ==
  LET begin == Max({0} \cup {acc.free[e.queue][p] : p \in e.ports})
  IN  [e EXCEPT !.begin = begin, !.end = begin + (e.end - e.begin)]

Recycled(acc, e) ==
  LET begin == Max({0} \cup {acc.end[d] : d \in depsMap[e.op]} \cup {acc.free[e.queue][p] : p \in e.ports})
  IN  [e EXCEPT !.begin = begin, !.end = begin + (e.end - e.begin)]

ChosenFirst(e, f) ==
  \/ e.begin < f.begin
  \/ e.begin = f.begin /\ e.end < f.end
  \/ e.begin = f.begin /\ e.end = f.end /\ e.op < f.op

ScheduleNext(acc) ==
  LET ready == {k \in DOMAIN acc.left : /\ NextOnAllPorts(acc.left, k)
                                        /\ depsMap[acc.left[k].op] \subseteq acc.ended}
      events == [k \in ready |-> Recycled(acc, acc.left[k])]
      best == CHOOSE k \in ready : \A j \in ready \ {k} : ChosenFirst(events[k], events[j])
      e == events[best]
  IN  IF ready = {} THEN acc
      ELSE [left |-> RemoveAt(acc.left, best), order |-> Append(acc.order, e),
            ended |-> acc.ended \cup {e.op}, end |-> [acc.end EXCEPT ![e.op] = e.end],
            free |-> [acc.free EXCEPT ![e.queue] = [p \in DOMAIN @ |-> IF p \in e.ports THEN e.end ELSE @[p]]]]

\* left is not empty if no operation was ready.
Rescheduled ==
  FoldLeft(LAMBDA acc, k : ScheduleNext(acc),
           [left |-> s.list, order |-> <<>>, ended |-> {}, end |-> [i \in DOMAIN depsMap |-> 0],
            free |-> [q \in Queues |-> [p \in 1 .. prog.ports |-> 0]]],
           Upto(Len(s.list)))

-----------------------------------------------------------------------------
(***************************************************************************)
(* OptimizeAsyncDeps works on the IR in its final order: position k of it  *)
(* is operation order[k].                                                  *)
(***************************************************************************)
FinalIds == [k \in DOMAIN s.list |-> s.list[k].op]

\* The operations whose results an operation takes: reads of what was spilled.
Operands(i) ==
  {j \in DOMAIN depsMap : ir.outs[j] \cap ir.ins[i] # {} /\ ir.does[j].kind # "op"}

FinalDeps ==
  LET At(i) == CHOOSE k \in DOMAIN FinalIds : FinalIds[k] = i
  IN  [k \in DOMAIN FinalIds |-> {At(d) : d \in depsMap[FinalIds[k]] \cup Operands(FinalIds[k])}]
-----------------------------------------------------------------------------
(***************************************************************************)
(* The pass.                                                               *)
(***************************************************************************)
NoSchedule == [list |-> <<>>, scan |-> <<>>, reRead |-> {}, modified |-> {}, undefined |-> FALSE]
NoIR == [does |-> <<>>, ins |-> <<>>, outs |-> <<>>, home |-> <<>>]

PassInit ==
  /\ Init
  /\ phase = "schedule"
  /\ s = NoSchedule
  /\ ir = NoIR
  /\ depsMap = <<>>
  /\ thrown = FALSE

Schedule ==
  /\ phase = "schedule"
  /\ Next
  /\ UNCHANGED passVars

\* _optimizeDynamicSpilling says whether spills are optimized.
TakeSchedule ==
  /\ phase = "schedule"
  /\ pc = "done" /\ ~failed
  /\ s' = [NoSchedule EXCEPT !.list = scheduled, !.scan = m.addr]
  /\ phase' \in {"optimize", "insert"}
  /\ UNCHANGED <<vars, ir, depsMap, thrown>>

OptimizeDataSpills ==
  /\ phase = "optimize"
  /\ s' = OptimizeDataOpsSpills(s)
  /\ phase' = "relocations"
  /\ UNCHANGED <<vars, ir, depsMap, thrown>>

RemoveRelocationSpills ==
  /\ phase = "relocations"
  /\ s' = RemoveComputeOpRelocationSpills(s)
  /\ phase' = "writes"
  /\ UNCHANGED <<vars, ir, depsMap, thrown>>

RemoveSpillWrites ==
  /\ phase = "writes"
  /\ s' = RemoveRedundantSpillWrites(s)
  /\ phase' = "insert"
  /\ UNCHANGED <<vars, ir, depsMap, thrown>>

InsertSpillDmaOps ==
  /\ phase = "insert"
  /\ \E done \in {Inserted} :
       /\ s' = [s EXCEPT !.list = done.list, !.reRead = done.reRead]
       /\ ir' = [does |-> done.does, ins |-> done.ins, outs |-> done.outs, home |-> done.home]
       /\ depsMap' = done.deps
       /\ thrown' = done.thrown
  /\ phase' = "edges"
  /\ UNCHANGED vars

\* insertMemoryControlEdges, insertScheduleOrderDepsForExecutor, linearizeComputeOps
InsertControlEdges ==
  /\ phase = "edges"
  /\ depsMap' = AddDependencies(depsMap, MemoryEdges \cup DMAEdges \cup LinearEdges)
  /\ thrown' = (thrown \/ ~DMAsInOrder)
  /\ phase' = "reposition"
  /\ UNCHANGED <<vars, s, ir>>

UpdatePositionOfSpillOps ==
  /\ phase = "reposition"
  /\ s' = [s EXCEPT !.list = Repositioned]
  /\ phase' = "cycles"
  /\ UNCHANGED <<vars, ir, depsMap, thrown>>

UpdateCycles ==
  /\ phase = "cycles"
  /\ \E done \in {Rescheduled} :
       /\ s' = [s EXCEPT !.list = done.order]
       /\ thrown' = (thrown \/ done.left # <<>>)
  /\ phase' = "deps"
  /\ UNCHANGED <<vars, ir, depsMap>>

\* OptimizeAsyncDepsPass numbers the operations in the order of the IR.
OptimizeAsyncDeps ==
  /\ phase = "deps"
  /\ ~thrown
  /\ \E threshold \in Thresholds : depsMap' = OptimizeDepsMap(FinalDeps, threshold)
  /\ phase' = "end"
  /\ UNCHANGED <<vars, s, ir, thrown>>

PassStopped == phase = "end" \/ thrown \/ (phase = "schedule" /\ (failed \/ OutOfEvents))

PassNext ==
  \/ Schedule
  \/ TakeSchedule
  \/ OptimizeDataSpills \/ RemoveRelocationSpills \/ RemoveSpillWrites
  \/ InsertSpillDmaOps \/ InsertControlEdges
  \/ UpdatePositionOfSpillOps \/ UpdateCycles \/ OptimizeAsyncDeps
  \/ PassStopped /\ UNCHANGED <<vars, passVars>>

PassSpec == PassInit /\ [][PassNext]_<<vars, passVars>>

\* The pass is one thread that runs until it returns or throws: weak fairness of
\* PassNext, which changes the state wherever the pass has not stopped, written
\* without the ENABLED that TLC would have to work out.  A schedule that outgrows
\* MaxEvents is one that never ends.
FairPassSpec == PassSpec /\ ([]<>PassStopped \/ []<><<TRUE>>_<<vars, passVars>>)

-----------------------------------------------------------------------------
(***************************************************************************)
(* Properties.                                                             *)
(***************************************************************************)
\* No step of the pass meets a state it does not expect: each spill has a place and
\* a write, what is erased exists, and the queues never wait for each other.
PassNeverThrows == ~thrown /\ ~s.undefined

Users(i) == ir.ins[i] \cup ir.outs[i]

\* Two operations that use overlapping memory, one of them to write to it, are
\* ordered by dependencies, unless they write to different parts of one buffer:
\* whatever the queues do, the spills, relocations and moves have kept the order.
ConflictsOrdered ==
  phase = "deps" =>
    LET order == Ordered(depsMap)
        Overlapping(x, y) == Overlap(x.buf, ir.home[x], y.buf, ir.home[y])
    IN  \A i, j \in DOMAIN depsMap : \A x \in ir.outs[i] :
          \/ <<i, j>> \in order \/ <<j, i>> \in order \/ i = j
          \/ \A y \in Users(j) : Overlapping(x, y) => x = y /\ y \notin ir.ins[j]

\* What the memory holds: of each address, the buffer whose data is there, which
\* byte of it, and the operations that have written it.  ddr is what the spill
\* writes have saved.
Untouched == [buf |-> NoBuffer, offset |-> 0, parts |-> {}]

Run(acc, i) ==
  LET does == ir.does[i]
      At(x) == ir.home[x] .. ir.home[x] + prog.size[x.buf] - 1
      Written(cell, x, offset) ==
        [buf |-> x.buf, offset |-> offset,
         parts |-> {does.of} \cup (IF cell.buf = x.buf /\ cell.offset = offset THEN cell.parts ELSE {})]
      Holds(x, offset, parts) ==
        LET cell == acc.cells[ir.home[x] + offset]
        IN  cell.buf = x.buf /\ cell.offset = offset /\ parts \subseteq cell.parts
      Fill(cells, x) ==
        [a \in DOMAIN cells |->
          IF a \notin At(x) THEN cells[a]
          ELSE IF does.kind = "read" THEN acc.ddr[does.of][a - ir.home[x]]
          ELSE Written(cells[a], x, a - ir.home[x])]
  IN  [cells |-> FoldSet(LAMBDA x, cells : Fill(cells, x), acc.cells, ir.outs[i]),
       ddr |-> IF does.kind # "write" THEN acc.ddr
               ELSE LET x == Only(ir.ins[i])
                    IN  [acc.ddr EXCEPT ![i] = [o \in 0 .. prog.size[x.buf] - 1 |-> acc.cells[ir.home[x] + o]]],
       ok |-> acc.ok /\ (does.kind = "op" =>
                \A x \in ir.ins[i] : \A o \in 0 .. prog.size[x.buf] - 1 :
                  Holds(x, o, Writers(x.buf) \cap prog.deps[does.of]))]

\* In the final order every operation finds the data of all the operations it
\* depends on in its inputs, however often that was evicted, read again, put
\* elsewhere from the start or not written out.
DataArrives ==
  phase = "deps" =>
    FoldLeft(LAMBDA acc, e : Run(acc, e.op),
             [cells |-> [a \in 0 .. prog.memory - 1 |-> Untouched],
              ddr |-> [i \in DOMAIN depsMap |-> <<>>], ok |-> TRUE], s.list).ok

\* The final schedule has each operation once, after all it depends on has ended.
FinalScheduleComplete ==
  phase = "deps" =>
    /\ Len(s.list) = Len(depsMap) /\ {e.op : e \in ToSet(s.list)} = DOMAIN depsMap
    /\ \A k \in DOMAIN s.list : \A d \in depsMap[s.list[k].op] :
         \E j \in 1 .. k - 1 : s.list[j].op = d /\ s.list[j].end <= s.list[k].begin

\* Dropping dependencies that others imply changes nothing for any operation.
OptimizationKeepsOrder ==
  [][phase' = "end" /\ phase = "deps" => Ordered(depsMap') = Ordered(FinalDeps)]_<<vars, passVars>>
=============================================================================
