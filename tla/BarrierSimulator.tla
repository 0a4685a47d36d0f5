--------------------------- MODULE BarrierSimulator ---------------------------
(***************************************************************************)
(* The barrier simulator of the VPURT dialect (barrier_simulator.cpp).     *)
(*                                                                         *)
(* A compiled schedule is a list of tasks, each on one in-order hardware   *)
(* FIFO, that wait on and update virtual barriers (VIDs).  The NPU has     *)
(* only a few physical barriers (PIDs).  simulateBarriers replays the      *)
(* schedule: it programs VIDs onto PIDs in VID order, runs the FIFOs as    *)
(* far as their barriers let them, takes back the PIDs of the barriers     *)
(* that were fully consumed, and repeats until everything has run or an    *)
(* iteration changes nothing.  The same loop is used to                    *)
(*   - choose the PIDs            ("dynamic": FIFO ring of free PIDs),     *)
(*   - choose them for WLM        ("wlm": a PID is reused only along a     *)
(*                                 control path of the schedule),          *)
(*   - choose them page by page   ("pages": PIDs fixed by the WLM page),   *)
(*   - validate a given choice    ("static").                              *)
(* One step of the model is one iteration of one of the code's loops; the  *)
(* simulator is sequential, so `stage' is its program counter.             *)
(***************************************************************************)
EXTENDS Integers, Sequences, FiniteSetsExt

CONSTANTS
  NumPids,        \* numBarriers: physical barriers that may be used
  NumFifos,       \* DMA queues first, then the DPU, the SHAVE and the M2I FIFO
  ProducerSlots,  \* _barrierProducerSlotCount
  TotalSlots,     \* _barrierTotalSlotCount
  PartialWlm,     \* partialWlmEnabled, argument of the page approach
  Programs,       \* the schedules a behaviour may start from
  Modes           \* the ways of mapping a behaviour may start with

(***************************************************************************)
(* A schedule as the constructor of BarrierSimulator finds it in the IR:   *)
(* tasks numbered in IR order, the FIFO each runs on, the barriers it      *)
(* waits on and updates, the barrier slots it uses (1, or the number of    *)
(* variants of a DPU task), the WLM page of each barrier, and the control  *)
(* map that BarrierWlmHandler keeps: the tasks each task has a path to.    *)
(***************************************************************************)
Vids(p) == 0 .. p.numBarriers - 1
Tasks(p) == 1 .. p.numTasks
InSeq(x, s) == \E i \in DOMAIN s : s[i] = x
NoRepeats(s) == \A i, j \in DOMAIN s : s[i] = s[j] => i = j

WellFormed(p) ==
  /\ p.numBarriers \in Nat
  /\ p.numTasks \in Nat
  /\ p.fifo \in [Tasks(p) -> 1 .. NumFifos]
  /\ p.waits \in [Tasks(p) -> Seq(Vids(p))]
  /\ p.posts \in [Tasks(p) -> Seq(Vids(p))]
  /\ \A t \in Tasks(p) : NoRepeats(p.waits[t]) /\ NoRepeats(p.posts[t])
  /\ p.count \in [Tasks(p) -> Nat \ {0}]
  /\ p.page \in [Vids(p) -> Nat]
  /\ p.controlMap \in [Tasks(p) -> SUBSET Tasks(p)]
  /\ p.block \in [Tasks(p) -> Nat]

\* t is before u on its FIFO or at a barrier.  orderExecutionTasksAndBarriers numbers
\* the tasks in an order in which they can run.
DirectlyBefore(p, t, u) ==
  /\ t < u
  /\ \/ p.fifo[t] = p.fifo[u]
     \/ \E v \in Vids(p) : InSeq(v, p.posts[t]) /\ InSeq(v, p.waits[u])

\* What BarrierInfo makes sure of: the control map holds paths of direct steps, a
\* sync task is between two blocks, and no barrier is waited on that nobody updates.
ControlsOrdered(p) ==
  /\ \A t, u \in Tasks(p) :
       /\ u \in p.controlMap[t] =>
            \E s \in Tasks(p) : DirectlyBefore(p, t, s) /\ (s = u \/ u \in p.controlMap[s])
       /\ p.block[t] < p.block[u] => u \in p.controlMap[t]
  /\ \A t, u \in Tasks(p), v \in Vids(p) :
       InSeq(v, p.posts[t]) /\ InSeq(v, p.waits[u]) => t < u
  /\ \A u \in Tasks(p), v \in Vids(p) :
       InSeq(v, p.waits[u]) => \E t \in Tasks(p) : InSeq(v, p.posts[t])

AllModes == {"dynamic", "wlm", "pages", "static"}

ASSUME NumPidsAssumption == NumPids \in Nat \ {0}
ASSUME NumFifosAssumption == NumFifos \in Nat \ {0}
ASSUME SlotsAssumption == ProducerSlots \in Nat /\ TotalSlots \in Nat
ASSUME PartialWlmAssumption == PartialWlm \in BOOLEAN
ASSUME ProgramsAssumption == \A p \in Programs : WellFormed(p)
ASSUME ControlsAssumption == \A p \in Programs : ControlsOrdered(p)
ASSUME ModesAssumption == Modes \subseteq AllModes

VARIABLES
  prog,           \* the schedule
  mode,           \* how VIDs are mapped
  stage,          \* where the simulator is
  step,           \* loop counter of the parse loop and of processSim's loops
  fifo,           \* the FIFO being processed
  queue,          \* _dmaTasks, _nceTasks, _actTasks, _m2iTasks
  pos,            \* dma, dpu, act, m2i: the next task of each FIFO
  bar,            \* the next VID to map (a count in the page approach)
  realId,         \* _barriers[v].realId
  producerCount,  \* _barriers[v].producerCount
  consumerCount,  \* _barriers[v].consumerCount
  toVirtual,      \* PID -> VID it is programmed with
  prevVid,        \* prevVidOfPhysBar: PID -> last VID it was programmed with
  nextReal,       \* ring buffer of the free PIDs
  pidQueue,       \* _barrierPidToVidInstancesQueueMap
  progressed,     \* whether this iteration changed anything
  result          \* what simulateBarriers returns

parsed == <<queue, producerCount, consumerCount>>
mapping == <<bar, realId, toVirtual, prevVid, nextReal, pidQueue>>
control == <<stage, step, fifo, pos, progressed, result>>
vars == <<prog, mode, parsed, mapping, control>>

None == -1
Pids == DOMAIN toVirtual
Dynamic == mode \in {"dynamic", "wlm"}
Waits(t) == prog.waits[t]
Posts(t) == prog.posts[t]
Producers(v) == {t \in Tasks(prog) : InSeq(v, Posts(t))}
Consumers(v) == {t \in Tasks(prog) : InSeq(v, Waits(t))}

-----------------------------------------------------------------------------
(***************************************************************************)
(* Construction: parseBarriers, parseTasks, the slot checks of the passes  *)
(* and the PIDs of the page approach.                                      *)
(***************************************************************************)

\* What parseBarriers and the locals of simulateBarriers start with.  ids are
\* the PIDs of the ConfigureBarrierOps in "static" mode; virtual barriers have
\* none yet.
PerFifo(x) == [f \in 1 .. NumFifos |-> x]
PerVid(p, x) == [v \in Vids(p) |-> x]
PerPid(x) == [r \in 0 .. NumPids - 1 |-> x]
\* Mutant: PIDs numbered from 1.
InitialRingFromOne(m) == IF m \in {"dynamic", "wlm"} THEN [i \in 1 .. NumPids |-> i] ELSE <<>>

InitialRing(m) == IF m \in {"dynamic", "wlm"} THEN [i \in 1 .. NumPids |-> i - 1] ELSE <<>>

Start(p, m, ids) ==
  /\ prog = p /\ mode = m /\ realId = ids
  /\ queue = PerFifo(<<>>) /\ pos = PerFifo(1)
  /\ producerCount = PerVid(p, 0) /\ consumerCount = PerVid(p, 0)
  /\ bar = 0 /\ nextReal = InitialRing(m)
  /\ toVirtual = PerPid(None) /\ prevVid = PerPid(None) /\ pidQueue = PerPid(<<>>)
  /\ stage = "parse" /\ step = 1 /\ fifo = 1
  /\ progressed = FALSE /\ result = "none"

\* A new simulator for the same schedule.
Restart(m, ids) ==
  /\ mode' = m /\ realId' = ids
  /\ queue' = PerFifo(<<>>) /\ pos' = PerFifo(1)
  /\ producerCount' = PerVid(prog, 0) /\ consumerCount' = PerVid(prog, 0)
  /\ bar' = 0 /\ nextReal' = InitialRing(m)
  /\ toVirtual' = PerPid(None) /\ prevVid' = PerPid(None) /\ pidQueue' = PerPid(<<>>)
  /\ stage' = "parse" /\ step' = 1 /\ fifo' = 1
  /\ progressed' = FALSE /\ result' = "none"
  /\ UNCHANGED prog

GivenIds(p, m) ==
  IF m = "static" THEN [Vids(p) -> 0 .. NumPids - 1] ELSE {PerVid(p, None)}

\* verifyOneWaitBarrierPerTask holds of every schedule that WLM is to run.
OneWaitBarrierPerTask(p) == \A t \in Tasks(p) : Len(p.waits[t]) <= 1

Init ==
  \E p \in Programs, m \in Modes :
    /\ m \in {"wlm", "pages"} => OneWaitBarrierPerTask(p)
    /\ \E ids \in GivenIds(p, m) : Start(p, m, ids)

\* Mutant: the variants of a DPU task are not counted.
AddOneSlot(slots, users) ==
  [v \in Vids(prog) |-> slots[v] + (IF InSeq(v, users) THEN 1 ELSE 0)]

AddSlots(slots, users) ==
  [v \in Vids(prog) |-> slots[v] + (IF InSeq(v, users) THEN prog.count[step] ELSE 0)]

\* One task of the walk in parseTasks: it joins its FIFO and adds its slots to
\* every barrier it uses.
ParseTask ==
  /\ stage = "parse"
  /\ step \in Tasks(prog)
  /\ queue' = [queue EXCEPT ![prog.fifo[step]] = Append(@, step)]
  /\ consumerCount' = AddSlots(consumerCount, Waits(step))
  /\ producerCount' = AddSlots(producerCount, Posts(step))
  /\ step' = step + 1
  /\ UNCHANGED <<prog, mode, mapping, stage, fifo, pos, progressed, result>>

CheckProducerCount == \A v \in Vids(prog) : producerCount[v] <= ProducerSlots
CheckProducerAndConsumerCount ==
  \A v \in Vids(prog) : producerCount[v] + consumerCount[v] <= TotalSlots

Finish(r) == stage' = "done" /\ result' = r

\* The passes check the slots before they simulate, except for the page approach.
CheckSlots ==
  /\ stage = "parse"
  /\ step > prog.numTasks
  /\ mode # "pages"
  /\ \/ /\ CheckProducerCount /\ CheckProducerAndConsumerCount
        /\ stage' = "loop" /\ UNCHANGED result
     \/ ~(CheckProducerCount /\ CheckProducerAndConsumerCount) /\ Finish("slots")
  /\ UNCHANGED <<prog, mode, parsed, mapping, step, fifo, pos, progressed>>

\* simulateBarriersForWlmPageApproach: even pages use the lower half of the
\* PIDs, odd pages the upper half; partial WLM hands them out downwards.
PageSize == NumPids \div 2
PageCount == Cardinality({prog.page[v] : v \in Vids(prog)})
PageMembers(g) == {v \in Vids(prog) : prog.page[v] = g}
RankInPage(g, v) == Cardinality({w \in PageMembers(g) : w < v})
PagePid(g, v) ==
  (IF g % 2 = 1 THEN PageSize ELSE 0)
  + (IF PartialWlm THEN Cardinality(PageMembers(g)) - 1 - RankInPage(g, v) ELSE RankInPage(g, v))

BeginPages ==
  /\ stage = "parse"
  /\ step > prog.numTasks
  /\ mode = "pages"
  /\ stage' = "pages"
  /\ step' = 0
  /\ UNCHANGED <<prog, mode, parsed, mapping, fifo, pos, progressed, result>>

\* One page: its VIDs get their PIDs and queue up for them.
AssignPage ==
  /\ stage = "pages"
  /\ step < PageCount
  /\ LET members == PageMembers(step)
         takers(r) == {v \in members : PagePid(step, v) = r}
     IN  \/ /\ Cardinality(members) > PageSize
            /\ Finish("throw")
            /\ UNCHANGED <<realId, pidQueue, step>>
         \/ /\ Cardinality(members) <= PageSize
            /\ realId' = [v \in Vids(prog) |-> IF v \in members THEN PagePid(step, v) ELSE realId[v]]
            /\ pidQueue' = [r \in Pids |-> IF takers(r) = {} THEN pidQueue[r]
                                          ELSE Append(pidQueue[r], Min(takers(r)))]
            /\ step' = step + 1
            /\ UNCHANGED <<stage, result>>
  /\ UNCHANGED <<prog, mode, parsed, bar, toVirtual, prevVid, nextReal, fifo, pos, progressed>>

EndPages ==
  /\ stage = "pages"
  /\ step >= PageCount
  /\ stage' = "loop"
  /\ UNCHANGED <<prog, mode, parsed, mapping, step, fifo, pos, progressed, result>>

-----------------------------------------------------------------------------
(***************************************************************************)
(* simulateBarriers.                                                       *)
(***************************************************************************)
FifoComplete(f) == pos[f] > Len(queue[f])
SomethingLeft == bar < prog.numBarriers \/ \E f \in 1 .. NumFifos : ~FifoComplete(f)

\* Mutant: `progressed' is not reset.
BeginIterationWithoutReset ==
  /\ stage = "loop"
  /\ SomethingLeft
  /\ stage' = "map"
  /\ UNCHANGED <<prog, mode, parsed, mapping, step, fifo, pos, progressed, result>>

\* The test of the outer loop.
BeginIteration ==
  /\ stage = "loop"
  /\ SomethingLeft
  /\ stage' = "map"
  /\ progressed' = FALSE
  /\ UNCHANGED <<prog, mode, parsed, mapping, step, fifo, pos, result>>

Succeed ==
  /\ stage = "loop"
  /\ ~SomethingLeft
  /\ Finish("success")
  /\ UNCHANGED <<prog, mode, parsed, mapping, step, fifo, pos, progressed>>

\* controlPathExistsBetweenTasksInSameBlock is asked for either direction.
ControlPath(a, b) == a = b \/ b \in prog.controlMap[a] \/ a \in prog.controlMap[b]

\* Mutant: a path from one consumer of the previous VID is enough.
CanReuseAfterSomeConsumer(v, prev) ==
  \E c \in Consumers(prev) : \A t \in Producers(v) :
    prog.block[c] # prog.block[t] \/ ControlPath(c, t)

\* BarrierWlmHandler::canBarrierReusePidFromBarrier
CanBarrierReusePid(v, prev) ==
  \A c \in Consumers(prev), t \in Producers(v) :
    prog.block[c] # prog.block[t] \/ ControlPath(c, t)

\* Positions of the ring the WLM search accepts; it takes the first one.
Acceptable ==
  {i \in 1 .. Len(nextReal) :
     \/ mode # "wlm"
     \/ prevVid[nextReal[i]] = None
     \/ CanBarrierReusePid(bar, prevVid[nextReal[i]])}

\* Mutant: the PIDs that the search refused are not pushed back.
TakeAndLoseRefused(q, k) == SubSeq(q, k + 1, Len(q))

\* The ring after the search took position k: each PID it refused was popped
\* and pushed back.
TakeFromRing(q, k) ==
  [i \in 1 .. Len(q) - 1 |-> IF i + k <= Len(q) THEN q[i + k] ELSE q[i + k - Len(q)]]

FreeInstances == {r \in Pids : toVirtual[r] = None /\ pidQueue[r] # <<>>}

HasBarrierToMap ==
  /\ bar < prog.numBarriers
  /\ \/ Dynamic /\ Acceptable # {}
     \/ mode = "pages" /\ FreeInstances # {}
     \/ mode = "static" /\ toVirtual[realId[bar]] = None

Program(r, v) ==
  /\ toVirtual' = [toVirtual EXCEPT ![r] = v]
  /\ prevVid' = [prevVid EXCEPT ![r] = v]

\* Mutant: the ring is taken for the list 0, 1, 2, ... it started as.
MapDynamicByVid ==
  /\ Dynamic
  /\ LET k == Min(Acceptable)
     IN  /\ nextReal' = TakeFromRing(nextReal, k)
         /\ realId' = [realId EXCEPT ![bar] = bar % NumPids]
         /\ Program(nextReal[k], bar)
  /\ UNCHANGED pidQueue

MapDynamic ==
  /\ Dynamic
  /\ LET k == Min(Acceptable)
         real == nextReal[k]
     IN  /\ nextReal' = TakeFromRing(nextReal, k)
         /\ realId' = [realId EXCEPT ![bar] = real]
         /\ Program(real, bar)
  /\ UNCHANGED pidQueue

MapInstance ==
  /\ mode = "pages"
  /\ LET real == Min(FreeInstances)
     IN  /\ pidQueue' = [pidQueue EXCEPT ![real] = Tail(@)]
         /\ Program(real, Head(pidQueue[real]))
  /\ UNCHANGED <<nextReal, realId>>

MapStatic ==
  /\ mode = "static"
  /\ Program(realId[bar], bar)
  /\ UNCHANGED <<nextReal, realId, pidQueue>>

MapBarrier ==
  /\ stage = "map"
  /\ HasBarrierToMap
  /\ MapDynamic \/ MapInstance \/ MapStatic
  /\ bar' = bar + 1
  /\ progressed' = TRUE
  /\ UNCHANGED <<prog, mode, parsed, stage, step, fifo, pos, result>>

StopMapping ==
  /\ stage = "map"
  /\ ~HasBarrierToMap
  /\ stage' = "fifos"
  /\ fifo' = 1
  /\ UNCHANGED <<prog, mode, parsed, mapping, step, pos, progressed, result>>

-----------------------------------------------------------------------------
(***************************************************************************)
(* processSim and the loops over the FIFOs.                                *)
(***************************************************************************)
Task(f) == queue[f][pos[f]]
HeadTask == Task(fifo)

\* Mutant: realId is trusted when fixed PIDs are validated, too.
IsPidKnown(v) == realId[v] \in Pids

\* With virtual barriers the code trusts realId and does not look at toVirtual.
IsBarrierMapped(v) ==
  /\ realId[v] \in Pids
  /\ Dynamic \/ toVirtual[realId[v]] = v

TaskReady(t) ==
  /\ \A i \in DOMAIN Waits(t) : IsBarrierMapped(Waits(t)[i]) /\ producerCount[Waits(t)[i]] = 0
  /\ \A i \in DOMAIN Posts(t) : IsBarrierMapped(Posts(t)[i])

HeadCanRun == ~FifoComplete(fifo) /\ TaskReady(HeadTask)

BeginTask ==
  /\ stage = "fifos"
  /\ fifo <= NumFifos
  /\ HeadCanRun
  /\ stage' = "task"
  /\ step' = 1
  /\ UNCHANGED <<prog, mode, parsed, mapping, fifo, pos, progressed, result>>

\* Status::Skip, or the end of the FIFO.
NextFifo ==
  /\ stage = "fifos"
  /\ fifo <= NumFifos
  /\ ~HeadCanRun
  /\ fifo' = fifo + 1
  /\ UNCHANGED <<prog, mode, parsed, mapping, stage, step, pos, progressed, result>>

\* The next barrier of the task, or Status::Fail.
ContinueIf(ok) ==
  /\ step' = IF ok THEN step + 1 ELSE step
  /\ stage' = IF ok THEN stage ELSE "done"
  /\ result' = IF ok THEN result ELSE "miscount"

\* One wait barrier of the task; the last consumer gives the PID back.
ConsumeBarrier ==
  /\ stage = "task"
  /\ step <= Len(Waits(HeadTask))
  /\ LET v == Waits(HeadTask)[step]
         n == prog.count[HeadTask]
         consumable == IsBarrierMapped(v) /\ producerCount[v] = 0 /\ consumerCount[v] >= n
         last == consumerCount[v] = n
     IN  /\ consumerCount' = IF consumable THEN [consumerCount EXCEPT ![v] = @ - n] ELSE consumerCount
         /\ toVirtual' = IF consumable /\ last THEN [toVirtual EXCEPT ![realId[v]] = None] ELSE toVirtual
         /\ nextReal' = IF consumable /\ last /\ Dynamic THEN Append(nextReal, realId[v]) ELSE nextReal
         /\ ContinueIf(consumable)
  /\ UNCHANGED <<prog, mode, queue, producerCount, bar, realId, prevVid, pidQueue,
                 fifo, pos, progressed>>

\* One update barrier of the task.
ProduceBarrier ==
  /\ stage = "task"
  /\ step > Len(Waits(HeadTask))
  /\ step <= Len(Waits(HeadTask)) + Len(Posts(HeadTask))
  /\ LET v == Posts(HeadTask)[step - Len(Waits(HeadTask))]
         n == prog.count[HeadTask]
         producible == IsBarrierMapped(v) /\ producerCount[v] >= n
     IN  /\ producerCount' = IF producible THEN [producerCount EXCEPT ![v] = @ - n] ELSE producerCount
         /\ ContinueIf(producible)
  /\ UNCHANGED <<prog, mode, queue, consumerCount, mapping, fifo, pos, progressed>>

EndTask ==
  /\ stage = "task"
  /\ step > Len(Waits(HeadTask)) + Len(Posts(HeadTask))
  /\ pos' = [pos EXCEPT ![fifo] = @ + 1]
  /\ progressed' = TRUE
  /\ stage' = "fifos"
  /\ UNCHANGED <<prog, mode, parsed, mapping, step, fifo, result>>

IterationDone == stage = "fifos" /\ fifo > NumFifos

\* An iteration that changed nothing ends the simulation: the schedule is
\* blocked.  While it dumps its state the code checks the mapping once more.
Mismatch == \E r \in Pids : toVirtual[r] # None /\ realId[toVirtual[r]] # r

EndIteration ==
  /\ IterationDone
  /\ \/ progressed /\ stage' = "loop" /\ UNCHANGED result
     \/ ~progressed /\ Finish(IF Mismatch THEN "throw" ELSE "blocked")
  /\ UNCHANGED <<prog, mode, parsed, mapping, step, fifo, pos, progressed>>

Construct == ParseTask \/ CheckSlots \/ BeginPages \/ AssignPage \/ EndPages
Simulate ==
  \/ BeginIteration \/ Succeed \/ MapBarrier \/ StopMapping
  \/ BeginTask \/ NextFifo \/ ConsumeBarrier \/ ProduceBarrier \/ EndTask

Next == Construct \/ Simulate \/ EndIteration

Spec == Init /\ [][Next]_vars

\* The simulator is a sequential function: it never pauses.
FairSpec == Spec /\ WF_vars(Next)

-----------------------------------------------------------------------------
(***************************************************************************)
(* Properties.                                                             *)
(***************************************************************************)
Stages == {"parse", "pages", "loop", "map", "fifos", "task", "done"}
Results == {"none", "success", "blocked", "miscount", "slots", "throw"}

\* The values the simulator's state may hold.
TypeOK ==
  /\ WellFormed(prog)
  /\ mode \in AllModes
  /\ stage \in Stages
  /\ step \in Nat
  /\ fifo \in 1 .. NumFifos + 1
  /\ queue \in [1 .. NumFifos -> Seq(Tasks(prog))]
  /\ pos \in [1 .. NumFifos -> Nat \ {0}]
  /\ bar \in Nat
  /\ realId \in [Vids(prog) -> (0 .. NumPids - 1) \cup {None}]
  /\ producerCount \in [Vids(prog) -> Nat]
  /\ consumerCount \in [Vids(prog) -> Nat]
  /\ toVirtual \in [0 .. NumPids - 1 -> Vids(prog) \cup {None}]
  /\ prevVid \in [0 .. NumPids - 1 -> Vids(prog) \cup {None}]
  /\ nextReal \in Seq(0 .. NumPids - 1)
  /\ pidQueue \in [0 .. NumPids - 1 -> Seq(Vids(prog))]
  /\ progressed \in BOOLEAN
  /\ result \in Results

\* The two views of the mapping agree: the VID a PID is programmed with has
\* that PID as its realId, so no two live VIDs share a PID.  This is the check
\* the code itself makes, with VPUX_THROW, when a simulation is blocked.
MappingsAgree == ~Mismatch

\* The ring buffer holds each free PID exactly once, through every pop, push
\* back of a PID the WLM search refused and push of a consumed PID; RingBuffer
\* itself checks nothing, so a PID pushed twice would overwrite another.
RingHoldsFreePids ==
  Dynamic => /\ NoRepeats(nextReal)
             /\ \A r \in Pids : InSeq(r, nextReal) <=> toVirtual[r] = None

\* isBarrierMapped trusts realId alone when it assigns PIDs, though realId is
\* never cleared when a PID is taken back: the barriers a running task has
\* still to consume or produce are programmed at that moment.
TaskBarriersProgrammed ==
  stage = "task" =>
    LET barriers == Waits(HeadTask) \o Posts(HeadTask)
    IN  \A i \in step .. Len(barriers) : toVirtual[realId[barriers[i]]] = barriers[i]

\* The slots parseTasks counted are the ones the tasks use: no task finds a
\* barrier with too few slots left, and a finished simulation leaves none.
SlotsBalance ==
  /\ result # "miscount"
  /\ result = "success" =>
       \A v \in Vids(prog) : producerCount[v] = 0 /\ consumerCount[v] = 0

\* simulateBarriers returns, whatever the schedule and the number of PIDs.
Terminates == <>(stage = "done")
=============================================================================
