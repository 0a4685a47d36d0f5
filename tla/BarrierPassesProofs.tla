-------------------------- MODULE BarrierPassesProofs --------------------------
(***************************************************************************)
(* Proofs about BarrierPasses: what the search among the free PIDs makes   *)
(* of a WLM schedule is safe on the NPU, where nothing but the schedule    *)
(* orders the two barriers that share a PID, and what it makes of any      *)
(* schedule is accepted when it is simulated again with the PIDs fixed.    *)
(***************************************************************************)
EXTENDS BarrierPasses, BarrierSimulatorProofs

\* A VID loses its PID only to a consumer of its own, and the PID is used again
\* only after all of them.
FreedByConsumer ==
  \A v \in Vids(prog) : realId[v] # None /\ toVirtual[realId[v]] # v => Consumers(v) # {}
ReusedAfterConsumers ==
  \A v, w \in Vids(prog) :
    v < w /\ realId[v] = realId[w] /\ realId[w] # None =>
      Consumers(v) # {} /\ \A c \in Consumers(v) : c \notin Pending

\* prevVidOfPhysBar is the latest VID on the PID.
PrevIsLatest ==
  \A r \in 0 .. NumPids - 1, v \in Vids(prog) :
    realId[v] = r => prevVid[r] # None /\ v <= prevVid[r] /\ realId[prevVid[r]] = r

\* VIDs are mapped in order, and a simulation that succeeds has mapped all and has
\* run all tasks.
MappedInOrder ==
  /\ \A v \in Vids(prog) : v < bar => realId[v] # None
  /\ result = "success" => AllDone

\* Two successive VIDs of one PID are ordered by the schedule: a control path leads
\* from every consumer of the first to every producer of the second.
ReuseFollowsPaths ==
  \A v, w \in Vids(prog) :
    (/\ v < w /\ realId[v] = realId[w] /\ realId[w] # None
     /\ \A u \in Vids(prog) : v < u /\ u < w => realId[u] # realId[w]) =>
      /\ Consumers(v) # {}
      /\ \A c \in Consumers(v), t \in Producers(w) : t \in prog.controlMap[c]

\* Nothing in V and T has to come before VID w or task t: no smaller VID and no
\* consumer of an earlier VID of the PID; no barrier of the task and no task directly
\* before it.
VidFree(w, V, T) ==
  /\ \A v \in V : ~(v < w)
  /\ \A v \in Vids(prog) :
       v < w /\ realId[v] = realId[w] => Consumers(v) # {} /\ \A c \in Consumers(v) : c \notin T
TaskFree(t, V, T) ==
  /\ \A v \in V : ~Uses(t, v)
  /\ \A u \in T : ~DirectlyBefore(prog, u, t)

\* The VIDs in V0 can be mapped to their PIDs and the tasks in T0 run in some order:
\* among any of them there is one that none of the others has to precede.
Orderable(V0, T0) ==
  \A V \in SUBSET V0, T \in SUBSET T0 :
    V # {} \/ T # {} => (\E w \in V : VidFree(w, V, T)) \/ (\E t \in T : TaskFree(t, V, T))
Mapped == {v \in Vids(prog) : realId[v] # None}
Ran == {t \in Tasks(prog) : stage # "parse" /\ t \notin Pending}

\* The slot checks of the passes.
SlotsFit ==
  \A v \in Vids(prog) :
    /\ Sum(prog.count, Producers(v)) <= ProducerSlots
    /\ Sum(prog.count, Producers(v)) + Sum(prog.count, Consumers(v)) <= TotalSlots
SlotsChecked == stage = "parse" \/ result = "slots" \/ SlotsFit

\* What holds while PIDs are searched among the free ones.
MapOrder ==
  /\ UsersPending /\ FreedByConsumer /\ ReusedAfterConsumers /\ PrevIsLatest /\ MappedInOrder
  /\ Orderable(Mapped, Ran)
  /\ SlotsChecked
  /\ mode = "wlm" => ReuseFollowsPaths
AssignOrder == SimOrder /\ MapOrder

-----------------------------------------------------------------------------
\* The task has started on the NPU.
Started(t) == t \notin Pending \/ (active[prog.fifo[t]] /\ t = Task(prog.fifo[t]))
ToStart(v) == {t \in Tasks(prog) : ~Started(t) /\ InSeq(v, Waits(t))}
ToFinish(v) == {t \in Pending : InSeq(v, Posts(t))}

\* The NPU starts a task only after the tasks directly before it, and the counters
\* of its barriers are the slots of the tasks that have still to use them.
RunInOrder ==
  /\ pos \in [1 .. NumFifos -> Nat \ {0}]
  /\ \A f \in 1 .. NumFifos : active[f] => ~FifoComplete(f)
  /\ \A v \in Vids(prog) : /\ producerCount[v] = Sum(prog.count, ToFinish(v))
                           /\ consumerCount[v] = Sum(prog.count, ToStart(v))
  /\ \A t, u \in Tasks(prog) : Started(u) /\ DirectlyBefore(prog, t, u) => t \notin Pending
  /\ \A u \in Tasks(prog), v \in Vids(prog) :
       Started(u) /\ InSeq(v, Waits(u)) => ToFinish(v) = {}

\* The PIDs of a WLM schedule are ordered in the IR that is validated and loaded.
WlmMapping == ReuseFollowsPaths /\ \A v \in Vids(prog) : realId[v] \in 0 .. NumPids - 1

\* The inductive invariant of the three passes.
PassInv ==
  /\ prog \in Programs
  /\ QueuesInOrder
  /\ active \in [1 .. NumFifos -> BOOLEAN]
  /\ ~Running => \A f \in 1 .. NumFifos : ~active[f]
  /\ pass = "assign" => BaseInv /\ SlotInv /\ wlm = (mode = "wlm") /\ (Dynamic => AssignOrder)
  /\ pass # "assign" => mode = "static" /\ stage # "pages"
  /\ pass # "assign" /\ wlm => WlmMapping
  /\ pass = "free" => wlm /\ RunInOrder

-----------------------------------------------------------------------------
\* On the NPU every task from which a control path leads to a started task has run
\* to its end: the last task of the path that had not would have to be before one
\* that has started.
LEMMA PathsHaveRun ==
  ASSUME prog \in Programs, RunInOrder, NEW u \in Tasks(prog), Started(u),
         NEW t \in Tasks(prog), u \in prog.controlMap[t]
  PROVE  t \notin Pending
<1> DEFINE B == {x \in Tasks(prog) : u \in prog.controlMap[x] /\ x \in Pending}
<1> SUFFICES ASSUME B # {} PROVE FALSE
  OBVIOUS
<1>1. WellFormed(prog) /\ ControlsOrdered(prog)
  BY ProgramsAssumption, ControlsAssumption
<1>2. PICK x \in B : \A y \in B : y <= x
  <2> HIDE DEF B
  <2> SUFFICES prog.numTasks \in Nat /\ B \in SUBSET (0 .. prog.numTasks)
    BY Extremes
  <2> QED BY <1>1, SmallNumbers DEF B
<1>3. PICK s \in Tasks(prog) : DirectlyBefore(prog, x, s) /\ (s = u \/ u \in prog.controlMap[s])
  BY <1>1 DEF ControlsOrdered
<1>4. x < s /\ x \in Nat /\ s \in Nat
  BY <1>1, <1>3, SmallNumbers DEF DirectlyBefore
<1>5. s \notin B
  <2> HIDE DEF B
  <2> QED BY <1>2, <1>4
<1>6. Started(s)
  BY <1>3, <1>5 DEF Started
<1> QED BY <1>3, <1>6 DEF RunInOrder

\* The VID before w on its PID.
LEMMA PreviousOnPid ==
  ASSUME prog \in Programs, NEW v \in Vids(prog), NEW w \in Vids(prog), v < w, realId[v] = realId[w]
  PROVE  \E u \in Vids(prog) :
           /\ v <= u /\ u < w /\ realId[u] = realId[w]
           /\ \A x \in Vids(prog) : u < x /\ x < w => realId[x] # realId[w]
<1> DEFINE S == {x \in Vids(prog) : x < w /\ realId[x] = realId[w]}
<1>1. prog.numBarriers \in Nat /\ Vids(prog) \in SUBSET (0 .. prog.numBarriers)
  BY ProgramsAssumption, SmallNumbers
<1>2. S \in SUBSET (0 .. prog.numBarriers) /\ v \in S
  BY <1>1
<1>3. \A x \in S : x \in Nat
  BY <1>2
<1>4. PICK u \in S : \A y \in S : y <= u
  <2> HIDE DEF S
  <2> QED BY <1>1, <1>2, Extremes
<1>5. ASSUME NEW x \in Vids(prog), u < x, x < w, realId[x] = realId[w] PROVE FALSE
  <2>1. x \in S
    BY <1>5
  <2> HIDE DEF S
  <2> QED BY <1>3, <1>4, <1>5, <2>1
<1> QED BY <1>2, <1>4, <1>5

\* When a producer of w has run on the NPU, every consumer of every earlier VID of
\* the same PID has started.  The smallest w for which this failed would have a VID
\* u before it whose consumers have started, and so a producer of u has run.
LEMMA EarlierVidsConsumed ==
  ASSUME prog \in Programs, RunInOrder, ReuseFollowsPaths,
         \A v \in Vids(prog) : realId[v] # None,
         NEW v \in Vids(prog), NEW w \in Vids(prog), v < w, realId[v] = realId[w],
         ToFinish(w) # Producers(w)
  PROVE  ToStart(v) = {}
<1> DEFINE Bad(x) == /\ v < x /\ realId[v] = realId[x] /\ ToFinish(x) # Producers(x)
           B == {x \in Vids(prog) : Bad(x)}
<1> SUFFICES ASSUME ToStart(v) # {} PROVE FALSE
  OBVIOUS
<1>1. /\ WellFormed(prog) /\ ControlsOrdered(prog)
      /\ prog.numBarriers \in Nat /\ Vids(prog) \in SUBSET (0 .. prog.numBarriers)
  BY ProgramsAssumption, ControlsAssumption, SmallNumbers
<1>2. PICK x \in B : \A y \in B : x <= y
  <2>1. w \in B /\ B \in SUBSET (0 .. prog.numBarriers)
    BY <1>1
  <2> HIDE DEF B
  <2> QED BY <1>1, <2>1, Extremes
<1>3. PICK u \in Vids(prog) : /\ v <= u /\ u < x /\ realId[u] = realId[x]
                              /\ \A z \in Vids(prog) : u < z /\ z < x => realId[z] # realId[x]
  BY PreviousOnPid
<1>4. /\ Consumers(u) # {}
      /\ \A c \in Consumers(u), t \in Producers(x) : t \in prog.controlMap[c]
  BY <1>3 DEF ReuseFollowsPaths
<1>5. PICK t \in Producers(x) : t \notin Pending
  BY DEF ToFinish, Producers, Pending
<1>6. \A c \in Consumers(u) : c \in Tasks(prog) /\ Started(c)
  <2> SUFFICES ASSUME NEW c \in Consumers(u) PROVE c \in Tasks(prog) /\ c \notin Pending
    BY DEF Started
  <2>1. c \in Tasks(prog) /\ t \in Tasks(prog) /\ t \in prog.controlMap[c] /\ Started(t)
    BY <1>4, <1>5 DEF Consumers, Producers, Started
  <2> QED BY <2>1, PathsHaveRun
<1>7. ToStart(u) = {}
  BY <1>6 DEF ToStart, Consumers
<1>8. PICK c \in Consumers(u) : TRUE
  BY <1>4
<1>9. ToFinish(u) = {}
  BY <1>6, <1>8 DEF RunInOrder, Consumers
<1>10. Producers(u) # {}
  BY <1>1, <1>8 DEF ControlsOrdered, Consumers, Producers, Waits, Posts
<1>11. v < u
  <2>1. v # u
    BY <1>7
  <2> QED BY <1>1, <1>3, <2>1
<1>12. u \in B
  BY <1>3, <1>9, <1>10, <1>11
<1>13. u \in Nat /\ x \in Nat
  BY <1>1
<1> HIDE DEF B
<1> QED BY <1>2, <1>3, <1>12, <1>13

-----------------------------------------------------------------------------
\* A WLM schedule is loaded: no task has started.
LEMMA LoadedInOrder ==
  ASSUME PassInv, LoadSchedule("free")
  PROVE  RunInOrder'
<1>1. /\ prog \in Programs /\ QueuesInOrder /\ stage = "done"
      /\ UNCHANGED <<prog, queue, active>>
      /\ pos' = [f \in 1 .. NumFifos |-> 1]
      /\ producerCount' = [v \in Vids(prog) |-> Slots(Producers(v))]
      /\ consumerCount' = [v \in Vids(prog) |-> Slots(Consumers(v))]
      /\ \A f \in 1 .. NumFifos : ~active[f]
      /\ prog.fifo \in [Tasks(prog) -> 1 .. NumFifos]
  BY ProgramsAssumption DEF PassInv, LoadSchedule, Passed, Running, WellFormed
<1>2. \A t \in Tasks(prog) : StillQueued(t)'
  <2> SUFFICES ASSUME NEW t \in Tasks(prog) PROVE StillQueued(t)'
    OBVIOUS
  <2>1. PICK i \in 1 .. Len(queue[prog.fifo[t]]) : queue[prog.fifo[t]][i] = t
    BY <1>1 DEF QueuesInOrder, Parsed
  <2>2. pos'[prog.fifo[t]] = 1 /\ 1 <= i
    BY <1>1
  <2> QED BY <1>1, <2>1, <2>2 DEF StillQueued
<1>3. Pending' = Tasks(prog)
  BY <1>1, <1>2 DEF Pending
<1>4. \A t \in Tasks(prog) : ~Started(t)'
  BY <1>1, <1>3 DEF Started
<1>5. \A v : ToFinish(v)' = Producers(v) /\ ToStart(v)' = Consumers(v)
  BY <1>1, <1>3, <1>4 DEF ToFinish, ToStart, Producers, Consumers, Waits, Posts
<1>6. \A S : Slots(S) = Sum(prog.count, S)
  BY DEF Slots, Sum
<1> QED BY <1>1, <1>4, <1>5, <1>6 DEF RunInOrder

\* A barrier whose counter of producers is zero has no producer left.
LEMMA NoSlotNoProducer ==
  ASSUME prog \in Programs, RunInOrder, NEW v \in Vids(prog), producerCount[v] = 0
  PROVE  ToFinish(v) = {}
<1>1. WellFormed(prog) /\ ToFinish(v) \in SUBSET Tasks(prog)
  BY ProgramsAssumption DEF ToFinish, Pending
<1>2. \A t \in ToFinish(v) : prog.count[t] \in Nat \ {0} /\ prog.count[t] <= Sum(prog.count, ToFinish(v))
  BY <1>1, ScheduleSlots DEF WellFormed
<1>3. Sum(prog.count, ToFinish(v)) = 0
  BY DEF RunInOrder
<1> QED BY <1>2, <1>3

\* A FIFO of the NPU starts its next task.
LEMMA StartInOrder ==
  ASSUME prog \in Programs, QueuesInOrder, RunInOrder, active \in [1 .. NumFifos -> BOOLEAN],
         NEW f \in 1 .. NumFifos, StartTask(f)
  PROVE  RunInOrder'
<1> DEFINE h == Task(f)
<1>1. /\ pos \in [1 .. NumFifos -> Nat \ {0}]
      /\ ~active[f] /\ ~FifoComplete(f)
      /\ active' = [active EXCEPT ![f] = TRUE]
      /\ UNCHANGED <<prog, queue, pos, producerCount>>
      /\ \A v \in Vids(prog) : InSeq(v, Waits(h)) => producerCount[v] = 0
      /\ consumerCount' = [v \in Vids(prog) |->
           IF InSeq(v, Waits(h)) THEN consumerCount[v] - prog.count[h] ELSE consumerCount[v]]
  BY DEF StartTask, RunInOrder, control
<1>2. /\ h \in Tasks(prog) /\ prog.fifo[h] = f /\ h \in Pending
      /\ \A t \in Tasks(prog) : prog.fifo[t] = f /\ t < h => t \notin Pending
  BY <1>1, NextOfFifo
<1>3. /\ WellFormed(prog) /\ prog.fifo \in [Tasks(prog) -> 1 .. NumFifos]
      /\ prog.count \in [Tasks(prog) -> Nat \ {0}]
  BY ProgramsAssumption DEF WellFormed
<1>4. /\ \A g \in 1 .. NumFifos : Task(g)' = Task(g)
      /\ Pending' = Pending
  BY <1>1 DEF Task, Pending, StillQueued
<1> HIDE DEF h
<1>5. \A t \in Tasks(prog) : Started(t)' <=> Started(t) \/ t = h
  <2> SUFFICES ASSUME NEW t \in Tasks(prog) PROVE Started(t)' <=> Started(t) \/ t = h
    OBVIOUS
  <2>1. Started(t)' <=> t \notin Pending \/ (active'[prog.fifo[t]] /\ t = Task(prog.fifo[t]))
    BY <1>1, <1>3, <1>4 DEF Started
  <2>2. CASE prog.fifo[t] = f
    BY <1>1, <1>2, <2>1, <2>2 DEF Started, h
  <2>3. CASE prog.fifo[t] # f
    <3>1. active'[prog.fifo[t]] = active[prog.fifo[t]] /\ t # h
      BY <1>1, <1>2, <1>3, <2>3
    <3> QED BY <2>1, <3>1 DEF Started
  <2> QED BY <2>2, <2>3
<1>6. ~Started(h)
  BY <1>1, <1>2 DEF Started
<1>7. \A v \in Vids(prog) : InSeq(v, Waits(h)) => ToFinish(v) = {}
  BY <1>1, NoSlotNoProducer
<1>8. ASSUME NEW v \in Vids(prog)
      PROVE  /\ ToFinish(v)' = ToFinish(v)
             /\ ToStart(v)' = IF InSeq(v, Waits(h)) THEN ToStart(v) \ {h} ELSE ToStart(v)
  <2>1. \A t : Waits(t)' = Waits(t) /\ Posts(t)' = Posts(t)
    BY <1>1 DEF Waits, Posts
  <2>2. ToFinish(v)' = ToFinish(v)
    BY <1>4, <2>1 DEF ToFinish
  <2>3. ToStart(v)' = {t \in Tasks(prog) : ~Started(t)' /\ InSeq(v, Waits(t))}
    BY <1>1, <2>1 DEF ToStart
  <2>4. ToStart(v)' = {t \in Tasks(prog) : ~Started(t) /\ t # h /\ InSeq(v, Waits(t))}
    BY <1>5, <2>3
  <2> QED BY <1>2, <2>2, <2>4 DEF ToStart
<1>9. ASSUME NEW v \in Vids(prog)
      PROVE  consumerCount'[v] = Sum(prog.count, ToStart(v)')
  <2>1. consumerCount[v] = Sum(prog.count, ToStart(v))
    BY DEF RunInOrder
  <2>2. CASE InSeq(v, Waits(h))
    <3>1. h \in ToStart(v) /\ ToStart(v) \in SUBSET Tasks(prog) /\ ToStart(v) \ {h} \in SUBSET Tasks(prog)
      BY <1>2, <1>6, <2>2 DEF ToStart
    <3>2. /\ Sum(prog.count, ToStart(v)) = prog.count[h] + Sum(prog.count, ToStart(v) \ {h})
          /\ Sum(prog.count, ToStart(v) \ {h}) \in Nat /\ prog.count[h] \in Nat
      BY <1>2, <1>3, <3>1, ScheduleSlots
    <3>3. consumerCount'[v] = consumerCount[v] - prog.count[h] /\ ToStart(v)' = ToStart(v) \ {h}
      BY <1>1, <1>8, <2>2 DEF h
    <3> QED BY <2>1, <3>2, <3>3
  <2>3. CASE ~InSeq(v, Waits(h))
    BY <1>1, <1>8, <2>1, <2>3 DEF h
  <2> QED BY <2>2, <2>3
<1>10. \A v \in Vids(prog) : producerCount'[v] = Sum(prog.count, ToFinish(v)')
  BY <1>1, <1>8 DEF RunInOrder
<1>11. ASSUME NEW t \in Tasks(prog), NEW u \in Tasks(prog), Started(u)', DirectlyBefore(prog, t, u)
       PROVE  t \notin Pending
  <2>1. CASE Started(u)
    BY <1>11, <2>1 DEF RunInOrder
  <2>2. CASE u = h
    <3>1. CASE prog.fifo[t] = prog.fifo[u]
      BY <1>2, <1>11, <2>2, <3>1 DEF DirectlyBefore
    <3>2. CASE \E v \in Vids(prog) : InSeq(v, prog.posts[t]) /\ InSeq(v, prog.waits[u])
      BY <1>7, <2>2, <3>2 DEF ToFinish, Waits, Posts
    <3> QED BY <1>11, <3>1, <3>2 DEF DirectlyBefore
  <2> QED BY <1>5, <1>11, <2>1, <2>2
<1>12. ASSUME NEW u \in Tasks(prog), NEW v \in Vids(prog), Started(u)', InSeq(v, Waits(u))
       PROVE  ToFinish(v)' = {}
  <2>1. CASE Started(u)
    BY <1>8, <1>12, <2>1 DEF RunInOrder
  <2>2. CASE u = h
    BY <1>7, <1>8, <1>12, <2>2
  <2> QED BY <1>5, <1>12, <2>1, <2>2
<1>13. \A g \in 1 .. NumFifos : active'[g] => ~FifoComplete(g)'
  BY <1>1 DEF RunInOrder, FifoComplete
<1>14. /\ Tasks(prog)' = Tasks(prog) /\ Vids(prog)' = Vids(prog)
       /\ \A t, u : DirectlyBefore(prog, t, u)' <=> DirectlyBefore(prog, t, u)
       /\ \A t : Waits(t)' = Waits(t)
  BY <1>1 DEF Waits
<1> QED BY <1>1, <1>4, <1>9, <1>10, <1>11, <1>12, <1>13, <1>14 DEF RunInOrder

\* A FIFO of the NPU ends its task.
LEMMA FinishInOrder ==
  ASSUME prog \in Programs, QueuesInOrder, RunInOrder, active \in [1 .. NumFifos -> BOOLEAN],
         NEW f \in 1 .. NumFifos, FinishTask(f)
  PROVE  RunInOrder'
<1> DEFINE h == Task(f)
<1>1. /\ pos \in [1 .. NumFifos -> Nat \ {0}]
      /\ active[f] /\ ~FifoComplete(f)
      /\ active' = [active EXCEPT ![f] = FALSE]
      /\ pos' = [pos EXCEPT ![f] = @ + 1]
      /\ UNCHANGED <<prog, queue, consumerCount>>
      /\ producerCount' = [v \in Vids(prog) |->
           IF InSeq(v, Posts(h)) THEN producerCount[v] - prog.count[h] ELSE producerCount[v]]
  BY DEF FinishTask, RunInOrder
<1>2. h \in Tasks(prog) /\ prog.fifo[h] = f /\ h \in Pending
  BY <1>1, NextOfFifo
<1>3. /\ WellFormed(prog) /\ prog.fifo \in [Tasks(prog) -> 1 .. NumFifos]
      /\ prog.count \in [Tasks(prog) -> Nat \ {0}]
  BY ProgramsAssumption DEF WellFormed
<1>4. /\ \A g \in 1 .. NumFifos : g # f => Task(g)' = Task(g)
      /\ Pending' = Pending \ {h}
  BY <1>1, NextOfFifoRuns DEF Task
<1> HIDE DEF h
<1>5. \A t \in Tasks(prog) : Started(t)' <=> Started(t)
  <2> SUFFICES ASSUME NEW t \in Tasks(prog) PROVE Started(t)' <=> Started(t)
    OBVIOUS
  <2>1. CASE prog.fifo[t] = f
    <3>1. active'[prog.fifo[t]] = FALSE
      BY <1>1, <2>1
    <3>2. Started(t)' <=> t \notin Pending'
      BY <1>1, <3>1 DEF Started
    <3> QED BY <1>1, <1>2, <1>4, <2>1, <3>2 DEF Started, h
  <2>2. CASE prog.fifo[t] # f
    <3>1. active'[prog.fifo[t]] = active[prog.fifo[t]] /\ t # h /\ prog.fifo[t] \in 1 .. NumFifos
      BY <1>1, <1>2, <1>3, <2>2
    <3>2. Task(prog.fifo[t])' = Task(prog.fifo[t])
      BY <1>1, <1>4, <2>2, <3>1 DEF Task
    <3> QED BY <1>1, <1>4, <3>1, <3>2 DEF Started
  <2> QED BY <2>1, <2>2
<1>6. ASSUME NEW v \in Vids(prog)
      PROVE  /\ ToStart(v)' = ToStart(v)
             /\ ToFinish(v)' = IF InSeq(v, Posts(h)) THEN ToFinish(v) \ {h} ELSE ToFinish(v)
  <2>1. \A t : Waits(t)' = Waits(t) /\ Posts(t)' = Posts(t)
    BY <1>1 DEF Waits, Posts
  <2>2. ToStart(v)' = {t \in Tasks(prog) : ~Started(t)' /\ InSeq(v, Waits(t))}
    BY <1>1, <2>1 DEF ToStart
  <2>3. ToStart(v)' = ToStart(v)
    BY <1>5, <2>2 DEF ToStart
  <2>4. ToFinish(v)' = {t \in Pending \ {h} : InSeq(v, Posts(t))}
    BY <1>4, <2>1 DEF ToFinish
  <2> QED BY <2>3, <2>4 DEF ToFinish
<1>7. ASSUME NEW v \in Vids(prog)
      PROVE  producerCount'[v] = Sum(prog.count, ToFinish(v)')
  <2>1. producerCount[v] = Sum(prog.count, ToFinish(v))
    BY DEF RunInOrder
  <2>2. CASE InSeq(v, Posts(h))
    <3>1. /\ h \in ToFinish(v)
          /\ ToFinish(v) \in SUBSET Tasks(prog) /\ ToFinish(v) \ {h} \in SUBSET Tasks(prog)
      BY <1>2, <2>2 DEF ToFinish, Pending
    <3>2. /\ Sum(prog.count, ToFinish(v)) = prog.count[h] + Sum(prog.count, ToFinish(v) \ {h})
          /\ Sum(prog.count, ToFinish(v) \ {h}) \in Nat /\ prog.count[h] \in Nat
      BY <1>2, <1>3, <3>1, ScheduleSlots
    <3>3. producerCount'[v] = producerCount[v] - prog.count[h] /\ ToFinish(v)' = ToFinish(v) \ {h}
      BY <1>1, <1>6, <2>2 DEF h
    <3> QED BY <2>1, <3>2, <3>3
  <2>3. CASE ~InSeq(v, Posts(h))
    BY <1>1, <1>6, <2>1, <2>3 DEF h
  <2> QED BY <2>2, <2>3
<1>8. \A v \in Vids(prog) : consumerCount'[v] = Sum(prog.count, ToStart(v)')
  BY <1>1, <1>6 DEF RunInOrder
<1>9. \A t, u \in Tasks(prog) : Started(u)' /\ DirectlyBefore(prog, t, u) => t \notin Pending'
  BY <1>4, <1>5 DEF RunInOrder
<1>10. \A u \in Tasks(prog), v \in Vids(prog) : Started(u)' /\ InSeq(v, Waits(u)) => ToFinish(v)' = {}
  BY <1>5, <1>6 DEF RunInOrder
<1>11. \A g \in 1 .. NumFifos : active'[g] => ~FifoComplete(g)'
  <2> SUFFICES ASSUME NEW g \in 1 .. NumFifos, active'[g] PROVE ~FifoComplete(g)'
    OBVIOUS
  <2>1. g # f /\ active[g] /\ pos'[g] = pos[g]
    BY <1>1
  <2> QED BY <1>1, <2>1 DEF RunInOrder, FifoComplete
<1>12. /\ Tasks(prog)' = Tasks(prog) /\ Vids(prog)' = Vids(prog)
       /\ \A t, u : DirectlyBefore(prog, t, u)' <=> DirectlyBefore(prog, t, u)
       /\ \A t : Waits(t)' = Waits(t)
  BY <1>1 DEF Waits
<1>13. pos' \in [1 .. NumFifos -> Nat \ {0}]
  BY <1>1
<1> QED BY <1>1, <1>7, <1>8, <1>9, <1>10, <1>11, <1>12, <1>13 DEF RunInOrder

-----------------------------------------------------------------------------
\* A control path leads from a pending task to pending tasks only: the last task of
\* the path that is pending would have to be before one that is not.
LEMMA PathsArePending ==
  ASSUME prog \in Programs, SimulatedInOrder, stage # "parse",
         NEW t \in Tasks(prog), t \in Pending, NEW u \in Tasks(prog), u \in prog.controlMap[t]
  PROVE  u \in Pending
<1> DEFINE B == {x \in Tasks(prog) : u \in prog.controlMap[x] /\ x \in Pending}
<1> SUFFICES ASSUME u \notin Pending PROVE FALSE
  OBVIOUS
<1>1. WellFormed(prog) /\ ControlsOrdered(prog)
  BY ProgramsAssumption, ControlsAssumption
<1>2. PICK x \in B : \A y \in B : y <= x
  <2>1. t \in B
    OBVIOUS
  <2> HIDE DEF B
  <2> SUFFICES prog.numTasks \in Nat /\ B \in SUBSET (0 .. prog.numTasks)
    BY <2>1, Extremes
  <2> QED BY <1>1, SmallNumbers DEF B
<1>3. PICK s \in Tasks(prog) : DirectlyBefore(prog, x, s) /\ (s = u \/ u \in prog.controlMap[s])
  BY <1>1 DEF ControlsOrdered
<1>4. x < s /\ x \in Nat /\ s \in Nat
  BY <1>1, <1>3, SmallNumbers DEF DirectlyBefore
<1>5. s \in Pending
  BY <1>3 DEF SimulatedInOrder, Parsed
<1>6. s \in B
  BY <1>3, <1>5
<1> HIDE DEF B
<1> QED BY <1>2, <1>4, <1>6

\* The PID that the search takes for the next VID is free, and the consumers of every
\* VID that had it have run.
LEMMA PidFound ==
  ASSUME prog \in Programs, BaseInv, SlotInv, FreedByConsumer, Dynamic, stage = "map", HasBarrierToMap
  PROVE  LET k == Min(Acceptable)
             r == nextReal[k]
         IN  /\ k \in Acceptable /\ r \in 0 .. NumPids - 1 /\ toVirtual[r] = None
             /\ bar \in Vids(prog) /\ \A v \in Vids(prog) : v >= bar => realId[v] = None
             /\ \A v \in Vids(prog) : realId[v] = r =>
                  Consumers(v) # {} /\ \A c \in Consumers(v) : c \in Tasks(prog) /\ c \notin Pending
<1> DEFINE k == Min(Acceptable)
           r == nextReal[k]
<1>1. TypeOK /\ MappingInv /\ bar \in Vids(prog)
  BY NextVidExists DEF BaseInv, SimOK
<1>2. k \in 1 .. Len(nextReal) /\ r \in 0 .. NumPids - 1 /\ k \in Acceptable
  <2>1. Acceptable # {} /\ Acceptable \in SUBSET Nat
    BY DEF HasBarrierToMap, Acceptable, Dynamic
  <2>2. Min(Acceptable) \in Acceptable
    BY <2>1, MinIsMember
  <2> QED BY <1>1, <2>2, RingPick, TypesOfTypeOK
<1>3. toVirtual[r] = None
  <2>1. Pids = 0 .. NumPids - 1 /\ nextReal \in Seq(0 .. NumPids - 1)
    BY <1>1 DEF TypeOK, Pids
  <2>2. InSeq(r, nextReal)
    BY <1>2, <2>1 DEF InSeq
  <2> QED BY <1>1, <1>2, <2>1, <2>2 DEF MappingInv, RingHoldsFreePids
<1> HIDE DEF k, r
<1>4. ASSUME NEW v \in Vids(prog), realId[v] = r
      PROVE  Consumers(v) # {} /\ \A c \in Consumers(v) : c \in Tasks(prog) /\ c \notin Pending
  <2>1. r # None /\ v # None
    BY <1>2 DEF None, Vids
  <2>2. Consumers(v) # {}
    BY <1>3, <1>4, <2>1 DEF FreedByConsumer
  <2>3. consumerCount[v] = 0
    BY <1>1, <1>3, <1>4, <2>1 DEF MappingInv, UnconsumedKeepPid
  <2> QED BY <2>2, <2>3, ConsumersHaveRun DEF BaseInv
<1>5. \A v \in Vids(prog) : v >= bar => realId[v] = None
  BY <1>1 DEF MappingInv, UnconsumedKeepPid
<1> QED BY <1>1, <1>2, <1>3, <1>4, <1>5 DEF k, r

\* In a WLM simulation a control path leads from each consumer of the latest VID of
\* the PID found to each producer of the next VID.
LEMMA SearchFindsOrdered ==
  ASSUME prog \in Programs, BaseInv, SlotInv, SimOrder, MapOrder, mode = "wlm", stage = "map",
         HasBarrierToMap, NEW v \in Vids(prog),
         realId[v] = nextReal[Min(Acceptable)], v = prevVid[realId[v]]
  PROVE  /\ Consumers(v) # {}
         /\ \A c \in Consumers(v), t \in Producers(bar) : t \in prog.controlMap[c]
<1>1. /\ WellFormed(prog) /\ ControlsOrdered(prog) /\ Dynamic
      /\ FreedByConsumer /\ UsersPending /\ TypeOK
  BY ProgramsAssumption, ControlsAssumption DEF Dynamic, MapOrder, BaseInv, SimOK
<1>2. /\ Min(Acceptable) \in Acceptable /\ bar \in Vids(prog) /\ Consumers(v) # {}
      /\ \A w \in Vids(prog) : w >= bar => realId[w] = None
      /\ \A c \in Consumers(v) : c \in Tasks(prog) /\ c \notin Pending
  BY <1>1, PidFound
<1>3. v # None
  BY DEF Vids, None
<1>4. CanBarrierReusePid(bar, v)
  BY <1>2, <1>3 DEF Acceptable
<1>5. ASSUME NEW t \in Producers(bar) PROVE t \in Tasks(prog) /\ t \in Pending
  <2>1. realId[bar] = None
    <3>1. bar >= bar
      BY <1>1 DEF TypeOK
    <3> QED BY <1>2, <3>1
  <2> QED BY <1>1, <1>2, <2>1 DEF UsersPending, Uses, Parsed, Producers
<1>6. ASSUME NEW c \in Consumers(v), NEW t \in Producers(bar) PROVE t \in prog.controlMap[c]
  <2>1. c \notin prog.controlMap[t]
    BY <1>2, <1>5, PathsArePending DEF SimOrder
  <2>2. c # t
    BY <1>2, <1>5
  <2>3. prog.block[c] \in Nat /\ prog.block[t] \in Nat
    BY <1>1, <1>2, <1>5 DEF WellFormed
  <2>4. ~(prog.block[t] < prog.block[c])
    BY <1>1, <1>2, <1>5, <2>1 DEF ControlsOrdered
  <2>5. CASE prog.block[c] < prog.block[t]
    BY <1>1, <1>2, <1>5, <2>5 DEF ControlsOrdered
  <2>6. CASE prog.block[c] = prog.block[t]
    BY <1>4, <2>1, <2>2, <2>6 DEF CanBarrierReusePid, ControlPath
  <2> QED BY <2>3, <2>4, <2>5, <2>6
<1> QED BY <1>2, <1>6

-----------------------------------------------------------------------------
\* Nothing is mapped yet.
LEMMA MapInit == Fresh /\ Dynamic => MapOrder
<1> SUFFICES ASSUME Fresh, Dynamic PROVE MapOrder
  OBVIOUS
<1>1. PICK p \in Programs, m \in AllModes : \E ids \in GivenIds(p, m) : Start(p, m, ids)
  BY DEF Fresh
<1>2. PICK ids \in GivenIds(p, m) : Start(p, m, ids)
  BY <1>1
<1>3. /\ \A v \in Vids(prog) : realId[v] = None
      /\ stage = "parse" /\ step = 1 /\ bar = 0 /\ result = "none"
  BY <1>2 DEF Start, GivenIds, PerVid, Dynamic
<1>4. \A t \in Tasks(prog) : ~Parsed(t)
  BY <1>3 DEF Parsed, Tasks
<1>5. UsersPending /\ FreedByConsumer /\ ReuseFollowsPaths /\ ReusedAfterConsumers
  BY <1>3, <1>4 DEF UsersPending, FreedByConsumer, ReuseFollowsPaths, ReusedAfterConsumers
<1>6. PrevIsLatest
  BY <1>3 DEF PrevIsLatest, None
<1>7. MappedInOrder
  <2>1. \A v \in Vids(prog) : ~(v < bar)
    BY <1>3 DEF Vids
  <2> QED BY <1>3, <2>1 DEF MappedInOrder
<1>8. Orderable(Mapped, Ran)
  BY <1>3 DEF Orderable, Mapped, Ran
<1> QED BY <1>3, <1>5, <1>6, <1>7, <1>8 DEF MapOrder, SlotsChecked

\* What is ordered stays ordered.
LEMMA OrderableStays ==
  ASSUME Orderable(Mapped, Ran), UNCHANGED <<prog, realId>>, Ran' = Ran
  PROVE  Orderable(Mapped, Ran)'
<1>1. Mapped' = Mapped /\ Tasks(prog)' = Tasks(prog) /\ Vids(prog)' = Vids(prog)
  BY DEF Mapped
<1>2. \A w, V, T : VidFree(w, V, T)' <=> VidFree(w, V, T)
  BY DEF VidFree, Consumers, Waits
<1>3. \A t, V, T : TaskFree(t, V, T)' <=> TaskFree(t, V, T)
  BY DEF TaskFree, Uses, Waits, Posts
<1> QED BY <1>1, <1>2, <1>3 DEF Orderable

\* A step that leaves the mapping and the pending tasks as they are.
LEMMA MapSame ==
  ASSUME MapOrder, UNCHANGED <<prog, mode, realId, toVirtual, prevVid, bar>>,
         Pending' = Pending, Ran' = Ran, \A t \in Tasks(prog) : Parsed(t),
         SlotsChecked', result' = "success" => AllDone
  PROVE  MapOrder'
<1>1. UsersPending'
  BY DEF MapOrder, UsersPending, Uses, Waits, Posts
<1>2. FreedByConsumer' /\ ReusedAfterConsumers'
  BY DEF MapOrder, FreedByConsumer, ReusedAfterConsumers, Consumers, Waits
<1>3. PrevIsLatest' /\ MappedInOrder'
  BY DEF MapOrder, PrevIsLatest, MappedInOrder, AllDone
<1>4. mode' = "wlm" => ReuseFollowsPaths'
  BY DEF MapOrder, ReuseFollowsPaths, Consumers, Producers, Waits, Posts
<1>5. Orderable(Mapped, Ran)'
  BY OrderableStays DEF MapOrder
<1> QED BY <1>1, <1>2, <1>3, <1>4, <1>5 DEF MapOrder

\* Nothing changes.
LEMMA MapUnchanged ==
  ASSUME MapOrder, UNCHANGED <<prog, mode, stage, step, realId, toVirtual, prevVid, bar, result>>,
         Pending' = Pending
  PROVE  MapOrder'
<1>1. UsersPending' /\ SlotsChecked'
  BY DEF MapOrder, UsersPending, Parsed, Uses, SlotsChecked, SlotsFit, Producers, Consumers, Waits, Posts
<1>2. FreedByConsumer' /\ ReusedAfterConsumers'
  BY DEF MapOrder, FreedByConsumer, ReusedAfterConsumers, Consumers, Waits
<1>3. PrevIsLatest' /\ MappedInOrder'
  BY DEF MapOrder, PrevIsLatest, MappedInOrder, AllDone
<1>4. mode' = "wlm" => ReuseFollowsPaths'
  BY DEF MapOrder, ReuseFollowsPaths, Consumers, Producers, Waits, Posts
<1>5. Orderable(Mapped, Ran)'
  BY OrderableStays DEF MapOrder, Ran
<1> QED BY <1>1, <1>2, <1>3, <1>4, <1>5 DEF MapOrder

\* parseTasks.
LEMMA MapParse ==
  ASSUME BaseInv, BaseInv', SlotInv, SlotInv', QueuesInOrder', Dynamic, MapOrder, ParseTask
  PROVE  MapOrder'
<1>1. UNCHANGED <<prog, mode, realId, toVirtual, prevVid, bar, result>> /\ stage = "parse" /\ stage' = "parse"
  BY DEF ParseTask, mapping
<1>2. \A t \in Tasks(prog) : Parsed(t)' => t \in Pending'
  BY ParsedNext DEF BaseInv
<1>3. \A v \in Vids(prog) : realId[v] = None
  <2>1. bar = 0 /\ \A v \in Vids(prog) : v >= bar => realId[v] = None
    BY <1>1 DEF BaseInv, SimOK, MappingInv, NothingMappedYet, UnconsumedKeepPid
  <2> QED BY <2>1 DEF Vids
<1>4. UsersPending'
  BY <1>1, <1>2 DEF UsersPending
<1>5. FreedByConsumer' /\ ReusedAfterConsumers' /\ ReuseFollowsPaths'
  BY <1>1, <1>3 DEF FreedByConsumer, ReusedAfterConsumers, ReuseFollowsPaths
<1>6. PrevIsLatest' /\ MappedInOrder'
  <2>1. result # "success"
    BY <1>1 DEF SlotInv, ResultOK
  <2> QED BY <1>1, <2>1 DEF MapOrder, PrevIsLatest, MappedInOrder
<1>7. Orderable(Mapped, Ran)'
  <2>1. Ran' = Ran
    BY <1>1 DEF Ran
  <2> QED BY <1>1, <2>1, OrderableStays DEF MapOrder
<1> QED BY <1>1, <1>4, <1>5, <1>6, <1>7 DEF MapOrder, SlotsChecked

\* What parseTasks has counted in the end are the slots of all users.
LEMMA ParsedCounts ==
  ASSUME prog \in Programs, QueuesInOrder, BaseInv, SlotInv, stage = "parse", step > prog.numTasks
  PROVE  \A v \in Vids(prog) : /\ consumerCount[v] = Sum(prog.count, Consumers(v))
                               /\ producerCount[v] = Sum(prog.count, Producers(v))
<1>1. Pending = Tasks(prog)
  BY AllParsed, ParsedArePending DEF BaseInv, SimOK, SlotInv, Pending
<1>2. \A v : WaitingOn(v) = Consumers(v) /\ StillToPost(v) = Producers(v)
  BY <1>1 DEF WaitingOn, StillToPost, Consumers, Producers, Consumed, Produced
<1> QED BY <1>2 DEF SlotInv, CountsOK

\* The slot checks of a pass that simulates any further.
LEMMA SlotsCounted ==
  ASSUME prog \in Programs, QueuesInOrder, BaseInv, SlotInv, CheckSlots
  PROVE  result' = "slots" \/ SlotsFit
<1> SUFFICES ASSUME result' # "slots" PROVE SlotsFit
  OBVIOUS
<1>1. /\ stage = "parse" /\ step > prog.numTasks
      /\ CheckProducerCount /\ CheckProducerAndConsumerCount
  BY DEF CheckSlots, Finish
<1> QED BY <1>1, ParsedCounts DEF SlotsFit, CheckProducerCount, CheckProducerAndConsumerCount

\* A step that neither parses, maps, consumes nor ends a task.
LEMMA MapQuiet ==
  ASSUME prog \in Programs, QueuesInOrder, BaseInv, SlotInv, MapOrder,
         UNCHANGED <<prog, mode, queue, pos, realId, toVirtual, prevVid, bar>>,
         stage' # "parse", stage = "parse" => step > prog.numTasks,
         SlotsChecked', result' = "success" => AllDone
  PROVE  MapOrder'
<1>1. \A t \in Tasks(prog) : Parsed(t)
  BY AllParsed
<1>2. Pending' = Pending
  BY DEF Pending, StillQueued
<1>3. stage = "parse" => Pending = Tasks(prog)
  BY <1>1, ParsedArePending DEF BaseInv, SimOK, SlotInv, Pending
<1>4. Ran' = Ran
  BY <1>2, <1>3 DEF Ran
<1> QED BY <1>1, <1>2, <1>4, MapSame

\* The search maps the next VID.
LEMMA MapMap ==
  ASSUME prog \in Programs, QueuesInOrder, BaseInv, SlotInv, SimOrder, MapOrder, Dynamic, MapBarrier
  PROVE  MapOrder'
<1> DEFINE r == nextReal[Min(Acceptable)]
<1>1. /\ UNCHANGED <<prog, mode, queue, pos, result, producerCount>>
      /\ stage = "map" /\ stage' = "map" /\ HasBarrierToMap /\ bar' = bar + 1
      /\ realId' = [realId EXCEPT ![bar] = r]
      /\ toVirtual' = [toVirtual EXCEPT ![r] = bar] /\ prevVid' = [prevVid EXCEPT ![r] = bar]
  <2>1. MapDynamic
    BY DEF MapBarrier, MapInstance, MapStatic, Dynamic
  <2> QED BY <2>1 DEF MapBarrier, MapDynamic, Program, parsed
<1>2. /\ UsersPending /\ FreedByConsumer /\ ReusedAfterConsumers /\ PrevIsLatest /\ MappedInOrder
      /\ Orderable(Mapped, Ran) /\ SlotsChecked /\ (mode = "wlm" => ReuseFollowsPaths)
      /\ TypeOK
  BY DEF MapOrder, BaseInv, SimOK
<1>3. /\ r \in 0 .. NumPids - 1 /\ toVirtual[r] = None
      /\ bar \in Vids(prog) /\ \A v \in Vids(prog) : v >= bar => realId[v] = None
      /\ \A v \in Vids(prog) : realId[v] = r =>
           Consumers(v) # {} /\ \A c \in Consumers(v) : c \notin Pending
  BY <1>1, <1>2, PidFound
<1>4. /\ realId \in [Vids(prog) -> (0 .. NumPids - 1) \cup {None}]
      /\ toVirtual \in [0 .. NumPids - 1 -> Vids(prog) \cup {None}]
      /\ prevVid \in [0 .. NumPids - 1 -> Vids(prog) \cup {None}]
      /\ bar \in Nat /\ Vids(prog) \in SUBSET Nat
      /\ None \notin Nat /\ r # None
  BY <1>2, <1>3 DEF TypeOK, Vids, None
<1>5. ASSUME mode = "wlm", NEW v \in Vids(prog), NEW w \in Vids(prog), w = bar, v < w, realId[v] = r,
             \A u \in Vids(prog) : v < u /\ u < w => realId'[u] # r
      PROVE  /\ Consumers(v) # {}
             /\ \A c \in Consumers(v), t \in Producers(w) : t \in prog.controlMap[c]
  <2>1. /\ prevVid[r] # None /\ v <= prevVid[r] /\ realId[prevVid[r]] = r
        /\ prevVid[r] \in Vids(prog)
    BY <1>2, <1>3, <1>4, <1>5 DEF PrevIsLatest
  <2>2. prevVid[r] < bar
    BY <1>3, <1>4, <2>1
  <2>3. realId'[prevVid[r]] = r
    BY <1>1, <1>4, <2>1, <2>2
  <2>4. prevVid[r] = v
    BY <1>4, <1>5, <2>1, <2>2, <2>3
  <2> QED BY <1>1, <1>5, <2>4, SearchFindsOrdered
<1> HIDE DEF r
<1>6. ASSUME NEW v \in Vids(prog)
      PROVE  /\ v = bar => realId'[v] = r
             /\ v # bar => realId'[v] = realId[v]
             /\ v > bar => realId'[v] = None
  BY <1>1, <1>3, <1>4
<1>7. /\ toVirtual'[r] = bar /\ prevVid'[r] = bar
      /\ \A q \in 0 .. NumPids - 1 : q # r => toVirtual'[q] = toVirtual[q] /\ prevVid'[q] = prevVid[q]
  BY <1>1, <1>3, <1>4
<1>8. Pending' = Pending /\ Tasks(prog)' = Tasks(prog) /\ Vids(prog)' = Vids(prog)
  BY <1>1 DEF Pending, StillQueued
<1>9. realId[bar] = None
  BY <1>3, <1>4
<1>10. UsersPending'
  <2>1. \A v \in Vids(prog) : realId'[v] = None => realId[v] = None
    BY <1>4, <1>6
  <2>2. \A t, v : Parsed(t) /\ Uses(t, v)' = Uses(t, v)
    BY <1>1 DEF Parsed, Uses, Waits, Posts
  <2> QED BY <1>2, <1>8, <2>1, <2>2 DEF UsersPending
<1>11. FreedByConsumer'
  <2> SUFFICES ASSUME NEW v \in Vids(prog), realId'[v] # None, toVirtual'[realId'[v]] # v
               PROVE  Consumers(v) # {}
    BY <1>1, <1>8 DEF FreedByConsumer, Consumers, Waits
  <2>1. v # bar /\ realId'[v] = realId[v]
    BY <1>6, <1>7
  <2>2. CASE realId[v] = r
    BY <1>3, <2>2
  <2>3. CASE realId[v] # r
    <3>1. toVirtual[realId[v]] # v /\ realId[v] # None
      BY <1>4, <1>7, <2>1, <2>3
    <3> QED BY <1>2, <3>1 DEF FreedByConsumer
  <2> QED BY <2>2, <2>3
<1>12. ReusedAfterConsumers'
  <2> SUFFICES ASSUME NEW v \in Vids(prog), NEW w \in Vids(prog),
                      v < w, realId'[v] = realId'[w], realId'[w] # None
               PROVE  Consumers(v) # {} /\ \A c \in Consumers(v) : c \notin Pending
    BY <1>1, <1>8 DEF ReusedAfterConsumers, Consumers, Waits
  <2>1. w <= bar /\ v # bar /\ realId'[v] = realId[v]
    BY <1>4, <1>6
  <2>2. CASE w = bar
    BY <1>3, <1>6, <2>1, <2>2
  <2>3. CASE w # bar
    BY <1>2, <1>6, <2>1, <2>3 DEF ReusedAfterConsumers
  <2> QED BY <2>2, <2>3
<1>13. PrevIsLatest'
  <2> SUFFICES ASSUME NEW q \in 0 .. NumPids - 1, NEW v \in Vids(prog), realId'[v] = q
               PROVE  prevVid'[q] # None /\ v <= prevVid'[q] /\ realId'[prevVid'[q]] = q
    BY <1>8 DEF PrevIsLatest
  <2>1. CASE q = r
    <3>1. v <= bar
      BY <1>4, <1>6, <2>1
    <3> QED BY <1>3, <1>4, <1>6, <1>7, <2>1, <3>1
  <2>2. CASE q # r
    <3>1. v # bar /\ realId[v] = q
      BY <1>6, <2>2
    <3>2. prevVid[q] # None /\ v <= prevVid[q] /\ realId[prevVid[q]] = q
      BY <1>2, <3>1 DEF PrevIsLatest
    <3>3. prevVid[q] \in Vids(prog)
      BY <1>4, <3>2
    <3>4. prevVid[q] # bar
      BY <1>4, <1>9, <3>2
    <3> QED BY <1>6, <1>7, <2>2, <3>2, <3>3, <3>4
  <2> QED BY <2>1, <2>2
<1>14. MappedInOrder'
  <2>1. result # "success"
    BY <1>1 DEF SlotInv, ResultOK
  <2>2. ASSUME NEW v \in Vids(prog), v < bar + 1 PROVE realId'[v] # None
    <3>1. CASE v = bar
      BY <1>4, <1>6, <3>1
    <3>2. CASE v # bar
      <4>1. v < bar
        BY <1>4, <2>2, <3>2
      <4> QED BY <1>2, <1>6, <3>2, <4>1 DEF MappedInOrder
    <3> QED BY <3>1, <3>2
  <2> QED BY <1>1, <1>8, <2>1, <2>2 DEF MappedInOrder
<1>15. mode' = "wlm" => ReuseFollowsPaths'
  <2> SUFFICES ASSUME mode = "wlm", NEW v \in Vids(prog), NEW w \in Vids(prog),
                      v < w, realId'[v] = realId'[w], realId'[w] # None,
                      \A u \in Vids(prog) : v < u /\ u < w => realId'[u] # realId'[w]
               PROVE  /\ Consumers(v) # {}
                      /\ \A c \in Consumers(v), t \in Producers(w) : t \in prog.controlMap[c]
    BY <1>1, <1>8 DEF ReuseFollowsPaths, Consumers, Producers, Waits, Posts
  <2>1. w <= bar
    BY <1>4, <1>6
  <2>2. v # bar /\ realId'[v] = realId[v]
    BY <1>4, <1>6, <2>1
  <2>3. CASE w = bar
    BY <1>5, <1>6, <2>2, <2>3
  <2>4. CASE w # bar
    <3>1. realId'[w] = realId[w]
      BY <1>6, <2>4
    <3>2. \A u \in Vids(prog) : u < w => realId'[u] = realId[u]
      BY <1>4, <1>6, <2>1, <2>4
    <3> QED BY <1>2, <2>2, <3>1, <3>2 DEF ReuseFollowsPaths
  <2> QED BY <2>3, <2>4
<1>16. Orderable(Mapped, Ran)'
  <2> SUFFICES ASSUME NEW V \in SUBSET Mapped', NEW T \in SUBSET Ran', V # {} \/ T # {}
               PROVE  (\E w \in V : VidFree(w, V, T)') \/ (\E t \in T : TaskFree(t, V, T)')
    BY DEF Orderable
  <2>1. /\ T \in SUBSET Ran /\ V \in SUBSET Vids(prog) /\ V \ {bar} \in SUBSET Mapped
        /\ \A v \in V : v <= bar
    BY <1>1, <1>3, <1>4, <1>6, <1>8 DEF Mapped, Ran
  <2>2. ASSUME NEW w \in V, w # bar, VidFree(w, V \ {bar}, T) PROVE VidFree(w, V, T)'
    <3>1. w \in Vids(prog) /\ w < bar
      BY <1>4, <2>1, <2>2
    <3>2. \A v \in V : ~(v < w)
      BY <1>4, <2>2, <3>1 DEF VidFree
    <3>3. \A v \in Vids(prog) : v < w /\ realId'[v] = realId'[w] => realId[v] = realId[w]
      BY <1>4, <1>6, <3>1
    <3> QED BY <1>1, <1>8, <2>2, <3>2, <3>3 DEF VidFree, Consumers, Waits
  <2>3. ASSUME NEW t \in T, TaskFree(t, V \ {bar}, T) PROVE TaskFree(t, V, T)'
    <3>1. ~Uses(t, bar)
      BY <1>1, <1>2, <1>3, <1>9, <2>1 DEF UsersPending, Ran, Parsed
    <3> QED BY <1>1, <1>8, <2>3, <3>1 DEF TaskFree, Uses, Waits, Posts
  <2>4. CASE V \ {bar} # {} \/ T # {}
    BY <1>2, <2>1, <2>2, <2>3, <2>4 DEF Orderable
  <2>5. CASE V \ {bar} = {} /\ T = {}
    <3>1. V = {bar}
      BY <2>5
    <3>2. \A v \in Vids(prog) : v < bar /\ realId'[v] = realId'[bar] => Consumers(v) # {}
      BY <1>3, <1>4, <1>6
    <3>3. ~(bar < bar)
      BY <1>4
    <3>4. ASSUME NEW w \in V, w = bar PROVE VidFree(w, V, T)'
      BY <1>1, <1>8, <2>5, <3>1, <3>2, <3>3, <3>4 DEF VidFree, Consumers, Waits
    <3> QED BY <3>1, <3>4
  <2> QED BY <2>4, <2>5
<1>17. SlotsChecked'
  BY <1>1, <1>2 DEF SlotsChecked, SlotsFit, Producers, Consumers, Waits, Posts
<1> QED BY <1>1, <1>10, <1>11, <1>12, <1>13, <1>14, <1>15, <1>16, <1>17 DEF MapOrder

\* A task consumes a barrier.
LEMMA MapConsume ==
  ASSUME prog \in Programs, BaseInv, SlotInv, MapOrder, ConsumeBarrier
  PROVE  MapOrder'
<1> DEFINE b == Waits(HeadTask)[step]
<1>1. /\ UNCHANGED <<prog, mode, queue, pos, fifo, realId, prevVid, bar, producerCount>>
      /\ stage = "task" /\ step <= Len(Waits(HeadTask))
      /\ stage' \in {"task", "done"} /\ (result' = result \/ result' = "miscount")
      /\ toVirtual' = toVirtual \/ toVirtual' = [toVirtual EXCEPT ![realId[b]] = None]
  BY DEF ConsumeBarrier, ContinueIf
<1>2. TypeOK /\ HeadTask \in Tasks(prog)
  BY <1>1, RunningTask DEF BaseInv, SimOK
<1>3. /\ b \in Vids(prog) /\ InSeq(b, Waits(HeadTask)) /\ HeadTask \in Consumers(b)
      /\ toVirtual[realId[b]] = b
  <2>1. step \in Nat \ {0}
    BY <1>1, RunningTask DEF BaseInv
  <2>2. step \in DOMAIN Waits(HeadTask) /\ step \in 1 .. Len(Waits(HeadTask))
    BY <1>1, <1>2, <2>1, TaskBarrierLists
  <2>3. toVirtual[realId[b]] = b
    BY <1>1, <2>1, <2>2 DEF SlotInv, TaskOK, OnItsPid, Pids
  <2> QED BY <1>2, <2>2, <2>3, TaskBarrierLists, TypesOfTypeOK DEF Consumers, InSeq
<1> HIDE DEF b
<1>4. /\ Pending' = Pending /\ Tasks(prog)' = Tasks(prog) /\ Vids(prog)' = Vids(prog)
      /\ Ran' = Ran
  BY <1>1 DEF Pending, StillQueued, Ran
<1>5. UsersPending' /\ ReusedAfterConsumers'
  BY <1>1, <1>4 DEF MapOrder, UsersPending, ReusedAfterConsumers, Parsed, Uses, Consumers, Posts, Waits
<1>6. PrevIsLatest' /\ MappedInOrder' /\ (mode' = "wlm" => ReuseFollowsPaths')
  BY <1>1, <1>4 DEF MapOrder, PrevIsLatest, MappedInOrder, AllDone, ReuseFollowsPaths,
                    Consumers, Producers, Waits, Posts
<1>7. FreedByConsumer'
  <2> SUFFICES ASSUME NEW v \in Vids(prog), realId[v] # None, toVirtual'[realId[v]] # v
               PROVE  Consumers(v) # {}
    BY <1>1, <1>4 DEF FreedByConsumer, Consumers, Waits
  <2>1. CASE v = b
    BY <1>3, <2>1
  <2>2. CASE v # b /\ toVirtual[realId[v]] # v
    BY <2>2 DEF MapOrder, FreedByConsumer
  <2>3. CASE v # b /\ toVirtual[realId[v]] = v
    <3>1. realId[v] = realId[b] /\ realId[v] \in 0 .. NumPids - 1
      BY <1>1, <1>2, <2>3 DEF TypeOK
    <3> QED BY <1>3, <2>3, <3>1
  <2> QED BY <2>1, <2>2, <2>3
<1>8. Orderable(Mapped, Ran)'
  BY <1>1, <1>4, OrderableStays DEF MapOrder
<1>9. SlotsChecked'
  <2>1. SlotsFit
    BY <1>1 DEF MapOrder, SlotsChecked, SlotInv, ResultOK
  <2> QED BY <1>1, <2>1 DEF SlotsChecked, SlotsFit, Producers, Consumers, Waits, Posts
<1> QED BY <1>5, <1>6, <1>7, <1>8, <1>9 DEF MapOrder

\* A task ends.
LEMMA MapEnd ==
  ASSUME prog \in Programs, QueuesInOrder, BaseInv, SlotInv, SimOrder, MapOrder, EndTask
  PROVE  MapOrder'
<1> DEFINE h == HeadTask
<1>1. /\ UNCHANGED <<prog, mode, queue, realId, toVirtual, prevVid, bar, result>>
      /\ stage = "task" /\ stage' = "fifos"
  BY DEF EndTask, parsed, mapping
<1>2. /\ h \in Tasks(prog) /\ h \in Pending /\ Pending' = Pending \ {h}
      /\ \A v \in Vids(prog) : Uses(h, v) => realId[v] # None
  BY EndingTask DEF BaseInv
<1> HIDE DEF h
<1>3. Tasks(prog)' = Tasks(prog) /\ Vids(prog)' = Vids(prog) /\ \A t : Parsed(t) /\ Parsed(t)'
  BY <1>1 DEF Parsed
<1>4. UsersPending'
  BY <1>1, <1>2, <1>3 DEF MapOrder, UsersPending, Uses, Waits, Posts
<1>5. FreedByConsumer' /\ PrevIsLatest' /\ MappedInOrder' /\ (mode' = "wlm" => ReuseFollowsPaths')
  <2>1. result # "success"
    BY <1>1 DEF SlotInv, ResultOK
  <2> QED BY <1>1, <1>3, <2>1 DEF MapOrder, FreedByConsumer, PrevIsLatest, MappedInOrder,
                                  ReuseFollowsPaths, Consumers, Producers, Waits, Posts
<1>6. ReusedAfterConsumers'
  BY <1>1, <1>2, <1>3 DEF MapOrder, ReusedAfterConsumers, Consumers, Waits
<1>7. Orderable(Mapped, Ran)'
  <2> SUFFICES ASSUME NEW V \in SUBSET Mapped', NEW T \in SUBSET Ran', V # {} \/ T # {}
               PROVE  (\E w \in V : VidFree(w, V, T)') \/ (\E t \in T : TaskFree(t, V, T)')
    BY DEF Orderable
  <2>1. V \in SUBSET Mapped /\ T \ {h} \in SUBSET Ran
    BY <1>1, <1>2, <1>3 DEF Mapped, Ran
  <2>2. ASSUME NEW w \in V, VidFree(w, V, T \ {h}) PROVE VidFree(w, V, T)'
    <3>1. \A v \in Vids(prog) : v < w /\ realId[v] = realId[w] => h \notin Consumers(v)
      BY <1>2, <2>1 DEF MapOrder, ReusedAfterConsumers, Mapped
    <3> QED BY <1>1, <1>3, <2>2, <3>1 DEF VidFree, Consumers, Waits
  <2>3. ASSUME NEW t \in T, t # h, TaskFree(t, V, T \ {h}) PROVE TaskFree(t, V, T)'
    <3>1. ~DirectlyBefore(prog, h, t)
      BY <1>2, <1>3, <2>1, <2>3 DEF SimOrder, SimulatedInOrder, Ran
    <3> QED BY <1>1, <1>3, <2>3, <3>1 DEF TaskFree, Uses, Waits, Posts
  <2>4. CASE V # {} \/ T \ {h} # {}
    BY <2>3, <2>4, <2>1, <2>2 DEF MapOrder, Orderable
  <2>5. CASE V = {} /\ T \ {h} = {}
    <3>1. T = {h} /\ ~DirectlyBefore(prog, h, h)
      BY <1>2, <2>5 DEF DirectlyBefore, Tasks
    <3> QED BY <1>1, <1>3, <2>5, <3>1 DEF TaskFree, Uses
  <2> QED BY <2>4, <2>5
<1>8. SlotsChecked'
  BY <1>1 DEF MapOrder, SlotsChecked, SlotsFit, Producers, Consumers, Waits, Posts
<1> QED BY <1>4, <1>5, <1>6, <1>7, <1>8 DEF MapOrder

\* Every step of a simulation that searches PIDs among the free ones.
LEMMA MapNext ==
  ASSUME prog \in Programs, QueuesInOrder, QueuesInOrder', BaseInv, BaseInv', SlotInv, SlotInv',
         SimOrder, MapOrder, Dynamic, Next
  PROVE  MapOrder'
<1>1. stage # "pages" /\ mode # "pages"
  BY DEF BaseInv, SimOK, MappingInv, QueuedHavePid, Dynamic
<1>2. result = "success" => AllDone
  BY DEF MapOrder, MappedInOrder
<1>3. ASSUME prog' = prog, stage # "parse", result' = "slots" \/ result' = result \/ result # "slots"
      PROVE  SlotsChecked'
  BY <1>3 DEF MapOrder, SlotsChecked, SlotsFit, Producers, Consumers, Waits, Posts
<1>4. CASE CheckSlots
  <2>1. /\ UNCHANGED <<prog, mode, queue, pos, realId, toVirtual, prevVid, bar>>
        /\ stage = "parse" /\ stage' # "parse" /\ step > prog.numTasks
        /\ result' = result \/ result' = "slots"
    BY <1>4 DEF CheckSlots, Finish, parsed, mapping
  <2>2. SlotsChecked'
    BY <1>4, <2>1, SlotsCounted DEF SlotsChecked, SlotsFit, Producers, Consumers, Waits, Posts
  <2> QED BY <1>2, <2>1, <2>2, MapQuiet
<1>5. CASE BeginIteration \/ StopMapping \/ NextFifo \/ BeginTask \/ ProduceBarrier \/ EndIteration \/ Succeed
  <2>1. /\ UNCHANGED <<prog, mode, queue, pos, realId, toVirtual, prevVid, bar>>
        /\ stage' # "parse" /\ stage \notin {"parse", "done"}
    BY <1>5 DEF BeginIteration, StopMapping, NextFifo, BeginTask, ProduceBarrier, EndIteration, Succeed,
                IterationDone, ContinueIf, Finish, parsed, mapping
  <2>2. result # "slots"
    BY <2>1 DEF SlotInv, ResultOK
  <2>3. result' = "success" => AllDone
    <3>1. CASE Succeed
      BY <3>1, NothingLeft DEF Succeed, BaseInv, SimOK
    <3>2. CASE ~Succeed
      <4>1. result' = result \/ result' \in {"miscount", "throw", "blocked"}
        BY <1>5, <3>2 DEF BeginIteration, StopMapping, NextFifo, BeginTask, ProduceBarrier, EndIteration,
                          ContinueIf, Finish
      <4> QED BY <1>2, <4>1
    <3> QED BY <3>1, <3>2
  <2> QED BY <1>3, <2>1, <2>2, <2>3, MapQuiet
<1>6. ~BeginPages /\ ~AssignPage /\ ~EndPages
  BY <1>1 DEF BeginPages, AssignPage, EndPages
<1>7. CASE ParseTask
  BY <1>7, MapParse
<1>8. CASE MapBarrier
  BY <1>8, MapMap
<1>9. CASE ConsumeBarrier
  BY <1>9, MapConsume
<1>10. CASE EndTask
  BY <1>10, MapEnd
<1> QED BY <1>4, <1>5, <1>6, <1>7, <1>8, <1>9, <1>10 DEF Next, Construct, Simulate

-----------------------------------------------------------------------------
\* PassInv holds at first.
LEMMA PassInvInit == PassInit => PassInv
<1> SUFFICES ASSUME PassInit PROVE PassInv
  OBVIOUS
<1>1. Fresh
  BY InitIsFresh DEF PassInit
<1>2. /\ prog \in Programs /\ stage = "parse" /\ step = 1
      /\ queue = [f \in 1 .. NumFifos |-> <<>>]
  BY <1>1 DEF Fresh, Start, PerFifo
<1>3. QueuesInOrder
  BY <1>2, QueuesEmpty
<1>4. BaseInv /\ SlotInv /\ (Dynamic => AssignOrder)
  BY <1>1, TypeInit, MappingInit, SlotInit, SimInit, MapInit, TypesOfTypeOK DEF BaseInv, SimOK, AssignOrder
<1>5. active \in [1 .. NumFifos -> BOOLEAN] /\ \A f \in 1 .. NumFifos : ~active[f]
  BY DEF PassInit
<1> QED BY <1>2, <1>3, <1>4, <1>5 DEF PassInv, PassInit

\* A simulation that searched PIDs and succeeded has mapped every VID to one.
LEMMA AllMapped ==
  ASSUME TypeOK, MapOrder, result = "success"
  PROVE  realId \in [Vids(prog) -> 0 .. NumPids - 1] /\ Mapped = Vids(prog)
<1>1. \A v \in Vids(prog) : realId[v] # None
  <2> SUFFICES ASSUME NEW v \in Vids(prog) PROVE v < bar
    BY DEF MapOrder, MappedInOrder
  <2>1. bar >= prog.numBarriers /\ bar \in Nat /\ prog.numBarriers \in Nat
    BY DEF MapOrder, MappedInOrder, AllDone, TypeOK, WellFormed
  <2> QED BY <2>1 DEF Vids
<1>2. realId \in [Vids(prog) -> (0 .. NumPids - 1) \cup {None}]
  BY DEF TypeOK
<1> QED BY <1>1, <1>2 DEF Mapped

\* PassInv is kept by the steps of both simulators, by the rewriting of the PIDs
\* into the schedule, by loading it and by the steps of the NPU.
LEMMA PassInvNext == PassInv /\ [PassNext]_passVars => PassInv'
<1> SUFFICES ASSUME PassInv, [PassNext]_passVars PROVE PassInv'
  OBVIOUS
<1>0. prog \in Programs /\ QueuesInOrder /\ active \in [1 .. NumFifos -> BOOLEAN]
  BY DEF PassInv
<1>a. UNCHANGED <<prog, realId>> /\ WlmMapping => WlmMapping'
  BY DEF WlmMapping, ReuseFollowsPaths, Consumers, Producers, Waits, Posts
<1>1. CASE SimulatorStep
  <2>1. Next /\ UNCHANGED <<pass, wlm, active>> /\ pass \in {"assign", "validate"}
    BY <1>1 DEF SimulatorStep
  <2>2. QueuesInOrder' /\ prog' = prog
    BY <1>0, <2>1, QueuesNext
  <2>3. CASE pass = "assign"
    <3>1. BaseInv /\ SlotInv /\ wlm = (mode = "wlm") /\ (Dynamic => AssignOrder)
      BY <2>3 DEF PassInv
    <3>2. BaseInv' /\ SlotInv'
      BY <2>1, <3>1, SlotNext
    <3>3. mode' = mode
      BY <2>1, ModeStays
    <3>4. Dynamic => AssignOrder'
      BY <1>0, <2>1, <2>2, <3>1, <3>2, SimNext, MapNext DEF AssignOrder, BaseInv
    <3> QED BY <1>0, <2>1, <2>2, <2>3, <3>1, <3>2, <3>3, <3>4 DEF PassInv, Running, Dynamic
  <2>4. CASE pass = "validate"
    <3>1. mode = "static" /\ stage # "pages" /\ (wlm => WlmMapping)
      BY <2>4 DEF PassInv
    <3>2. mode' = mode /\ realId' = realId /\ stage' # "pages"
      BY <2>1, <3>1, ModeStays
    <3>3. wlm => WlmMapping'
      BY <1>a, <2>2, <3>1, <3>2
    <3> QED BY <1>0, <2>1, <2>2, <2>4, <3>1, <3>2, <3>3 DEF PassInv, Running
  <2> QED BY <2>1, <2>3, <2>4
<1>2. CASE RewriteBarriers
  <2>1. /\ UNCHANGED <<prog, realId, wlm, active>> /\ pass = "assign" /\ pass' = "validate"
        /\ mode' = "static" /\ stage' = "parse" /\ step' = 1
        /\ queue' = [f \in 1 .. NumFifos |-> <<>>] /\ result = "success"
    BY <1>2 DEF RewriteBarriers, Passed, Restart, PerFifo
  <2>2. QueuesInOrder'
    <3>1. (stage = "parse" /\ step = 1 /\ queue = [f \in 1 .. NumFifos |-> <<>>] => QueuesInOrder)'
      BY QueuesEmpty, PTL
    <3> QED BY <2>1, <3>1
  <2>3. wlm => WlmMapping
    <3> SUFFICES ASSUME wlm PROVE WlmMapping
      OBVIOUS
    <3>1. TypeOK /\ MapOrder /\ mode = "wlm"
      BY <2>1 DEF PassInv, AssignOrder, BaseInv, SimOK, Dynamic
    <3> QED BY <2>1, <3>1, AllMapped DEF MapOrder, WlmMapping
  <2> QED BY <1>0, <1>a, <2>1, <2>2, <2>3 DEF PassInv, Running
<1>3. CASE LoadSchedule("hardware") \/ LoadSchedule("free")
  <2>1. /\ UNCHANGED <<prog, queue, stage, step, mode, realId, wlm, active>>
        /\ pass = "validate" /\ pass' \in {"hardware", "free"}
        /\ pass' = "free" => wlm /\ LoadSchedule("free")
    BY <1>3 DEF LoadSchedule, Passed
  <2>2. QueuesInOrder'
    BY <1>0, <2>1 DEF QueuesInOrder, Parsed
  <2>3. mode = "static" /\ stage # "pages" /\ (wlm => WlmMapping)
    BY <2>1 DEF PassInv
  <2>4. pass' = "free" => RunInOrder'
    BY <2>1, LoadedInOrder
  <2>5. \A f \in 1 .. NumFifos : ~active[f]
    BY <2>1 DEF PassInv, Running
  <2> QED BY <1>0, <1>a, <2>3, <2>4, <2>5, <2>1, <2>2 DEF PassInv, Running
<1>4. CASE RunStep
  <2>1. /\ UNCHANGED <<prog, queue, mode, realId, pass, wlm>>
        /\ Running /\ active' \in [1 .. NumFifos -> BOOLEAN]
    <3>1. CASE \E r \in Pids : ProgramNext(r)
      BY <1>0, <3>1 DEF ProgramNext, Running, parsed
    <3>2. CASE \E f \in 1 .. NumFifos : StartTask(f)
      BY <1>0, <3>2 DEF StartTask
    <3>3. CASE \E f \in 1 .. NumFifos : FinishTask(f)
      BY <1>0, <3>3 DEF FinishTask, mapping
    <3> QED BY <1>4, <3>1, <3>2, <3>3 DEF RunStep
  <2>2. UNCHANGED <<stage, step>>
    BY <1>4 DEF RunStep, ProgramNext, StartTask, FinishTask, control
  <2>3. QueuesInOrder'
    BY <1>0, <2>1, <2>2 DEF QueuesInOrder, Parsed
  <2>4. mode = "static" /\ stage # "pages" /\ (wlm => WlmMapping)
    BY <2>1 DEF PassInv, Running
  <2>5. pass = "free" => wlm /\ RunInOrder'
    <3> SUFFICES ASSUME pass = "free" PROVE wlm /\ RunInOrder'
      OBVIOUS
    <3>1. wlm /\ RunInOrder
      BY DEF PassInv
    <3>2. PICK f \in 1 .. NumFifos : StartTask(f) \/ FinishTask(f)
      BY <1>4 DEF RunStep, ProgramNext
    <3> QED BY <1>0, <3>1, <3>2, StartInOrder, FinishInOrder
  <2> QED BY <1>0, <1>a, <2>3, <2>4, <2>5, <2>1, <2>2 DEF PassInv, Running
<1>5. CASE UNCHANGED passVars
  <2>1. /\ UNCHANGED <<prog, mode, stage, step, fifo, queue, pos, bar, realId, producerCount>>
        /\ UNCHANGED <<consumerCount, toVirtual, prevVid, result, pass, wlm, active>>
        /\ UNCHANGED vars
    BY <1>5 DEF passVars, vars, parsed, mapping, control
  <2>2. QueuesInOrder'
    BY <1>0, <2>1 DEF QueuesInOrder, Parsed
  <2>3. BaseInv /\ SlotInv => BaseInv' /\ SlotInv'
    BY <2>1, SlotNext
  <2>4. Pending' = Pending
    BY <2>1 DEF Pending, StillQueued
  <2>5. SimOrder => SimOrder'
    BY <2>1, <2>4 DEF SimOrder, SimulatedInOrder, TaskBegun, Parsed, HeadTask, Task, Waits, Posts
  <2>6. MapOrder => MapOrder'
    BY <2>1, <2>4, MapUnchanged
  <2>7. RunInOrder => RunInOrder'
    <3> SUFFICES ASSUME RunInOrder PROVE RunInOrder'
      OBVIOUS
    <3>1. \A t : Started(t)' <=> Started(t)
      BY <2>1, <2>4 DEF Started, Task
    <3>2. \A v : ToStart(v)' = ToStart(v) /\ ToFinish(v)' = ToFinish(v)
      BY <2>1, <2>4, <3>1 DEF ToStart, ToFinish, Waits, Posts
    <3> QED BY <2>1, <2>4, <3>1, <3>2 DEF RunInOrder, FifoComplete, Waits
  <2> QED BY <1>0, <1>a, <2>1, <2>2, <2>3, <2>5, <2>6, <2>7
          DEF PassInv, Running, AssignOrder, Dynamic
<1> QED BY <1>1, <1>2, <1>3, <1>4, <1>5 DEF PassNext

\* The inductive invariant of the three passes.
LEMMA PassInvHolds == PassSpec => []PassInv
BY PassInvInit, PassInvNext, PTL DEF PassSpec

\* canBarrierReusePidFromBarrier and the search of simulateBarriers: whatever the
\* schedule and the number of PIDs, on the NPU no task updates a VID of a WLM schedule
\* before every consumer of every earlier VID of the same PID has started.
THEOREM PidReuseCorrect == PassSpec => []WlmPidReuseIsOrdered
<1>1. ASSUME PassInv PROVE WlmPidReuseIsOrdered
  <2> SUFFICES ASSUME pass = "free", NEW v \in Vids(prog), NEW w \in Vids(prog),
                      v < w, realId[v] = realId[w], producerCount[w] < Slots(Producers(w))
               PROVE  consumerCount[v] = 0
    BY DEF WlmPidReuseIsOrdered
  <2>1. /\ prog \in Programs /\ RunInOrder /\ ReuseFollowsPaths
        /\ \A x \in Vids(prog) : realId[x] \in 0 .. NumPids - 1
    BY <1>1 DEF PassInv, WlmMapping
  <2>2. \A x \in Vids(prog) : realId[x] # None
    BY <2>1 DEF None
  <2>3. Slots(Producers(w)) = Sum(prog.count, Producers(w))
    BY DEF Slots, Sum
  <2>4. /\ producerCount[w] = Sum(prog.count, ToFinish(w))
        /\ consumerCount[v] = Sum(prog.count, ToStart(v))
    BY <2>1 DEF RunInOrder
  <2>5. ToFinish(w) # Producers(w)
    <3>1. ToFinish(w) \in SUBSET Tasks(prog) /\ WellFormed(prog)
      BY <2>1, ProgramsAssumption DEF ToFinish, Pending
    <3>2. Sum(prog.count, ToFinish(w)) \in Nat
      BY <3>1, ScheduleSlots
    <3> QED BY <2>3, <2>4, <3>2
  <2>6. ToStart(v) = {}
    BY <2>1, <2>2, <2>5, EarlierVidsConsumed
  <2> QED BY <2>4, <2>6, SumEmpty
<1> QED BY <1>1, PassInvHolds, PTL

-----------------------------------------------------------------------------
(***************************************************************************)
(* The validation of a mapping that the search among the free PIDs found:  *)
(* the order in which that search mapped the VIDs and ran the tasks shows  *)
(* that the VIDs left and the pending tasks never wait for each other.     *)
(***************************************************************************)

\* A fixed PID is programmed with a mapped VID from its mapping to its last consumer.
StaticPids ==
  /\ \A r \in 0 .. NumPids - 1 :
       toVirtual[r] # None =>
         toVirtual[r] < bar /\ (Consumers(toVirtual[r]) # {} => consumerCount[toVirtual[r]] # 0)
  /\ \A v \in Vids(prog) :
       v < bar /\ (consumerCount[v] # 0 \/ Consumers(v) = {}) => toVirtual[realId[v]] = v

\* Only mapped VIDs have been used.
StaticUsers ==
  /\ \A t \in Tasks(prog), v \in Vids(prog) : Parsed(t) /\ Uses(t, v) /\ v >= bar => t \in Pending
  /\ stage = "task" => \A v \in Vids(prog) : Uses(HeadTask, v) => v < bar

Valid ==
  /\ mode = "static" /\ BaseInv /\ SlotInv /\ SimOrder
  /\ StaticPids /\ StaticUsers /\ WhyStuck
  /\ Orderable(Vids(prog), Tasks(prog)) /\ SlotsFit
  /\ result \in {"none", "success"}

\* Behaviours that start with a search among the free PIDs.
SearchInv ==
  /\ PassInv
  /\ pass = "assign" => Dynamic
  /\ pass = "validate" => Valid

\* The program and its fixed PIDs do not change, so the order stays.
LEMMA StaticOrderStays ==
  ASSUME Orderable(Vids(prog), Tasks(prog)), SlotsFit, UNCHANGED <<prog, realId>>
  PROVE  Orderable(Vids(prog), Tasks(prog))' /\ SlotsFit'
<1>1. Tasks(prog)' = Tasks(prog) /\ Vids(prog)' = Vids(prog)
  OBVIOUS
<1>2. \A w, V, T : VidFree(w, V, T)' <=> VidFree(w, V, T)
  BY DEF VidFree, Consumers, Waits
<1>3. \A t, V, T : TaskFree(t, V, T)' <=> TaskFree(t, V, T)
  BY DEF TaskFree, Uses, Waits, Posts
<1>4. SlotsFit'
  BY DEF SlotsFit, Producers, Consumers, Waits, Posts
<1> QED BY <1>1, <1>2, <1>3, <1>4 DEF Orderable

\* VirtualBarrierRewrite: the simulator that validates starts with the PIDs found.
LEMMA ValidInit ==
  ASSUME SearchInv, RewriteBarriers
  PROVE  Valid'
<1>1. /\ UNCHANGED <<prog, realId>> /\ pass = "assign" /\ stage = "done" /\ result = "success"
      /\ Restart("static", realId)
  BY DEF RewriteBarriers, Passed, Restart
<1>2. /\ prog \in Programs /\ TypeOK /\ MapOrder
  BY <1>1 DEF SearchInv, PassInv, AssignOrder, BaseInv, SimOK
<1>3. realId \in [Vids(prog) -> 0 .. NumPids - 1] /\ Mapped = Vids(prog)
  BY <1>1, <1>2, AllMapped
<1>4. Ran = Tasks(prog)
  BY <1>1, <1>2 DEF Ran, MapOrder, MappedInOrder, AllDone
<1>5. Fresh'
  <2>1. realId \in GivenIds(prog, "static")
    BY <1>3 DEF GivenIds
  <2>2. "static" \in AllModes
    BY DEF AllModes
  <2>3. \A p : p = prog => \A ids : ids = realId => Start(p, "static", ids)'
    BY <1>1 DEF Restart, Start
  <2>4. PICK p, ids : p = prog /\ ids = realId
    OBVIOUS
  <2>5. p \in Programs /\ ids \in GivenIds(p, "static") /\ Start(p, "static", ids)'
    BY <1>2, <2>1, <2>3, <2>4
  <2>6. (\E m \in AllModes : \E i \in GivenIds(p, m) : Start(p, m, i))'
    BY <2>2, <2>5 DEF GivenIds
  <2> QED BY <2>5, <2>6 DEF Fresh
<1>6. BaseInv' /\ SlotInv' /\ SimOrder'
  <2>1. (Fresh => TypeOK /\ ControlOK)' /\ (Fresh => MappingInv)' /\ (Fresh => SlotInv)'
        /\ (Fresh => SimOrder)' /\ (TypeOK => Types /\ Pids = 0 .. NumPids - 1)'
    BY TypeInit, MappingInit, SlotInit, SimInit, TypesOfTypeOK, PTL
  <2> QED BY <1>5, <2>1 DEF BaseInv, SimOK
<1>7. /\ toVirtual' = [r \in 0 .. NumPids - 1 |-> None] /\ bar' = 0 /\ mode' = "static"
      /\ stage' = "parse" /\ step' = 1 /\ result' = "none"
  BY <1>1 DEF Restart, PerPid
<1>8. StaticPids'
  <2>1. \A v \in Vids(prog) : ~(v < 0)
    BY DEF Vids
  <2> QED BY <1>1, <1>7, <2>1 DEF StaticPids
<1>9. StaticUsers' /\ WhyStuck'
  <2>1. \A t \in Tasks(prog) : ~Parsed(t)'
    BY <1>7 DEF Parsed, Tasks
  <2> QED BY <1>1, <1>7, <2>1 DEF StaticUsers, WhyStuck
<1>10. SlotsFit
  BY <1>1, <1>2 DEF MapOrder, SlotsChecked
<1>11. Orderable(Vids(prog), Tasks(prog))
  BY <1>2, <1>3, <1>4 DEF MapOrder
<1> QED BY <1>1, <1>6, <1>7, <1>8, <1>9, <1>10, <1>11, StaticOrderStays DEF Valid

\* A step that neither parses, maps, consumes nor ends a task keeps the PIDs and
\* those who have used them.
LEMMA StaticQuiet ==
  ASSUME prog \in Programs, QueuesInOrder, BaseInv, SlotInv, StaticPids, StaticUsers,
         UNCHANGED <<prog, queue, pos, realId, toVirtual, bar, consumerCount>>,
         stage' # "parse", stage = "parse" => step > prog.numTasks,
         stage' = "task" => stage = "task" /\ UNCHANGED fifo
  PROVE  StaticPids' /\ StaticUsers'
<1>1. \A t \in Tasks(prog) : Parsed(t)
  BY AllParsed
<1>2. Pending' = Pending
  BY DEF Pending, StillQueued
<1>3. StaticPids'
  BY DEF StaticPids, Consumers, Waits
<1>4. StaticUsers'
  BY <1>1, <1>2 DEF StaticUsers, Uses, Waits, Posts, HeadTask, Task
<1> QED BY <1>3, <1>4

\* A barrier that is programmed is mapped.
LEMMA ProgrammedIsMapped ==
  ASSUME TypeOK, mode = "static", StaticPids, NEW v \in Vids(prog), IsBarrierMapped(v)
  PROVE  v < bar
<1>1. Pids = 0 .. NumPids - 1 /\ v # None
  BY DEF TypeOK, Pids, Vids, None
<1>2. realId[v] \in 0 .. NumPids - 1 /\ toVirtual[realId[v]] = v
  BY <1>1 DEF IsBarrierMapped, Dynamic
<1> QED BY <1>1, <1>2 DEF StaticPids

\* parseTasks of the simulator that validates.
LEMMA StaticParse ==
  ASSUME BaseInv, BaseInv', SlotInv', QueuesInOrder', StaticPids, ParseTask
  PROVE  StaticPids' /\ StaticUsers'
<1>1. UNCHANGED <<prog, realId, toVirtual, bar>> /\ stage = "parse" /\ stage' = "parse"
  BY DEF ParseTask, mapping
<1>2. bar = 0 /\ \A r \in 0 .. NumPids - 1 : toVirtual[r] = None
  BY <1>1 DEF BaseInv, SimOK, MappingInv, NothingMappedYet
<1>3. \A t \in Tasks(prog) : Parsed(t)' => t \in Pending'
  BY ParsedNext DEF BaseInv
<1>4. \A v \in Vids(prog) : ~(v < 0)
  BY DEF Vids
<1>5. StaticPids'
  BY <1>1, <1>2, <1>4 DEF StaticPids
<1> QED BY <1>1, <1>3, <1>5 DEF StaticUsers

\* The next VID is mapped to its PID.
LEMMA StaticMap ==
  ASSUME prog \in Programs, QueuesInOrder, BaseInv, SlotInv, mode = "static",
         StaticPids, StaticUsers, MapBarrier
  PROVE  StaticPids' /\ StaticUsers'
<1> DEFINE r == realId[bar]
<1>1. /\ UNCHANGED <<prog, mode, queue, pos, realId, consumerCount>>
      /\ stage = "map" /\ stage' = "map" /\ bar' = bar + 1
      /\ bar < prog.numBarriers /\ toVirtual[r] = None
      /\ toVirtual' = [toVirtual EXCEPT ![r] = bar]
  BY DEF MapBarrier, MapDynamic, MapInstance, MapStatic, Dynamic, HasBarrierToMap, Program, parsed
<1>2. /\ bar \in Vids(prog) /\ bar \in Nat /\ bar # None
      /\ toVirtual \in [0 .. NumPids - 1 -> Vids(prog) \cup {None}]
      /\ r \in 0 .. NumPids - 1
      /\ Vids(prog) \in SUBSET Nat
  <2>1. TypeOK /\ ControlOK
    BY DEF BaseInv, SimOK
  <2>2. bar \in Vids(prog)
    BY <1>1, <2>1 DEF TypeOK, WellFormed, Vids
  <2>3. bar \in Nat /\ bar # None /\ Vids(prog) \in SUBSET Nat
    BY <2>1 DEF TypeOK, Vids, None
  <2>4. toVirtual \in [0 .. NumPids - 1 -> Vids(prog) \cup {None}]
    BY <2>1 DEF TypeOK
  <2>5. r \in 0 .. NumPids - 1
    BY <2>1, <2>2 DEF ControlOK
  <2> QED BY <2>2, <2>3, <2>4, <2>5
<1>3. Pending' = Pending /\ Tasks(prog)' = Tasks(prog) /\ Vids(prog)' = Vids(prog)
  BY <1>1 DEF Pending, StillQueued
<1> HIDE DEF r
<1>4. \A t : Parsed(t) /\ Parsed(t)'
  BY <1>1 DEF Parsed
<1>5. Consumers(bar) # {} => consumerCount[bar] # 0
  <2> SUFFICES ASSUME NEW c \in Consumers(bar) PROVE consumerCount[bar] # 0
    OBVIOUS
  <2>1. bar >= bar
    BY <1>2
  <2>2. c \in Pending
    BY <1>2, <1>4, <2>1 DEF StaticUsers, Uses, Consumers
  <2> QED BY <1>1, <1>2, <2>2, PendingConsumer DEF BaseInv
<1>6. StaticUsers'
  <2>1. \A v \in Vids(prog) : v >= bar + 1 => v >= bar
    BY <1>2
  <2> QED BY <1>1, <1>3, <1>4, <2>1 DEF StaticUsers, Uses, Waits, Posts
<1>7. ASSUME NEW q \in 0 .. NumPids - 1, toVirtual'[q] # None
      PROVE  /\ toVirtual'[q] < bar + 1
             /\ Consumers(toVirtual'[q]) # {} => consumerCount[toVirtual'[q]] # 0
  <2>1. CASE q = r
    BY <1>1, <1>2, <1>5, <2>1
  <2>2. CASE q # r
    <3>1. toVirtual'[q] = toVirtual[q] /\ toVirtual[q] \in Vids(prog)
      BY <1>1, <1>2, <1>7, <2>2
    <3> QED BY <1>2, <1>7, <3>1 DEF StaticPids
  <2> QED BY <2>1, <2>2
<1>8. ASSUME NEW v \in Vids(prog), v < bar + 1, consumerCount[v] # 0 \/ Consumers(v) = {}
      PROVE  toVirtual'[realId[v]] = v
  <2>1. CASE v = bar
    BY <1>1, <1>2, <2>1 DEF r
  <2>2. CASE v # bar
    <3>1. toVirtual[realId[v]] = v /\ v # None
      BY <1>2, <1>8, <2>2 DEF StaticPids, None
    <3>2. realId[v] # r
      BY <1>1, <3>1
    <3> QED BY <1>1, <1>2, <3>1, <3>2
  <2> QED BY <2>1, <2>2
<1>9. \A v : Consumers(v)' = Consumers(v)
  BY <1>1 DEF Consumers, Waits
<1> QED BY <1>1, <1>6, <1>7, <1>8, <1>9 DEF StaticPids

\* A task consumes a barrier.
LEMMA StaticConsume ==
  ASSUME prog \in Programs, BaseInv, SlotInv, mode = "static",
         StaticPids, StaticUsers, ConsumeBarrier
  PROVE  StaticPids' /\ StaticUsers'
<1> DEFINE b == Waits(HeadTask)[step]
           n == prog.count[HeadTask]
<1>1. /\ UNCHANGED <<prog, mode, queue, pos, fifo, realId, bar>>
      /\ stage = "task" /\ step <= Len(Waits(HeadTask)) /\ stage' \in {"task", "done"}
      /\ \/ UNCHANGED <<consumerCount, toVirtual>>
         \/ /\ consumerCount' = [consumerCount EXCEPT ![b] = @ - n]
            /\ toVirtual' = IF consumerCount[b] = n THEN [toVirtual EXCEPT ![realId[b]] = None] ELSE toVirtual
  BY DEF ConsumeBarrier, ContinueIf
<1>2. TypeOK /\ HeadTask \in Tasks(prog) /\ MappingInv
  BY <1>1, RunningTask DEF BaseInv, SimOK
<1>3. /\ b \in Vids(prog) /\ HeadTask \in Consumers(b)
      /\ toVirtual[realId[b]] = b /\ realId[b] \in 0 .. NumPids - 1
  <2>1. step \in Nat \ {0}
    BY <1>1, RunningTask DEF BaseInv
  <2>2. step \in DOMAIN Waits(HeadTask) /\ step \in 1 .. Len(Waits(HeadTask))
    BY <1>1, <1>2, <2>1, TaskBarrierLists
  <2>3. toVirtual[realId[b]] = b /\ realId[b] \in 0 .. NumPids - 1
    BY <1>1, <1>2, <2>1, <2>2, TypesOfTypeOK DEF SlotInv, TaskOK, OnItsPid
  <2> QED BY <1>2, <2>2, <2>3, TaskBarrierLists, TypesOfTypeOK DEF Consumers, InSeq
<1>4. /\ consumerCount \in [Vids(prog) -> Nat] /\ n \in Nat
      /\ toVirtual \in [0 .. NumPids - 1 -> Vids(prog) \cup {None}]
      /\ \A r \in 0 .. NumPids - 1 : toVirtual[r] # None => realId[toVirtual[r]] = r
      /\ \A v \in Vids(prog) : v # None
  <2>1. consumerCount \in [Vids(prog) -> Nat] /\ toVirtual \in [0 .. NumPids - 1 -> Vids(prog) \cup {None}]
    BY <1>2 DEF TypeOK
  <2>2. n \in Nat
    BY <1>2 DEF TypeOK, WellFormed
  <2>3. \A r \in 0 .. NumPids - 1 : toVirtual[r] # None => realId[toVirtual[r]] = r
    BY <1>2 DEF TypeOK, MappingInv, MappingsAgree, Mismatch, Pids
  <2> QED BY <2>1, <2>2, <2>3 DEF Vids, None
<1> HIDE DEF b, n
<1>5. Pending' = Pending /\ HeadTask' = HeadTask
  BY <1>1 DEF Pending, StillQueued, HeadTask, Task
<1>6. StaticUsers'
  BY <1>1, <1>5 DEF StaticUsers, Parsed, Uses, Waits, Posts
<1>7. ASSUME NEW r \in 0 .. NumPids - 1, toVirtual'[r] # None
      PROVE  /\ toVirtual'[r] < bar
             /\ Consumers(toVirtual'[r]) # {} => consumerCount'[toVirtual'[r]] # 0
  <2>1. /\ toVirtual'[r] = toVirtual[r] /\ toVirtual[r] \in Vids(prog)
        /\ toVirtual[r] < bar /\ (Consumers(toVirtual[r]) # {} => consumerCount[toVirtual[r]] # 0)
    BY <1>1, <1>4, <1>7, ZenonT(60) DEF StaticPids
  <2>2. CASE toVirtual[r] # b
    BY <1>1, <1>4, <2>1, <2>2
  <2>3. CASE toVirtual[r] = b
    <3>1. r = realId[b]
      BY <1>4, <1>7, <2>1, <2>3
    <3>2. UNCHANGED consumerCount \/ consumerCount[b] # n
      BY <1>1, <1>3, <1>4, <1>7, <3>1
    <3>3. consumerCount'[b] = consumerCount[b] \/ consumerCount'[b] = consumerCount[b] - n
      BY <1>1, <1>3, <1>4
    <3>4. consumerCount'[b] # 0 \/ consumerCount'[b] = consumerCount[b]
      BY <1>1, <1>3, <1>4, <3>2
    <3> QED BY <2>1, <2>3, <3>4
  <2> QED BY <2>2, <2>3
<1>8. ASSUME NEW v \in Vids(prog), v < bar, consumerCount'[v] # 0 \/ Consumers(v) = {}
      PROVE  toVirtual'[realId[v]] = v
  <2>1. CASE v = b
    <3>1. UNCHANGED toVirtual
      BY <1>1, <1>3, <1>4, <1>8, <2>1
    <3> QED BY <1>3, <2>1, <3>1
  <2>2. CASE v # b
    <3>1. toVirtual[realId[v]] = v
      BY <1>1, <1>4, <1>8, <2>2 DEF StaticPids
    <3>2. realId[v] # realId[b]
      BY <1>3, <2>2, <3>1
    <3>3. realId[v] \in 0 .. NumPids - 1
      BY DEF BaseInv, SimOK, ControlOK
    <3> QED BY <1>1, <1>4, <3>1, <3>2, <3>3
  <2> QED BY <2>1, <2>2
<1>9. \A v : Consumers(v)' = Consumers(v)
  BY <1>1 DEF Consumers, Waits
<1> QED BY <1>1, <1>6, <1>7, <1>8, <1>9 DEF StaticPids

\* A task begins: its barriers are mapped.
LEMMA StaticBegin ==
  ASSUME prog \in Programs, QueuesInOrder, BaseInv, SlotInv, mode = "static",
         StaticPids, StaticUsers, BeginTask
  PROVE  StaticPids' /\ StaticUsers'
<1>1. /\ UNCHANGED <<prog, queue, pos, fifo, realId, toVirtual, bar, consumerCount>>
      /\ stage = "fifos" /\ stage' = "task" /\ TaskReady(HeadTask)
  BY DEF BeginTask, HeadCanRun, parsed, mapping
<1>2. Pending' = Pending /\ HeadTask' = HeadTask
  BY <1>1 DEF Pending, StillQueued, HeadTask, Task
<1>3. StaticPids'
  BY <1>1 DEF StaticPids, Consumers, Waits
<1>4. \A v \in Vids(prog) : Uses(HeadTask, v) => v < bar
  <2>1. \A v \in Vids(prog) : Uses(HeadTask, v) => IsBarrierMapped(v)
    BY <1>1 DEF TaskReady, Uses, InSeq
  <2> QED BY <2>1, ProgrammedIsMapped DEF BaseInv, SimOK
<1> QED BY <1>1, <1>2, <1>3, <1>4 DEF StaticUsers, Parsed, Uses, Waits, Posts

\* A task ends: it has used mapped VIDs only.
LEMMA StaticEnd ==
  ASSUME prog \in Programs, QueuesInOrder, BaseInv, SlotInv, SimOrder,
         StaticPids, StaticUsers, EndTask
  PROVE  StaticPids' /\ StaticUsers'
<1>1. /\ UNCHANGED <<prog, realId, toVirtual, bar, consumerCount>>
      /\ stage = "task" /\ stage' = "fifos"
  BY DEF EndTask, parsed, mapping
<1>2. Pending' = Pending \ {HeadTask}
  BY EndingTask DEF BaseInv
<1>3. bar \in Nat /\ Vids(prog) \in SUBSET Nat
  BY DEF BaseInv, SimOK, TypeOK, Vids
<1>4. StaticPids'
  BY <1>1 DEF StaticPids, Consumers, Waits
<1>5. \A v \in Vids(prog) : Uses(HeadTask, v) => ~(v >= bar)
  <2>1. \A v \in Vids(prog) : Uses(HeadTask, v) => v < bar
    BY <1>1 DEF StaticUsers
  <2> QED BY <1>3, <2>1
<1>6. StaticUsers'
  <2>1. \A t, v : Uses(t, v)' = Uses(t, v) /\ Parsed(t) /\ Parsed(t)'
    BY <1>1 DEF Uses, Waits, Posts, Parsed
  <2> QED BY <1>1, <1>2, <1>5, <2>1 DEF StaticUsers
<1> QED BY <1>4, <1>6

\* Every step of the simulator that validates keeps the facts about its PIDs.
LEMMA StaticNext ==
  ASSUME prog \in Programs, QueuesInOrder, QueuesInOrder', BaseInv, BaseInv', SlotInv, SlotInv',
         SimOrder, mode = "static", StaticPids, StaticUsers, Next
  PROVE  StaticPids' /\ StaticUsers'
<1>1. stage # "pages" /\ mode # "pages"
  BY DEF BaseInv, SimOK, ControlOK
<1>2. ~BeginPages /\ ~AssignPage /\ ~EndPages
  BY <1>1 DEF BeginPages, AssignPage, EndPages
<1>3. CASE CheckSlots \/ BeginIteration \/ Succeed \/ StopMapping \/ NextFifo \/ EndIteration \/ ProduceBarrier
  <2>1. /\ UNCHANGED <<prog, queue, pos, realId, toVirtual, bar, consumerCount>>
        /\ stage' # "parse" /\ (stage = "parse" => step > prog.numTasks)
        /\ stage' = "task" => stage = "task" /\ UNCHANGED fifo
    BY <1>3 DEF CheckSlots, BeginIteration, Succeed, StopMapping, NextFifo, EndIteration, ProduceBarrier,
                IterationDone, ContinueIf, Finish, parsed, mapping
  <2> QED BY <2>1, StaticQuiet
<1> QED BY <1>2, <1>3, StaticParse, StaticMap, StaticConsume, StaticBegin, StaticEnd
        DEF Next, Construct, Simulate

\* A simulation with fixed PIDs that still has something to do can map the next VID
\* or run the next task of a FIFO.
LEMMA NeverStuck ==
  ASSUME prog \in Programs, QueuesInOrder, BaseInv, SlotInv, SimOrder, mode = "static",
         StaticPids, StaticUsers, Orderable(Vids(prog), Tasks(prog)), stage = "fifos", SomethingLeft
  PROVE  HasBarrierToMap \/ \E f \in 1 .. NumFifos : ~FifoComplete(f) /\ TaskReady(Task(f))
<1> SUFFICES ASSUME ~HasBarrierToMap,
                    \A f \in 1 .. NumFifos : FifoComplete(f) \/ ~TaskReady(Task(f))
             PROVE  FALSE
  OBVIOUS
<1> DEFINE V == {v \in Vids(prog) : v >= bar}
<1>1. /\ TypeOK /\ MappingInv /\ CountsOK /\ WellFormed(prog) /\ ControlsOrdered(prog)
      /\ pos \in [1 .. NumFifos -> Nat \ {0}] /\ bar \in Nat
      /\ realId \in [Vids(prog) -> 0 .. NumPids - 1] /\ Pids = 0 .. NumPids - 1
      /\ Vids(prog) \in SUBSET Nat /\ prog.numBarriers \in Nat
      /\ prog.fifo \in [Tasks(prog) -> 1 .. NumFifos]
  <2>1. TypeOK /\ MappingInv /\ CountsOK /\ ControlOK
    BY DEF BaseInv, SimOK, SlotInv
  <2>2. WellFormed(prog) /\ ControlsOrdered(prog)
    BY ProgramsAssumption, ControlsAssumption
  <2>3. Vids(prog) \in SUBSET Nat
    BY DEF Vids
  <2> QED BY <2>1, <2>2, <2>3 DEF TypeOK, ControlOK, WellFormed, Pids
<1>2. \A r \in 0 .. NumPids - 1 : toVirtual[r] # None => realId[toVirtual[r]] = r
  BY <1>1 DEF MappingInv, MappingsAgree, Mismatch
<1>3. V \in SUBSET Vids(prog) /\ Pending \in SUBSET Tasks(prog)
  BY DEF Pending
<1>4. V # {} \/ Pending # {}
  <2>1. CASE bar < prog.numBarriers
    <3>1. bar \in V
      BY <1>1, <2>1 DEF Vids
    <3> QED BY <3>1
  <2>2. CASE \E f \in 1 .. NumFifos : ~FifoComplete(f)
    BY <1>1, <2>2, NextOfFifo
  <2> QED BY <2>1, <2>2 DEF SomethingLeft
<1>5. (\E w \in V : VidFree(w, V, Pending)) \/ (\E t \in Pending : TaskFree(t, V, Pending))
  <2> HIDE DEF V
  <2> QED BY <1>3, <1>4 DEF Orderable
<1>6. \A v \in Vids(prog), c \in Tasks(prog) :
        c \in Pending /\ InSeq(v, Waits(c)) => consumerCount[v] # 0
  BY PendingConsumer DEF Consumers, BaseInv
<1>7. ASSUME NEW w \in V, VidFree(w, V, Pending) PROVE FALSE
  <2>1. bar \in V
    BY <1>1, <1>7 DEF Vids
  <2>2. w = bar
    BY <1>1, <1>7, <2>1 DEF VidFree
  <2>3. bar \in Vids(prog) /\ bar < prog.numBarriers /\ toVirtual[realId[bar]] # None
    BY <1>1, <2>1 DEF HasBarrierToMap, Dynamic, Vids
  <2> DEFINE v == toVirtual[realId[bar]]
  <2>4. v \in Vids(prog) /\ realId[v] = realId[bar] /\ realId[bar] \in 0 .. NumPids - 1
    BY <1>1, <1>2, <2>3 DEF TypeOK
  <2>5. v < bar /\ (Consumers(v) # {} => consumerCount[v] # 0)
    BY <2>3, <2>4 DEF StaticPids
  <2> HIDE DEF v
  <2>6. Consumers(v) # {} /\ \A c \in Consumers(v) : c \notin Pending
    BY <1>7, <2>2, <2>4, <2>5 DEF VidFree
  <2>7. consumerCount[v] = Sum(prog.count, WaitingOn(v))
    BY <1>1, <2>4 DEF CountsOK
  <2>8. WaitingOn(v) = {}
    BY <1>3, <2>6 DEF WaitingOn, Consumers
  <2> QED BY <2>5, <2>6, <2>7, <2>8, SumEmpty
<1>8. ASSUME NEW t \in Pending, TaskFree(t, V, Pending) PROVE FALSE
  <2> DEFINE f == prog.fifo[t]
  <2>1. t \in Tasks(prog) /\ f \in 1 .. NumFifos
    BY <1>1, <1>3
  <2>2. PICK i \in 1 .. Len(queue[f]) : pos[f] <= i /\ queue[f][i] = t
    BY DEF Pending, StillQueued
  <2>3. pos[f] \in Nat /\ Len(queue[f]) \in Nat
    <3>1. pos[f] \in Nat \ {0} /\ queue[f] \in Seq(Tasks(prog))
      BY <1>1, <2>1 DEF TypeOK
    <3> QED BY <3>1
  <2> HIDE DEF f
  <2>4. ~FifoComplete(f)
    BY <2>2, <2>3 DEF FifoComplete
  <2>5. /\ Task(f) \in Tasks(prog) /\ prog.fifo[Task(f)] = f /\ Task(f) \in Pending
        /\ pos[f] \in 1 .. Len(queue[f]) /\ queue[f][pos[f]] = Task(f)
    BY <1>1, <2>1, <2>4, NextOfFifo
  <2>6. Task(f) = t
    <3>1. CASE i = pos[f]
      BY <2>2, <2>5, <3>1
    <3>2. CASE i # pos[f]
      <4>1. pos[f] < i
        BY <2>2, <2>3, <3>2
      <4>2. Task(f) < t
        BY <2>1, <2>2, <2>5, <4>1 DEF QueuesInOrder
      <4>3. DirectlyBefore(prog, Task(f), t)
        BY <2>5, <4>2 DEF DirectlyBefore, f
      <4> QED BY <1>8, <2>5, <4>3 DEF TaskFree
    <3> QED BY <3>1, <3>2
  <2>7. ASSUME NEW v \in Vids(prog), Uses(t, v) PROVE v < bar
    <3>1. v \notin V
      BY <1>8, <2>7 DEF TaskFree
    <3> QED BY <1>1, <3>1
  <2>8. ASSUME NEW v \in Vids(prog), InSeq(v, Waits(t)) PROVE IsBarrierMapped(v) /\ producerCount[v] = 0
    <3>1. toVirtual[realId[v]] = v
      BY <1>6, <2>1, <2>7, <2>8 DEF StaticPids, Uses
    <3>2. StillToPost(v) = {}
      <4> SUFFICES ASSUME NEW u \in StillToPost(v) PROVE FALSE
        OBVIOUS
      <4>1. u \in Pending /\ u \in Tasks(prog) /\ InSeq(v, prog.posts[u]) /\ InSeq(v, prog.waits[t])
        BY <1>3, <2>8 DEF StillToPost, Posts, Waits
      <4>2. DirectlyBefore(prog, u, t)
        BY <1>1, <2>1, <4>1 DEF ControlsOrdered, DirectlyBefore
      <4> QED BY <1>8, <4>1, <4>2 DEF TaskFree
    <3>3. producerCount[v] = 0
      BY <1>1, <3>2, SumEmpty DEF CountsOK
    <3> QED BY <1>1, <3>1, <3>3 DEF IsBarrierMapped
  <2>9. ASSUME NEW v \in Vids(prog), InSeq(v, Posts(t)) PROVE IsBarrierMapped(v)
    <3>1. v < bar
      BY <2>7, <2>9 DEF Uses
    <3>2. ASSUME NEW c \in Consumers(v) PROVE consumerCount[v] # 0
      <4>1. c \in Tasks(prog) /\ InSeq(v, prog.waits[c]) /\ InSeq(v, prog.posts[t])
        BY <2>9, <3>2 DEF Consumers, Posts, Waits
      <4>2. DirectlyBefore(prog, t, c)
        BY <1>1, <2>1, <4>1 DEF ControlsOrdered, DirectlyBefore
      <4>3. c \in Pending
        BY <2>1, <4>1, <4>2 DEF SimOrder, SimulatedInOrder, Parsed
      <4> QED BY <1>6, <4>1, <4>3 DEF Waits
    <3>3. toVirtual[realId[v]] = v
      BY <3>1, <3>2 DEF StaticPids
    <3> QED BY <1>1, <3>3 DEF IsBarrierMapped
  <2>10. TaskReady(t)
    <3>1. /\ DOMAIN Waits(t) = 1 .. Len(Waits(t)) /\ DOMAIN Posts(t) = 1 .. Len(Posts(t))
          /\ \A j \in 1 .. Len(Waits(t)) : Waits(t)[j] \in Vids(prog)
          /\ \A j \in 1 .. Len(Posts(t)) : Posts(t)[j] \in Vids(prog)
      BY <1>1, <2>1, TaskBarrierLists, TypesOfTypeOK
    <3>2. \A j \in DOMAIN Waits(t) : Waits(t)[j] \in Vids(prog) /\ InSeq(Waits(t)[j], Waits(t))
      BY <3>1 DEF InSeq
    <3>3. \A j \in DOMAIN Posts(t) : Posts(t)[j] \in Vids(prog) /\ InSeq(Posts(t)[j], Posts(t))
      BY <3>1 DEF InSeq
    <3> QED BY <2>8, <2>9, <3>2, <3>3 DEF TaskReady
  <2> QED BY <2>1, <2>4, <2>6, <2>10
<1> QED BY <1>5, <1>7, <1>8

\* No step of the simulator that validates refuses the mapping.
LEMMA NotRefused ==
  ASSUME prog \in Programs, QueuesInOrder, SlotInv', Valid, Next
  PROVE  result' \in {"none", "success"}
<1>1. /\ mode = "static" /\ BaseInv /\ SlotInv /\ SimOrder /\ StaticPids /\ StaticUsers /\ WhyStuck
      /\ Orderable(Vids(prog), Tasks(prog)) /\ SlotsFit /\ result \in {"none", "success"}
      /\ stage # "pages" /\ fifo \in 1 .. NumFifos + 1 /\ progressed \in BOOLEAN
  BY DEF Valid, BaseInv, SimOK, TypeOK, ControlOK
<1>2. CASE CheckSlots
  <2>1. stage = "parse" /\ step > prog.numTasks
    BY <1>2 DEF CheckSlots
  <2>2. CheckProducerCount /\ CheckProducerAndConsumerCount
    BY <1>1, <2>1, ParsedCounts DEF SlotsFit, CheckProducerCount, CheckProducerAndConsumerCount
  <2> QED BY <1>1, <1>2, <2>2 DEF CheckSlots
<1>3. CASE ConsumeBarrier \/ ProduceBarrier
  <2>1. result' = result \/ result' = "miscount"
    BY <1>3 DEF ConsumeBarrier, ProduceBarrier, ContinueIf
  <2>2. result' # "miscount"
    BY DEF SlotInv, ResultOK, SlotsBalance
  <2> QED BY <1>1, <2>1, <2>2
<1>4. CASE EndIteration
  <2>1. stage = "fifos" /\ fifo > NumFifos
    BY <1>4 DEF EndIteration, IterationDone
  <2>2. progressed
    <3> SUFFICES ASSUME ~progressed PROVE FALSE
      BY <1>1
    <3>1. /\ SomethingLeft /\ ~HasBarrierToMap
          /\ \A g \in 1 .. NumFifos : FifoComplete(g) \/ ~TaskReady(Task(g))
      <4>1. \A g \in 1 .. NumFifos : g < fifo
        BY <1>1, <2>1, NumFifosAssumption
      <4> QED BY <1>1, <2>1, <4>1 DEF WhyStuck
    <3> QED BY <1>1, <2>1, <3>1, NeverStuck
  <2> QED BY <1>1, <1>4, <2>2 DEF EndIteration
<1>5. CASE Succeed
  BY <1>5 DEF Succeed, Finish
<1>6. CASE ParseTask \/ BeginPages \/ EndPages \/ BeginIteration \/ MapBarrier \/ StopMapping
           \/ BeginTask \/ NextFifo \/ EndTask
  BY <1>1, <1>6 DEF ParseTask, BeginPages, EndPages, BeginIteration, MapBarrier, StopMapping,
                    BeginTask, NextFifo, EndTask
<1>7. ~AssignPage
  BY <1>1 DEF AssignPage
<1> QED BY <1>2, <1>3, <1>4, <1>5, <1>6, <1>7 DEF Next, Construct, Simulate

\* The simulator that validates keeps its invariant.
LEMMA ValidNext ==
  ASSUME prog \in Programs, QueuesInOrder, Valid, Next
  PROVE  Valid'
<1>1. /\ mode = "static" /\ BaseInv /\ SlotInv /\ SimOrder /\ StaticPids /\ StaticUsers /\ WhyStuck
      /\ Orderable(Vids(prog), Tasks(prog)) /\ SlotsFit /\ stage # "pages" /\ progressed \in BOOLEAN
  BY DEF Valid, BaseInv, SimOK, TypeOK, ControlOK
<1>2. BaseInv' /\ SlotInv'
  BY <1>1, SlotNext
<1>3. QueuesInOrder' /\ prog' = prog
  BY QueuesNext
<1>4. mode' = "static" /\ realId' = realId
  BY <1>1, ModeStays
<1>5. SimOrder' /\ StaticPids' /\ StaticUsers'
  BY <1>1, <1>2, <1>3, SimNext, StaticNext DEF BaseInv
<1>6. WhyStuck'
  BY <1>1, WhyStuckNext DEF BaseInv, SimOK, ControlOK
<1>7. result' \in {"none", "success"}
  BY <1>2, NotRefused
<1>8. Orderable(Vids(prog), Tasks(prog))' /\ SlotsFit'
  BY <1>1, <1>3, <1>4, StaticOrderStays
<1> QED BY <1>2, <1>4, <1>5, <1>6, <1>7, <1>8 DEF Valid

\* SearchInv is kept by every step.
LEMMA SearchInvNext == SearchInv /\ [PassNext]_passVars => SearchInv'
<1> SUFFICES ASSUME SearchInv, [PassNext]_passVars PROVE SearchInv'
  OBVIOUS
<1>0. PassInv' /\ PassInv /\ prog \in Programs /\ QueuesInOrder
  BY PassInvNext DEF SearchInv, PassInv
<1>1. CASE SimulatorStep
  <2>1. Next /\ pass' = pass /\ mode' = mode
    BY <1>1, ModeStays DEF SimulatorStep
  <2>2. pass = "validate" => Valid'
    BY <1>0, <2>1, ValidNext DEF SearchInv
  <2> QED BY <1>0, <2>1, <2>2 DEF SearchInv, Dynamic
<1>2. CASE RewriteBarriers
  <2>1. pass' = "validate"
    BY <1>2 DEF RewriteBarriers
  <2> QED BY <1>0, <1>2, <2>1, ValidInit DEF SearchInv
<1>3. CASE LoadSchedule("hardware") \/ LoadSchedule("free")
  <2>1. pass' \notin {"assign", "validate"}
    BY <1>3 DEF LoadSchedule
  <2> QED BY <1>0, <2>1 DEF SearchInv
<1>4. CASE RunStep
  <2>1. pass' \notin {"assign", "validate"}
    BY <1>4 DEF RunStep, ProgramNext, StartTask, FinishTask, Running
  <2> QED BY <1>0, <2>1 DEF SearchInv
<1>5. CASE UNCHANGED passVars
  <2>1. /\ UNCHANGED <<prog, mode, stage, step, fifo, queue, pos, bar, realId, producerCount>>
        /\ UNCHANGED <<consumerCount, toVirtual, prevVid, progressed, result, pass>>
        /\ UNCHANGED vars
    BY <1>5 DEF passVars, vars, parsed, mapping, control
  <2>2. ASSUME Valid PROVE Valid'
    <3>1. BaseInv' /\ SlotInv'
      BY <2>1, <2>2, SlotNext DEF Valid
    <3>2. Pending' = Pending /\ HeadTask' = HeadTask
      BY <2>1 DEF Pending, StillQueued, HeadTask, Task
    <3>3. SimOrder'
      BY <2>1, <2>2, <3>2 DEF Valid, SimOrder, SimulatedInOrder, TaskBegun, Parsed, Waits, Posts
    <3>4. StaticPids' /\ StaticUsers'
      BY <2>1, <2>2, <3>2 DEF Valid, StaticPids, StaticUsers, Consumers, Parsed, Uses, Waits, Posts
    <3>5. WhyStuck'
      <4>1. SomethingLeft' = SomethingLeft /\ HasBarrierToMap' = HasBarrierToMap
        BY <2>1, <2>2 DEF Valid, SomethingLeft, FifoComplete, HasBarrierToMap, Dynamic
      <4>2. \A g \in 1 .. NumFifos : /\ FifoComplete(g)' = FifoComplete(g)
                                     /\ TaskReady(Task(g))' = TaskReady(Task(g))
        BY <2>1 DEF FifoComplete, TaskReady, Task, IsBarrierMapped, Pids, Dynamic, Waits, Posts
      <4> QED BY <2>1, <2>2, <4>1, <4>2 DEF Valid, WhyStuck
    <3>6. Orderable(Vids(prog), Tasks(prog))' /\ SlotsFit'
      BY <2>1, <2>2, StaticOrderStays DEF Valid
    <3> QED BY <2>1, <2>2, <3>1, <3>3, <3>4, <3>5, <3>6 DEF Valid
  <2> QED BY <1>0, <2>1, <2>2 DEF SearchInv, Dynamic
<1> QED BY <1>1, <1>2, <1>3, <1>4, <1>5 DEF PassNext

\* simulateBarriers of AssignPhysicalBarriersPass and of BarrierSimulationPass: a
\* mapping that the search among the free PIDs, under WLM or not, succeeded with is
\* never refused when its fixed PIDs are validated in VID order.
THEOREM AssignedMappingCorrect == PassSpec /\ Dynamic => []AssignedMappingValidates
<1>1. PassInit /\ Dynamic => SearchInv
  BY PassInvInit DEF PassInit, SearchInv
<1>2. SearchInv => AssignedMappingValidates
  BY DEF SearchInv, Valid, AssignedMappingValidates
<1> QED BY <1>1, <1>2, SearchInvNext, PTL DEF PassSpec
=============================================================================
