--------------------------- MODULE BarrierSchedules ---------------------------
(***************************************************************************)
(* All small schedules that reach the barrier simulator.                   *)
(*                                                                         *)
(* orderExecutionTasksAndBarriers leaves the tasks in an order in which    *)
(* they can run and the barriers in the order of their first producer, and *)
(* verifyFinalBarrier makes the barrier without consumers the last one.  A *)
(* schedule is therefore a list of barriers, each a set of producers that  *)
(* all come before its consumers, plus the FIFO of every task.             *)
(***************************************************************************)
EXTENDS Integers, Sequences, FiniteSetsExt, SequencesExt

\* The barriers that tasks 1..n may share: every producer before every consumer.
Shapes(n, users) ==
  {b \in [producers : SUBSET (1 .. n) \ {{}}, consumers : SUBSET (1 .. n) \ {{}}] :
     /\ Max(b.producers) < Min(b.consumers)
     /\ Cardinality(b.producers) + Cardinality(b.consumers) <= users}

FinalBarrier(n) == [producers |-> {n}, consumers |-> {}]

\* Barriers in the order of their first producer, the final barrier last.  No
\* two have the same users: optimizeBarriers merges those.  ensureTasksDriven-
\* BySingleBarrier leaves a task of a WLM schedule one barrier to wait on.
BarrierLists(n, k, users, maxWaits) ==
  {Append(s, FinalBarrier(n)) :
     s \in {s \in [1 .. k -> Shapes(n, users)] :
              /\ \A i \in 1 .. k - 1 : Min(s[i].producers) <= Min(s[i + 1].producers)
              /\ \A i, j \in 1 .. k : i # j => s[i] # s[j]
              /\ \A t \in 1 .. n : Cardinality({i \in 1 .. k : t \in s[i].consumers}) <= maxWaits}}

Ascending(S) == SetToSortSeq(S, <)
VidsWhere(S) == Ascending({i - 1 : i \in S})

(***************************************************************************)
(* BarrierInfo::buildTaskControlMap for tasks in execution order: the      *)
(* tasks reached directly, through a barrier or as the next task of an     *)
(* ordered FIFO, and all that those reach, from the last task backwards.   *)
(***************************************************************************)
Successors(barriers, fifo, ordered, t) ==
  UNION {b.consumers : b \in {b \in Range(barriers) : t \in b.producers}}
  \cup {u \in DOMAIN fifo : u > t /\ fifo[u] = fifo[t] /\ fifo[t] \in ordered}

ControlMap(barriers, fifo, ordered) ==
  LET n == Len(fifo)
      AddTask(map, t) ==
        LET next == Successors(barriers, fifo, ordered, t)
        IN  [map EXCEPT ![t] = next \cup UNION {map[u] : u \in next}]
  IN  FoldLeft(AddTask, [t \in 1 .. n |-> {}], [i \in 1 .. n |-> n + 1 - i])

\* The control graph is split into blocks at a sync task: everything before it
\* precedes it and everything after it follows it.  0 means there is none.
BlockOf(sync, t) == IF sync # 0 /\ t > sync THEN 1 ELSE 0
MaySplitAt(sync, controlMap) ==
  \A t \in DOMAIN controlMap : /\ t < sync => sync \in controlMap[t]
                               /\ sync # 0 /\ t > sync => t \in controlMap[sync]

(***************************************************************************)
(* The schedule over the given barriers and FIFOs.  Tasks of FIFO dpu use  *)
(* two slots of each barrier.  Pages are filled in VID order.              *)
(***************************************************************************)
Schedule(barriers, fifo, controlMap, dpu, pageSize, sync) ==
  LET n == Len(fifo)
      nb == Len(barriers)
  IN  [numBarriers |-> nb,
       numTasks |-> n,
       fifo |-> fifo,
       waits |-> [t \in 1 .. n |-> VidsWhere({i \in 1 .. nb : t \in barriers[i].consumers})],
       posts |-> [t \in 1 .. n |-> VidsWhere({i \in 1 .. nb : t \in barriers[i].producers})],
       count |-> [t \in 1 .. n |-> IF fifo[t] = dpu THEN 2 ELSE 1],
       page |-> [v \in 0 .. nb - 1 |-> v \div pageSize],
       controlMap |-> controlMap,
       block |-> [t \in 1 .. n |-> BlockOf(sync, t)]]

\* FIFO assignments up to the renaming that makes the first task use FIFO 1.
FifoChoices(n, fifos) == {f \in [1 .. n -> 1 .. fifos] : f[1] = 1}

\* All schedules of n tasks and k + 1 barriers, with every sync task they have
\* used to split the control graph or not.
Schedules(n, k, users, maxWaits, fifos, ordered, dpu, pageSize) ==
  LET graphs == {[barriers |-> b, fifo |-> f, controlMap |-> ControlMap(b, f, ordered)] :
                   b \in BarrierLists(n, k, users, maxWaits), f \in FifoChoices(n, fifos)}
  IN  {Schedule(x[1].barriers, x[1].fifo, x[1].controlMap, dpu, pageSize, x[2]) :
         x \in {x \in graphs \X (0 .. n - 1) : x[2] # 1 /\ MaySplitAt(x[2], x[1].controlMap)}}
=============================================================================
