------------------------- MODULE BarrierLegalization -------------------------
(***************************************************************************)
(* simulateBarriers with barrierLegalization set, as run by                *)
(* ReduceExceedingActiveCountBarriersPass.  A schedule that is blocked     *)
(* does not fail: the simulator adds a PID, goes on, and records the VIDs  *)
(* that are active together while there are more PIDs than the hardware    *)
(* has.  These batches are what the pass linearises.  PIDs beyond the      *)
(* limit are dropped again as soon as they are free.                       *)
(*                                                                         *)
(* After the legalization run ("legalize") the model constructs a second   *)
(* simulator and runs it plainly ("assign"), as the later                  *)
(* AssignPhysicalBarriersPass does with the schedule it is given.          *)
(***************************************************************************)
EXTENDS BarrierSimulator

\* The pass insists on virtual barriers (isDynamicBarriers) before it simulates.
ASSUME LegalModesAssumption == Modes \subseteq {"dynamic", "wlm"}

VARIABLES
  batches,   \* _barrierBatchesToLegalize
  run,       \* "legalize" or "assign"
  verdict    \* what the legalization run returned

legalVars == <<vars, batches, run, verdict>>

LegalInit == Init /\ batches = <<>> /\ run = "legalize" /\ verdict = "none"

Size == Cardinality(Pids)
FreePids == {r \in Pids : toVirtual[r] = None}
ActiveVids == {toVirtual[r] : r \in Pids} \ {None}
LastBatch == batches[Len(batches)]

\* isNewBatchNeeded: the last batch is closed once none of its barriers is active.
NewBatchNeeded ==
  \/ batches = <<>>
  \/ LastBatch # {} /\ ActiveVids # {} /\ ActiveVids \cap LastBatch = {}

\* Mutant: off by one.
ReachesLimit == Size >= NumPids

Exceeding == Size > NumPids

\* The barriers mapped so far join the current batch, between the mapping loop
\* and the FIFOs.  Without WLM every PID is expected to be mapped here.
StopMappingAndRecord ==
  /\ stage = "map"
  /\ ~HasBarrierToMap
  /\ LET unmapped == Exceeding /\ mode # "wlm" /\ FreePids # {}
         open == IF NewBatchNeeded THEN Append(batches, {}) ELSE batches
     IN  /\ stage' = IF unmapped THEN "done" ELSE "fifos"
         /\ result' = IF unmapped THEN "throw" ELSE result
         /\ batches' = IF Exceeding THEN [open EXCEPT ![Len(open)] = @ \cup ActiveVids] ELSE batches
  /\ fifo' = 1
  /\ UNCHANGED <<prog, mode, parsed, mapping, step, pos, progressed>>

\* Mutant: the ring is not rebuilt.
StaleRing(tv) == nextReal

\* updateNextReal: all free PIDs in index order.
RingOf(tv) ==
  LET free == {r \in DOMAIN tv : tv[r] = None}
  IN  [i \in 1 .. Cardinality(free) |->
         CHOOSE r \in free : Cardinality({q \in free : q < r}) = i - 1]

\* std::vector::erase at each index of S.
Erase(f, S) ==
  LET kept == DOMAIN f \ S
  IN  [i \in 0 .. Cardinality(kept) - 1 |->
         f[CHOOSE r \in kept : Cardinality({q \in kept : q < r}) = i]]

\* Mutant: no PID is added.
NoPushBack(f, x) == f

PushBack(f, x) == [r \in 0 .. Cardinality(DOMAIN f) |-> IF r \in DOMAIN f THEN f[r] ELSE x]

\* The free PIDs that go: the first ones, as many as exceed the limit.
Dropped == {r \in FreePids : Cardinality({q \in FreePids : q < r}) < Size - NumPids}

\* The loop finds the next free PID after it erased the one before, so the
\* index it remembers for prevVidOfPhysBar is shifted by the PIDs already gone,
\* and a std::set keeps equal indexes once.
RememberedIndexes == {r - Cardinality({q \in Dropped : q < r}) : r \in Dropped}

Shrink ==
  /\ realId' = [v \in Vids(prog) |->
       IF v \in ActiveVids
       THEN LET r == CHOOSE r \in Pids : toVirtual[r] = v
            IN  r - Cardinality({q \in Dropped : q < r})
       ELSE realId[v]]
  /\ toVirtual' = Erase(toVirtual, Dropped)
  /\ prevVid' = Erase(prevVid, RememberedIndexes)
  /\ nextReal' = RingOf(toVirtual')
  /\ stage' = "loop"
  /\ UNCHANGED <<progressed, result>>

\* A blocked schedule without WLM has used all PIDs.
GrowOrThrow ==
  LET wrong == mode # "wlm" /\ FreePids # {}
  IN  /\ toVirtual' = IF wrong THEN toVirtual ELSE PushBack(toVirtual, None)
      /\ prevVid' = IF wrong THEN prevVid ELSE PushBack(prevVid, None)
      /\ nextReal' = IF wrong THEN nextReal ELSE RingOf(toVirtual')
      /\ progressed' = ~wrong
      /\ stage' = IF wrong THEN "done" ELSE "loop"
      /\ result' = IF wrong THEN "throw" ELSE result
      /\ UNCHANGED realId

EndLegalIteration ==
  /\ IterationDone
  /\ \/ ~progressed /\ GrowOrThrow
     \/ progressed /\ FreePids # {} /\ Exceeding /\ Shrink
     \/ /\ progressed /\ (FreePids = {} \/ ~Exceeding)
        /\ stage' = "loop"
        /\ UNCHANGED <<realId, toVirtual, prevVid, nextReal, progressed, result>>
  /\ UNCHANGED <<prog, mode, parsed, bar, pidQueue, step, fifo, pos, batches>>

\* The run succeeds only if no batch was recorded.
EndLegalization ==
  /\ stage = "loop"
  /\ ~SomethingLeft
  /\ Finish(IF batches = <<>> THEN "success" ELSE "exceeds")
  /\ UNCHANGED <<prog, mode, parsed, mapping, step, fifo, pos, progressed, batches>>

\* The pass splits barriers that use too many slots before it simulates.
BeginLegalization ==
  /\ stage = "parse"
  /\ step > prog.numTasks
  /\ stage' = "loop"
  /\ UNCHANGED <<prog, mode, parsed, mapping, step, fifo, pos, progressed, result>>

LegalizeStep ==
  /\ run = "legalize"
  /\ \/ StopMappingAndRecord
     \/ EndLegalIteration
     \/ EndLegalization
     \/ /\ \/ ParseTask \/ BeginLegalization \/ BeginIteration \/ MapBarrier
           \/ BeginTask \/ NextFifo \/ ConsumeBarrier \/ ProduceBarrier \/ EndTask
        /\ UNCHANGED batches
  /\ UNCHANGED <<run, verdict>>

BeginAssign ==
  /\ run = "legalize"
  /\ stage = "done"
  /\ run' = "assign"
  /\ verdict' = result
  /\ Restart(mode, PerVid(prog, None))
  /\ UNCHANGED batches

AssignStep ==
  /\ run = "assign"
  /\ Next
  /\ UNCHANGED <<batches, run, verdict>>

LegalNext == LegalizeStep \/ BeginAssign \/ AssignStep

LegalSpec == LegalInit /\ [][LegalNext]_legalVars /\ WF_legalVars(LegalNext)

-----------------------------------------------------------------------------
(***************************************************************************)
(* Properties.                                                             *)
(***************************************************************************)

\* None of the VPUX_THROW checks of the legalization run is reached: after the
\* mapping loop no PID beyond the limit is left unmapped, and a blocked
\* schedule has no free PID.
NeverThrows == result # "throw" /\ verdict # "throw"

\* The legalization run reports exceeding barriers exactly when the PIDs of the
\* hardware do not suffice: a schedule it lets through is assigned, and one it
\* sends to linearisation is blocked without it.
VerdictIsExact ==
  (run = "assign" /\ result \in {"success", "blocked"}) =>
    (verdict = "success" <=> result = "success")

\* Every batch holds more barriers than there are PIDs, so linearising it has
\* something to reduce: batches are neither split too early nor left over from
\* barriers that have been consumed.
BatchesExceedLimit ==
  mode = "dynamic" => \A i \in DOMAIN batches : Cardinality(batches[i]) > NumPids

\* However often it grows the set of PIDs, the legalization run ends, and the
\* run after it too.
LegalizationTerminates == <>(run = "assign" /\ stage = "done")
=============================================================================
