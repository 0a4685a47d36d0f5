------------------------ MODULE MemorySchedulerProofs ------------------------
(***************************************************************************)
(* Theorems about MemoryScheduler, for every program and memory size: IInv *)
(* and LogInv are invariants, and the properties follow from them.         *)
(*                                                                         *)
(* For each helper of the scheduler a predicate of                         *)
(* MemorySchedulerInvariant says what it does to a state (Grows, Freed,    *)
(* Evicted, Takes ...) and a lemma that the helper does it.  The folds of  *)
(* the helpers go through DataTheorems.                                    *)
(***************************************************************************)
EXTENDS MemorySchedulerInvariant

-----------------------------------------------------------------------------
(***************************************************************************)
(* The program and the states.                                             *)
(***************************************************************************)
\* What ProgramsAssumption says of the program at hand.
LEMMA ProgramFacts ==
  ASSUME prog \in Programs
  PROVE  ProgramOK
<1>1. IsProgram(prog)
  BY ProgramsAssumption
<1>2. Ops = 1 .. Len(prog.queue) /\ Len(prog.queue) \in Nat /\ prog.queue \in [Ops -> Queues]
  BY <1>1 DEF IsProgram, Ops
<1>3. Buffers = 1 .. Len(prog.size) /\ Len(prog.size) \in Nat /\ prog.size \in [Buffers -> Nat \ {0}]
  BY <1>1 DEF IsProgram, Buffers
<1>4. IsFiniteSet(1 .. Len(prog.queue)) /\ IsFiniteSet(1 .. Len(prog.size))
  <2>1. 1 \in Int /\ Len(prog.queue) \in Int /\ Len(prog.size) \in Int
    BY <1>2, <1>3
  <2> QED BY <2>1, FS_Interval
<1>5. Ops \subseteq Nat \ {0} /\ Buffers \subseteq Nat \ {0}
  BY <1>2, <1>3
<1>6. /\ prog.ins \in [Ops -> SUBSET Buffers] /\ prog.outs \in [Ops -> SUBSET Buffers]
      /\ prog.cost \in [Ops -> Nat] /\ prog.deps \in [Ops -> SUBSET Ops]
      /\ prog.memory \in Nat \ {0} /\ prog.ports \in Nat \ {0}
  BY <1>1 DEF IsProgram, Ops, Buffers
<1>7. \A i \in Ops :
       /\ \A d \in Deps(i) : d < i
       /\ \A b \in prog.ins[i] : \E d \in Deps(i) : b \in prog.outs[d]
       /\ prog.queue[i] = "DMA_DDR" => prog.ins[i] = {}
  BY <1>1 DEF IsProgram, Ops, Deps
<1> QED BY <1>2, <1>3, <1>4, <1>5, <1>6, <1>7 DEF ProgramOK

\* A state is the record of its fields.
LEMMA StateFields ==
  ASSUME NEW s \in States
  PROVE  s = Fields(s)
BY DEF States, Fields

-----------------------------------------------------------------------------
(***************************************************************************)
(* Cycles.                                                                 *)
(***************************************************************************)
\* The ports that are chosen are ports of the queue, and there is one.
LEMMA PortsOfQueue ==
  ASSUME ProgramOK, NEW s \in States, NEW q \in Queues, NEW bs
  PROVE  /\ Ports(s, q, bs) \subseteq Instances(q) /\ Ports(s, q, bs) # {}
         /\ Ports(s, q, bs) \subseteq 1 .. prog.ports
         /\ PortsFree(s, q, Ports(s, q, bs)) \in Cycles
         /\ \A k \in Ports(s, q, bs) : s.pipelines[q][k] <= PortsFree(s, q, Ports(s, q, bs))
<1> DEFINE cycles == s.pipelines[q]
<1>1. cycles \in [Instances(q) -> Cycles]
  BY DEF States, Pipelines
<1>2. /\ Instances(q) \subseteq 1 .. prog.ports /\ 1 \in Instances(q)
      /\ IsFiniteSet(Instances(q)) /\ Instances(q) \subseteq Nat
  <2>1. prog.ports \in Nat \ {0}
    BY DEF ProgramOK
  <2>2. \A n \in Nat : IsFiniteSet(1 .. n)
    BY FS_Interval
  <2>3. Instances(q) = 1 .. prog.ports \/ Instances(q) = 1 .. 1
    BY DEF Instances
  <2>4. 1 .. prog.ports \subseteq Nat /\ 1 .. 1 \subseteq 1 .. prog.ports /\ 1 \in 1 .. 1
    BY <2>1
  <2>5. IsFiniteSet(1 .. prog.ports) /\ IsFiniteSet(1 .. 1)
    BY <2>1, <2>2
  <2> QED BY <2>3, <2>4, <2>5
<1> DEFINE Before(j, k) == cycles[j] < cycles[k] \/ (cycles[j] = cycles[k] /\ j <= k)
<1>3. \E k \in DOMAIN cycles : \A j \in DOMAIN cycles : Before(k, j)
  <2> DEFINE Values == {cycles[k] : k \in DOMAIN cycles}
  <2>1. Values \subseteq Nat /\ Values # {}
    BY <1>1, <1>2 DEF Cycles
  <2>2. PICK c \in Values : \A d \in Values : c <= d
    <3> HIDE DEF Values
    <3> QED BY <2>1, NatMinimum
  <2> DEFINE First == {k \in DOMAIN cycles : cycles[k] = c}
  <2>3. First \subseteq Nat /\ First # {}
    BY <1>1, <1>2, <2>2
  <2>4. PICK k \in First : \A j \in First : k <= j
    <3> HIDE DEF First
    <3> QED BY <2>3, NatMinimum
  <2>5. ASSUME NEW j \in DOMAIN cycles PROVE Before(k, j)
    <3>1. cycles[j] \in Nat /\ c \in Nat /\ c <= cycles[j] /\ cycles[k] = c
      BY <2>1, <2>2, <2>4
    <3>2. cycles[j] = c => k <= j
      BY <2>4
    <3> QED BY <3>1, <3>2
  <2> QED BY <2>4, <2>5
<1> DEFINE first == CHOOSE k \in DOMAIN cycles : \A j \in DOMAIN cycles : Before(k, j)
<1>4. first \in DOMAIN cycles
  <2> HIDE DEF Before
  <2> QED BY <1>3
<1>5. Ports(s, q, bs) = DOMAIN cycles \/ Ports(s, q, bs) = {first}
  BY DEF Ports
<1> HIDE DEF first
<1>6. Ports(s, q, bs) \subseteq Instances(q) /\ Ports(s, q, bs) # {}
  BY <1>1, <1>2, <1>4, <1>5
<1> DEFINE free == {cycles[k] : k \in Ports(s, q, bs)}
<1>7. free \subseteq Cycles /\ free # {}
  BY <1>1, <1>6
<1>8. IsFiniteSet(free)
  <2>1. IsFiniteSet(Ports(s, q, bs))
    BY <1>2, <1>6, FS_Subset
  <2> QED BY <2>1, ValuesAreFinite
<1>9. Max(free) \in Cycles /\ \A c \in free : c <= Max(free)
  <2> HIDE DEF free
  <2>1. free \subseteq Nat
    BY <1>7 DEF Cycles
  <2> QED BY <1>7, <1>8, <2>1, MaxOfNaturals
<1> QED BY <1>2, <1>6, <1>9 DEF PortsFree

-----------------------------------------------------------------------------
(***************************************************************************)
(* The entries that a rollback puts back.                                  *)
(***************************************************************************)
\* An update as in MapChanges keeps what the rollback needs.
LEMMA MapStillFits ==
  ASSUME NEW saved, NEW map, NEW old, NEW new, NEW map2, NEW old2, NEW new2, NEW keys, NEW kept,
         MapFits(saved, map, old, new), MapChanges(map, old, new, map2, old2, new2, keys, kept)
  PROVE  MapFits(saved, map2, old2, new2)
<1> SUFFICES ASSUME NEW k \in DOMAIN map
             PROVE  IF k \in new2 THEN saved[k] = 0
                    ELSE IF k \in DOMAIN old2 THEN old2[k] = saved[k] /\ map2[k] # 0
                    ELSE map2[k] = saved[k]
  BY DEF MapFits, MapChanges
<1>1. /\ k \in new => saved[k] = 0
      /\ k \notin new /\ k \in DOMAIN old => old[k] = saved[k] /\ map[k] # 0
      /\ k \notin new /\ k \notin DOMAIN old => map[k] = saved[k]
  BY DEF MapFits
<1>2. /\ DOMAIN old2 = DOMAIN old \cup kept
      /\ k \in DOMAIN old => old2[k] = old[k]
      /\ k \in kept /\ k \notin DOMAIN old => old2[k] = map[k]
  BY DEF MapChanges, Keep
<1>3. k \in new2 <=> k \in new \/ (k \in keys /\ map[k] = 0)
  BY DEF MapChanges
<1>4. CASE k \in keys
  BY <1>1, <1>2, <1>3, <1>4 DEF MapChanges
<1>5. CASE k \notin keys
  BY <1>1, <1>2, <1>3, <1>5 DEF MapChanges
<1> QED BY <1>4, <1>5

\* The old values kept are values.
LEMMA KeptEntries ==
  ASSUME NEW K, NEW V, NEW old \in PartialMaps(K, V), NEW keys \in SUBSET K, NEW map,
         \A k \in keys : map[k] \in V
  PROVE  Keep(old, keys, map) \in PartialMaps(K, V)
<1>1. PICK D \in SUBSET K : old \in [D -> V]
  BY DEF PartialMaps
<1>2. Keep(old, keys, map) \in [D \cup keys -> V]
  BY <1>1 DEF Keep
<1>3. D \cup keys \in SUBSET K
  BY <1>1
<1> QED BY <1>2, <1>3 DEF PartialMaps

\* From entries that fit, the rollback rebuilds the map.
LEMMA ExactRevert ==
  ASSUME NEW K, NEW saved, saved = [k \in K |-> saved[k]],
         NEW map, DOMAIN map = K, NEW old, NEW new, MapFits(saved, map, old, new)
  PROVE  Revert(map, old, new) = saved
BY DEF Revert, MapFits

-----------------------------------------------------------------------------
(***************************************************************************)
(* Putting an element into the heap.                                       *)
(***************************************************************************)
\* updateBufferCycleUseAndProducer does what BuffersUpdated says.
LEMMA UpdateBuffersFields ==
  ASSUME ProgramOK, NEW s \in States, NEW op \in Ops, NEW end \in Cycles,
         NEW written \in SUBSET Buffers, NEW used \in SUBSET Buffers, NEW t, t = UpdateBuffers(s, op, end, written, used)
  PROVE  BuffersUpdated(s, t, op, end, written, used)
<1> DEFINE known == {b \in used : s.lastUse[b] # 0}
           producer == [b \in Buffers |-> IF b \in written THEN op ELSE s.producer[b]]
           lastUse == [b \in Buffers |-> IF b \in used /\ s.lastUse[b] < end THEN end ELSE s.lastUse[b]]
           newProducers == s.deltas.newProducers \cup {b \in written : s.producer[b] = 0}
           oldProducers == Keep(s.deltas.oldProducers, written, s.producer)
           newUses == s.deltas.newUses \cup (used \ known)
           oldUses == Keep(s.deltas.oldUses, known, s.lastUse)
<1>1. /\ s.producer \in [Buffers -> Ops \cup {0}] /\ s.lastUse \in [Buffers -> Nat]
      /\ s.deltas \in Deltas
      /\ s = Fields(s)
  BY StateFields DEF States
<1>2. s.deltas = [newProducers |-> s.deltas.newProducers, oldProducers |-> s.deltas.oldProducers,
                  newUses |-> s.deltas.newUses, oldUses |-> s.deltas.oldUses,
                  newEnds |-> s.deltas.newEnds, oldEnds |-> s.deltas.oldEnds]
  BY <1>1 DEF Deltas
<1> DEFINE deltas == [newProducers |-> newProducers, oldProducers |-> oldProducers,
                      newUses |-> newUses, oldUses |-> oldUses,
                      newEnds |-> s.deltas.newEnds, oldEnds |-> s.deltas.oldEnds]
<1>3. t = [gaps |-> s.gaps, addr |-> s.addr, alive |-> s.alive, spilled |-> s.spilled,
              pipelines |-> s.pipelines, beginHeap |-> s.beginHeap, readyCompute |-> s.readyCompute,
              readyData |-> s.readyData, producer |-> producer, lastUse |-> lastUse,
              opEnd |-> s.opEnd, deltas |-> deltas]
  BY <1>1, <1>2, ZenonT(60) DEF UpdateBuffers, Fields
<1>4. producer \in [Buffers -> Ops \cup {0}] /\ lastUse \in [Buffers -> Nat]
  BY <1>1 DEF Cycles
<1>5. deltas \in Deltas
  <2>1. /\ s.deltas.oldProducers \in PartialMaps(Buffers, Ops \cup {0})
        /\ s.deltas.oldUses \in PartialMaps(Buffers, Nat)
        /\ s.deltas.newProducers \in SUBSET Buffers /\ s.deltas.newUses \in SUBSET Buffers
        /\ s.deltas.newEnds \in SUBSET Ops /\ s.deltas.oldEnds \in PartialMaps(Ops, Nat)
    BY <1>1 DEF Deltas
  <2>2. oldProducers \in PartialMaps(Buffers, Ops \cup {0})
    <3>1. \A k \in written : s.producer[k] \in Ops \cup {0}
      BY <1>1
    <3> QED BY <2>1, <3>1, KeptEntries
  <2>3. oldUses \in PartialMaps(Buffers, Nat)
    <3>1. known \in SUBSET Buffers /\ \A k \in known : s.lastUse[k] \in Nat
      BY <1>1
    <3> HIDE DEF known
    <3> QED BY <2>1, <3>1, KeptEntries
  <2>4. newProducers \in SUBSET Buffers /\ newUses \in SUBSET Buffers
    BY <2>1
  <2> HIDE DEF newProducers, oldProducers, newUses, oldUses
  <2> QED BY <2>3, <2>4, <2>1, <2>2 DEF Deltas
<1>6. ASSUME NEW saved, DeltasFit(saved, s) PROVE DeltasFit(saved, t)
  <2>1. MapChanges(s.producer, s.deltas.oldProducers, s.deltas.newProducers,
                   producer, oldProducers, newProducers, written, written)
    <3>1. op # 0
      BY DEF ProgramOK
    <3> QED BY <1>1, <3>1 DEF MapChanges
  <2>2. MapChanges(s.lastUse, s.deltas.oldUses, s.deltas.newUses,
                   lastUse, oldUses, newUses, used, known)
    BY <1>1 DEF MapChanges, Cycles
  <2> HIDE DEF newProducers, oldProducers, newUses, oldUses, producer, lastUse, known
  <2>3. MapFits(saved.producer, producer, oldProducers, newProducers)
    BY <1>6, <2>1, MapStillFits DEF DeltasFit
  <2>4. MapFits(saved.lastUse, lastUse, oldUses, newUses)
    BY <1>6, <2>2, MapStillFits DEF DeltasFit
  <2> QED BY <1>3, <1>6, <2>3, <2>4 DEF DeltasFit
<1> HIDE DEF lastUse, deltas
<1>7. t \in States
  <2> HIDE DEF producer
  <2> QED BY <1>3, <1>4, <1>5 DEF States
<1>8. \A b \in Buffers : s.lastUse[b] <= lastUse[b] /\ (b \in used => end <= lastUse[b])
  BY <1>1 DEF lastUse, Cycles
<1> QED BY <1>3, <1>6, <1>7, <1>8 DEF BuffersUpdated

\* What insertInOpIdxCycleEndMap leaves alone and what it changes.
LEMMA UpdateOpEndFields ==
  ASSUME ProgramOK, NEW s \in States, NEW op \in Ops, NEW end \in Cycles, NEW t, t = UpdateOpEnd(s, op, end)
  PROVE  /\ t \in States
         /\ t.gaps = s.gaps /\ t.addr = s.addr /\ t.alive = s.alive /\ t.spilled = s.spilled
         /\ t.pipelines = s.pipelines /\ t.beginHeap = s.beginHeap
         /\ t.readyCompute = s.readyCompute /\ t.readyData = s.readyData /\ t.producer = s.producer
         /\ t.lastUse = s.lastUse
         /\ \A i \in Ops : IsScheduled(t, i) <=> IsScheduled(s, i) \/ i = op
         /\ end <= t.opEnd[op] /\ \A i \in Ops : s.opEnd[i] <= t.opEnd[i]
         /\ \A saved : DeltasFit(saved, s) => DeltasFit(saved, t)
<1>1. /\ s.opEnd \in [Ops -> Nat] /\ s.deltas \in Deltas
      /\ s = Fields(s)
  BY StateFields DEF States
<1>2. s.deltas = [newProducers |-> s.deltas.newProducers, oldProducers |-> s.deltas.oldProducers,
                  newUses |-> s.deltas.newUses, oldUses |-> s.deltas.oldUses,
                  newEnds |-> s.deltas.newEnds, oldEnds |-> s.deltas.oldEnds]
  BY <1>1 DEF Deltas
<1> DEFINE opEnd == [s.opEnd EXCEPT ![op] = end]
           With(newEnds, oldEnds) ==
             [gaps |-> s.gaps, addr |-> s.addr, alive |-> s.alive, spilled |-> s.spilled,
              pipelines |-> s.pipelines, beginHeap |-> s.beginHeap, readyCompute |-> s.readyCompute,
              readyData |-> s.readyData, producer |-> s.producer, lastUse |-> s.lastUse,
              opEnd |-> opEnd,
              deltas |-> [newProducers |-> s.deltas.newProducers, oldProducers |-> s.deltas.oldProducers,
                          newUses |-> s.deltas.newUses, oldUses |-> s.deltas.oldUses,
                          newEnds |-> newEnds, oldEnds |-> oldEnds]]
<1>3. opEnd \in [Ops -> Nat] /\ opEnd[op] # 0 /\ \A i \in Ops : i # op => opEnd[i] = s.opEnd[i]
  BY <1>1 DEF Cycles
<1>4. ASSUME NEW newEnds \in SUBSET Ops, NEW oldEnds \in PartialMaps(Ops, Nat)
      PROVE  With(newEnds, oldEnds) \in States
  <2>1. [newProducers |-> s.deltas.newProducers, oldProducers |-> s.deltas.oldProducers,
         newUses |-> s.deltas.newUses, oldUses |-> s.deltas.oldUses,
         newEnds |-> newEnds, oldEnds |-> oldEnds] \in Deltas
    BY <1>1 DEF Deltas
  <2> HIDE DEF opEnd
  <2> QED BY <1>3, <2>1 DEF States
<1>5. \A i \in Ops : opEnd[i] # 0 <=> s.opEnd[i] # 0 \/ i = op
  BY <1>1, <1>3
<1>9. s.opEnd[op] < end => end <= opEnd[op] /\ \A i \in Ops : s.opEnd[i] <= opEnd[i]
  BY <1>1 DEF Cycles
<1>6. CASE s.opEnd[op] = 0
  <2> DEFINE newEnds == s.deltas.newEnds \cup {op}
  <2>1. t = With(newEnds, s.deltas.oldEnds)
    BY <1>1, <1>2, <1>6 DEF UpdateOpEnd, Fields
  <2>2. newEnds \in SUBSET Ops /\ s.deltas.oldEnds \in PartialMaps(Ops, Nat)
    BY <1>1 DEF Deltas
  <2>3. ASSUME NEW saved, DeltasFit(saved, s) PROVE DeltasFit(saved, t)
    <3>1. s.deltas.oldEnds = Keep(s.deltas.oldEnds, {}, s.opEnd)
      <4>1. PICK D \in SUBSET Ops : s.deltas.oldEnds \in [D -> Nat]
        BY <2>2 DEF PartialMaps
      <4> QED BY <4>1 DEF Keep
    <3>2. MapChanges(s.opEnd, s.deltas.oldEnds, s.deltas.newEnds,
                     opEnd, s.deltas.oldEnds, newEnds, {op}, {})
      BY <1>1, <1>3, <1>6, <3>1 DEF MapChanges
    <3> HIDE DEF opEnd, newEnds
    <3>3. MapFits(saved.opEnd, opEnd, s.deltas.oldEnds, newEnds)
      BY <2>3, <3>2, MapStillFits DEF DeltasFit
    <3> QED BY <2>1, <2>3, <3>3 DEF DeltasFit
  <2> HIDE DEF opEnd, newEnds
  <2>4. t \in States
    BY <1>4, <2>1, <2>2
  <2>5. s.opEnd[op] < end
    BY <1>6 DEF Cycles
  <2> QED BY <1>5, <1>9, <2>1, <2>3, <2>4, <2>5 DEF IsScheduled
<1>7. CASE s.opEnd[op] # 0 /\ s.opEnd[op] < end
  <2> DEFINE oldEnds == Keep(s.deltas.oldEnds, {op}, s.opEnd)
  <2>1. t = With(s.deltas.newEnds, oldEnds)
    BY <1>1, <1>2, <1>7 DEF UpdateOpEnd, Fields
  <2>2. s.deltas.newEnds \in SUBSET Ops /\ s.deltas.oldEnds \in PartialMaps(Ops, Nat)
    BY <1>1 DEF Deltas
  <2>3. oldEnds \in PartialMaps(Ops, Nat)
    <3>1. \A k \in {op} : s.opEnd[k] \in Nat
      BY <1>1
    <3> QED BY <2>2, <3>1, KeptEntries
  <2>4. ASSUME NEW saved, DeltasFit(saved, s) PROVE DeltasFit(saved, t)
    <3>1. MapChanges(s.opEnd, s.deltas.oldEnds, s.deltas.newEnds,
                     opEnd, oldEnds, s.deltas.newEnds, {op}, {op})
      BY <1>1, <1>3, <1>7 DEF MapChanges
    <3> HIDE DEF opEnd, oldEnds
    <3>2. MapFits(saved.opEnd, opEnd, oldEnds, s.deltas.newEnds)
      BY <2>4, <3>1, MapStillFits DEF DeltasFit
    <3> QED BY <2>1, <2>4, <3>2 DEF DeltasFit
  <2> HIDE DEF opEnd, oldEnds
  <2>5. t \in States
    BY <1>4, <2>1, <2>2, <2>3
  <2> QED BY <1>5, <1>7, <1>9, <2>1, <2>4, <2>5 DEF IsScheduled
<1>8. CASE s.opEnd[op] # 0 /\ ~(s.opEnd[op] < end)
  <2>1. t = s
    BY <1>8 DEF UpdateOpEnd
  <2>2. end <= s.opEnd[op] /\ \A i \in Ops : s.opEnd[i] <= s.opEnd[i]
    BY <1>1, <1>8 DEF Cycles
  <2> QED BY <2>1, <2>2, <1>8 DEF IsScheduled
<1> QED BY <1>6, <1>7, <1>8

\* What pushToCycleBeginHeap leaves alone and what it changes.
LEMMA PushFields ==
  ASSUME ProgramOK, NEW s \in States, NEW e \in Elements, e.end \in Cycles,
         e.ports \subseteq Instances(e.queue), e.type = "read" => e.buf \in Buffers,
         NEW t, t = Push(s, e)
  PROVE  /\ t \in States
         /\ t.gaps = s.gaps /\ t.addr = s.addr /\ t.alive = s.alive /\ t.spilled = s.spilled
         /\ t.beginHeap = s.beginHeap \cup {e}
         /\ t.readyCompute = s.readyCompute /\ t.readyData = s.readyData
         /\ t.producer = [b \in Buffers |-> IF b \in WrittenBy(e) THEN e.op ELSE s.producer[b]]
         /\ \A i \in Ops : IsScheduled(t, i) <=> IsScheduled(s, i) \/ i = e.op
         /\ \A saved : DeltasFit(saved, s) => DeltasFit(saved, t)
         /\ Later(s, t, e)
<1> DEFINE pipelines == [s.pipelines EXCEPT ![e.queue] =
                            [k \in DOMAIN @ |-> IF k \in e.ports THEN e.end ELSE @[k]]]
           busy == [s EXCEPT !.pipelines = pipelines, !.beginHeap = @ \cup {e}]
           mid == UpdateBuffers(busy, e.op, e.end, WrittenBy(e), UsedBy(e))
<1>1. /\ e.op \in Ops /\ e.queue \in Queues
      /\ s.pipelines \in Pipelines /\ s.beginHeap \in Heaps
      /\ s = Fields(s)
  BY StateFields DEF States, Elements
<1>2. WrittenBy(e) \in SUBSET Buffers /\ UsedBy(e) \in SUBSET Buffers
  BY <1>1 DEF WrittenBy, UsedBy, UsedBuffers, ProgramOK
<1>3. t = UpdateOpEnd(mid, e.op, e.end)
  <2>1. busy = [s EXCEPT
        !.pipelines[e.queue] = [k \in DOMAIN @ |-> IF k \in e.ports THEN e.end ELSE @[k]],
        !.beginHeap = @ \cup {e}]
    BY <1>1
  <2> HIDE DEF busy
  <2> QED BY <2>1 DEF Push, WrittenBy, UsedBy
<1>4. pipelines \in Pipelines
  <2>1. /\ s.pipelines \in [Queues -> PartialMaps(1 .. prog.ports, Cycles)]
        /\ \A q \in Queues : s.pipelines[q] \in [Instances(q) -> Cycles]
    BY <1>1 DEF Pipelines
  <2> DEFINE new == [k \in DOMAIN s.pipelines[e.queue] |->
                       IF k \in e.ports THEN e.end ELSE s.pipelines[e.queue][k]]
  <2>2. new \in [Instances(e.queue) -> Cycles]
    BY <1>1, <2>1
  <2>3. Instances(e.queue) \in SUBSET (1 .. prog.ports)
    BY DEF ProgramOK, Instances
  <2>4. new \in PartialMaps(1 .. prog.ports, Cycles)
    <3> HIDE DEF new
    <3> QED BY <2>2, <2>3 DEF PartialMaps
  <2>5. pipelines = [s.pipelines EXCEPT ![e.queue] = new]
    OBVIOUS
  <2> HIDE DEF new, pipelines
  <2>6. \A q \in Queues : pipelines[q] = IF q = e.queue THEN new ELSE s.pipelines[q]
    BY <1>1, <2>1, <2>5
  <2>7. pipelines \in [Queues -> PartialMaps(1 .. prog.ports, Cycles)]
    BY <1>1, <2>1, <2>4, <2>5
  <2> QED BY <2>1, <2>2, <2>6, <2>7 DEF Pipelines
<1>10. ASSUME NEW q \in Queues, NEW k \in Instances(q)
       PROVE  /\ s.pipelines[q][k] \in Nat
              /\ pipelines[q][k] = IF q = e.queue /\ k \in e.ports THEN e.end ELSE s.pipelines[q][k]
  BY <1>1 DEF Pipelines, Cycles
<1> HIDE DEF pipelines
<1>5. busy = [gaps |-> s.gaps, addr |-> s.addr, alive |-> s.alive, spilled |-> s.spilled,
              pipelines |-> pipelines, beginHeap |-> s.beginHeap \cup {e}, readyCompute |-> s.readyCompute,
              readyData |-> s.readyData, producer |-> s.producer, lastUse |-> s.lastUse,
              opEnd |-> s.opEnd, deltas |-> s.deltas]
  <2> DEFINE r == Fields(s)
  <2>1. s = r
    BY <1>1
  <2>2. busy = [r EXCEPT !.pipelines = pipelines, !.beginHeap = s.beginHeap \cup {e}]
    BY <2>1
  <2> HIDE DEF busy
  <2> QED BY <2>2 DEF Fields
<1> HIDE DEF busy
<1>6. busy \in States
  <2>1. s.beginHeap \cup {e} \in Heaps
    BY <1>1, FS_AddElement DEF Heaps
  <2> QED BY <1>4, <1>5, <2>1 DEF States
<1>7. \A saved : DeltasFit(saved, s) => DeltasFit(saved, busy)
  BY <1>5 DEF DeltasFit
<1>8. /\ mid \in States
      /\ mid.gaps = busy.gaps /\ mid.addr = busy.addr /\ mid.alive = busy.alive /\ mid.spilled = busy.spilled
      /\ mid.beginHeap = busy.beginHeap
      /\ mid.readyCompute = busy.readyCompute /\ mid.readyData = busy.readyData /\ mid.opEnd = busy.opEnd
      /\ mid.producer = [b \in Buffers |-> IF b \in WrittenBy(e) THEN e.op ELSE busy.producer[b]]
      /\ mid.pipelines = busy.pipelines
      /\ \A b \in Buffers : busy.lastUse[b] <= mid.lastUse[b] /\ (b \in UsedBy(e) => e.end <= mid.lastUse[b])
      /\ \A saved : DeltasFit(saved, busy) => DeltasFit(saved, mid)
  <2> HIDE DEF mid
  <2>1. mid = UpdateBuffers(busy, e.op, e.end, WrittenBy(e), UsedBy(e))
    BY DEF mid
  <2>2. e.op \in Ops /\ e.end \in Cycles
    BY <1>1
  <2>3. BuffersUpdated(busy, mid, e.op, e.end, WrittenBy(e), UsedBy(e))
    BY <1>2, <1>6, <2>1, <2>2, UpdateBuffersFields
  <2> QED BY <2>3 DEF BuffersUpdated
<1> HIDE DEF mid
<1>9. /\ t \in States
      /\ t.gaps = mid.gaps /\ t.addr = mid.addr /\ t.alive = mid.alive /\ t.spilled = mid.spilled
      /\ t.beginHeap = mid.beginHeap
      /\ t.readyCompute = mid.readyCompute /\ t.readyData = mid.readyData /\ t.producer = mid.producer
      /\ \A i \in Ops : IsScheduled(t, i) <=> IsScheduled(mid, i) \/ i = e.op
      /\ \A saved : DeltasFit(saved, mid) => DeltasFit(saved, t)
      /\ t.pipelines = mid.pipelines /\ t.lastUse = mid.lastUse
      /\ e.end <= t.opEnd[e.op] /\ \A i \in Ops : mid.opEnd[i] <= t.opEnd[i]
  BY <1>1, <1>3, <1>8, UpdateOpEndFields
<1>11. Later(s, t, e)
  <2>1. e.end \in Nat
    BY DEF Cycles
  <2>3. \A b \in Buffers : s.lastUse[b] <= t.lastUse[b] /\ (b \in UsedBy(e) => e.end <= t.lastUse[b])
    BY <1>5, <1>8, <1>9
  <2>4. e.end <= t.opEnd[e.op] /\ \A i \in Ops : s.opEnd[i] <= t.opEnd[i]
    BY <1>5, <1>8, <1>9
  <2>5. t.pipelines = pipelines
    BY <1>5, <1>8, <1>9
  <2>6. (\A k \in e.ports : s.pipelines[e.queue][k] <= e.end) => NotSooner(s, t)
    BY <1>10, <2>1, <2>5 DEF NotSooner
  <2> QED BY <2>3, <2>4, <2>6 DEF Later
<1>12. \A i \in Ops : IsScheduled(t, i) <=> IsScheduled(s, i) \/ i = e.op
  BY <1>5, <1>8, <1>9 DEF IsScheduled
<1>13. \A saved : DeltasFit(saved, s) => DeltasFit(saved, t)
  BY <1>7, <1>8, <1>9
<1> QED BY <1>5, <1>8, <1>9, <1>11, <1>12, <1>13

-----------------------------------------------------------------------------
(***************************************************************************)
(* The schedule with one more entry.                                       *)
(***************************************************************************)
\* The entry of e.
LEMMA EntryFields ==
  ASSUME NEW e
  PROVE  /\ EntryOf(e).op = e.op /\ EntryOf(e).original = IsOriginal(e)
         /\ EntryOf(e).begin = e.begin /\ EntryOf(e).end = e.end
         /\ EntryOf(e).bufs = IF IsOriginal(e) THEN UsedBuffers(e.op) ELSE {e.buf}
BY DEF EntryOf

\* The entries have numbers, and buffers.
LEMMA EntryTypes ==
  ASSUME ProgramOK, NEW s \in States, NEW P, Logged(s, P), NEW x \in Log(s, P)
  PROVE  x.op \in Ops /\ x.begin \in Nat /\ x.end \in Nat /\ x.original \in BOOLEAN
         /\ x.bufs \subseteq Buffers /\ IsScheduled(s, x.op)
<1>1. /\ x.op \in Ops /\ x.begin \in Nat /\ x.end \in Nat /\ x.original \in BOOLEAN /\ IsScheduled(s, x.op)
      /\ x.original => x.bufs = UsedBuffers(x.op)
      /\ ~x.original => \E b \in prog.outs[x.op] : x.bufs = {b}
  BY DEF Logged, EntriesOK
<1>2. UsedBuffers(x.op) \subseteq Buffers /\ prog.outs[x.op] \subseteq Buffers
  BY <1>1 DEF UsedBuffers, ProgramOK
<1> QED BY <1>1, <1>2

\* The entry is new.
LEMMA EntryIsNew ==
  ASSUME ProgramOK, NEW s \in States, NEW e \in Elements, NEW P, Logged(s, P),
         ComesAfter(s, e, Log(s, P)), NEW x \in Log(s, P)
  PROVE  /\ x # EntryOf(e)
         /\ x.op = e.op /\ x.bufs \cap EntryOf(e).bufs # {} => x.end # e.end
<1>1. x.op \in Ops /\ x.end \in Nat /\ IsScheduled(s, x.op)
  BY EntryTypes
<1>2. CASE IsOriginal(e)
  <2>1. x.op # e.op
    BY <1>1, <1>2 DEF ComesAfter
  <2> QED BY <2>1, EntryFields
<1>3. CASE ~IsOriginal(e)
  <2>1. EntryOf(e).bufs = {e.buf} /\ EntryOf(e).end = e.end
    BY <1>3, EntryFields
  <2>2. e.buf \in x.bufs => x.end <= e.begin
    BY <1>3 DEF ComesAfter
  <2>3. e.begin \in Nat /\ e.end = e.begin + SpillCost(e.buf) /\ e.buf \in Buffers
    BY <1>3 DEF ComesAfter, Elements, ProgramOK
  <2>6. SpillCost(e.buf) \in Nat \ {0}
    BY <2>3 DEF SpillCost, ProgramOK
  <2>4. e.begin < e.end /\ e.end \in Nat
    BY <2>3, <2>6
  <2>5. e.buf \in x.bufs => x.end # e.end
    BY <1>1, <2>2, <2>3, <2>4
  <2> QED BY <2>1, <2>5
<1> QED BY <1>2, <1>3

\* The entries with it.
LEMMA EntryAdded ==
  ASSUME ProgramOK, NEW s \in States, NEW t \in States, NEW e \in Elements, HasElement(s, t, e),
         NEW P, Logged(s, P), ComesAfter(s, e, Log(s, P))
  PROVE  /\ Log(t, P) = Log(s, P) \cup {EntryOf(e)}
         /\ EntriesOK(t, P) /\ HeapOK(t, P)
<1> DEFINE n == EntryOf(e)
           L == Log(s, P)
<1>1. Log(t, P) = L \cup {n}
  BY DEF HasElement, Log
<1>2. /\ n.op = e.op /\ n.original = IsOriginal(e) /\ n.begin = e.begin /\ n.end = e.end
      /\ n.bufs = IF IsOriginal(e) THEN UsedBuffers(e.op) ELSE {e.buf}
  BY EntryFields
<1>3. \A x \in L : x # n /\ (x.op = n.op /\ x.bufs \cap n.bufs # {} => x.end # n.end)
  BY <1>2, EntryIsNew
<1>4. e.op \in Ops /\ e.begin \in Nat /\ e.end \in Nat /\ IsOriginal(e) \in BOOLEAN
      /\ \A f \in t.beginHeap : IsOriginal(f) \in BOOLEAN
  BY DEF Elements, IsOriginal
<1>5. /\ \A i \in Ops : IsScheduled(t, i) <=> IsScheduled(s, i) \/ i = e.op
      /\ \A i \in Ops : s.opEnd[i] <= t.opEnd[i] /\ s.opEnd[i] \in Nat /\ t.opEnd[i] \in Nat
      /\ e.end <= t.opEnd[e.op]
  BY DEF HasElement, Later, States
<1>6. \A x \in L : x.op \in Ops /\ x.begin \in Nat /\ x.end \in Nat /\ x.original \in BOOLEAN /\ IsScheduled(s, x.op)
  BY EntryTypes
<1>7. /\ \A x \in L : x.original => x.bufs = UsedBuffers(x.op) /\ x.end <= s.opEnd[x.op]
      /\ \A x \in L : ~x.original => \E b \in prog.outs[x.op] : x.bufs = {b}
      /\ \A x, y \in L : x.original /\ y.original /\ x.op = y.op => x = y
      /\ \A x \in L : x.original =>
           \A d \in Deps(x.op) : IsScheduled(s, d) /\ \A y \in L : y.original /\ y.op = d => y.end <= x.begin
      /\ \A i \in Ops : IsScheduled(s, i) => \E x \in L : x.original /\ x.op = i
      /\ \A x, y \in L : x # y /\ x.op = y.op /\ x.bufs \cap y.bufs # {} => x.end # y.end
  BY DEF Logged, EntriesOK
<1>8. /\ n.original => ~IsScheduled(s, e.op) /\ \A d \in Deps(e.op) : IsScheduled(s, d) /\ s.opEnd[d] <= e.begin
      /\ ~n.original => IsScheduled(s, e.op) /\ e.buf \in prog.outs[e.op]
  BY <1>2 DEF ComesAfter
<1>9. EntriesOK(t, P)
  <2> HIDE DEF n, L
  <2>1. ASSUME NEW x \in L \cup {n}
        PROVE  /\ x.op \in Ops /\ x.begin \in Nat /\ x.end \in Nat /\ x.original \in BOOLEAN
               /\ IsScheduled(t, x.op)
               /\ x.original => x.bufs = UsedBuffers(x.op) /\ x.end <= t.opEnd[x.op]
               /\ ~x.original => \E b \in prog.outs[x.op] : x.bufs = {b}
    <3>1. CASE x \in L
      <4>1. x.op \in Ops /\ x.begin \in Nat /\ x.end \in Nat /\ x.original \in BOOLEAN /\ IsScheduled(s, x.op)
        BY <3>1, <1>6
      <4>2. x.original => x.bufs = UsedBuffers(x.op) /\ x.end <= s.opEnd[x.op]
        BY <3>1, <1>7
      <4>3. ~x.original => \E b \in prog.outs[x.op] : x.bufs = {b}
        BY <3>1, <1>7
      <4> QED BY <4>1, <4>2, <4>3, <1>5
    <3>2. CASE x = n
      <4>1. IsScheduled(t, n.op) /\ n.end <= t.opEnd[n.op]
        BY <1>2, <1>4, <1>5
      <4> QED BY <3>2, <4>1, <1>2, <1>4, <1>8
    <3> QED BY <3>1, <3>2
  <2>2. ASSUME NEW x \in L \cup {n}, NEW y \in L \cup {n}, x.original, y.original, x.op = y.op PROVE x = y
    BY <2>2, <1>2, <1>6, <1>7, <1>8
  <2>3. ASSUME NEW x \in L \cup {n}, x.original, NEW d \in Deps(x.op)
        PROVE  IsScheduled(t, d) /\ \A y \in L \cup {n} : y.original /\ y.op = d => y.end <= x.begin
    <3>1. d \in Ops /\ d # x.op
      <4>1. x.op \in Ops
        BY <1>2, <1>4, <1>6
      <4>2. d \in Ops /\ d < x.op /\ x.op \in Nat /\ d \in Nat
        BY <4>1 DEF ProgramOK, Deps
      <4> QED BY <4>2
    <3>2. IsScheduled(s, d)
      BY <2>3, <1>2, <1>7, <1>8
    <3>3. ASSUME NEW y \in L \cup {n}, y.original, y.op = d PROVE y.end <= x.begin
      <4>1. y \in L
        BY <3>2, <3>3, <1>2, <1>8
      <4>2. CASE x \in L
        BY <4>1, <4>2, <2>3, <3>3, <1>7
      <4>3. CASE x = n
        <5>1. y.end <= s.opEnd[d] /\ s.opEnd[d] <= x.begin
          BY <4>1, <4>3, <2>3, <3>3, <1>2, <1>7, <1>8
        <5>2. y.end \in Nat /\ s.opEnd[d] \in Nat /\ x.begin \in Nat
          BY <4>1, <4>3, <3>1, <1>2, <1>4, <1>5, <1>6
        <5> QED BY <5>1, <5>2
      <4> QED BY <4>2, <4>3
    <3> QED BY <3>1, <3>2, <3>3, <1>5
  <2>4. ASSUME NEW i \in Ops, IsScheduled(t, i) PROVE \E x \in L \cup {n} : x.original /\ x.op = i
    <3>1. CASE IsScheduled(s, i)
      BY <3>1, <1>7
    <3>2. CASE ~IsScheduled(s, i)
      <4>1. i = e.op
        BY <2>4, <3>2, <1>5
      <4> QED BY <4>1, <3>2, <1>2, <1>4, <1>8
    <3> QED BY <3>1, <3>2
  <2>5. ASSUME NEW x \in L \cup {n}, NEW y \in L \cup {n}, x # y, x.op = y.op, x.bufs \cap y.bufs # {}
        PROVE  x.end # y.end
    <3>1. CASE x \in L /\ y \in L
      BY <3>1, <2>5, <1>7
    <3>2. CASE x \in L /\ y = n
      BY <3>2, <2>5, <1>3
    <3>3. CASE x = n /\ y \in L
      <4>1. y.bufs \cap n.bufs # {}
        BY <3>3, <2>5
      <4> QED BY <3>3, <2>5, <4>1, <1>3
    <3> QED BY <3>1, <3>2, <3>3, <2>5
  <2> QED BY <1>1, <2>3, <2>4, <2>5, <2>1, <2>2 DEF EntriesOK
<1>10. HeapOK(t, P)
  <2>1. /\ \A f \in s.beginHeap : /\ EntryOf(f) \notin P
                                  /\ IF IsOriginal(f) THEN f.buf = NoBuffer
                                     ELSE f.buf \in Buffers /\ f.end = f.begin + SpillCost(f.buf)
        /\ \A f, g \in s.beginHeap : EntryOf(f) = EntryOf(g) => f = g
    BY DEF Logged, HeapOK
  <2>2. t.beginHeap = s.beginHeap \cup {e}
    BY DEF HasElement
  <2>3. n \notin P /\ \A f \in s.beginHeap : EntryOf(f) # n
    <3>1. P \subseteq L /\ \A f \in s.beginHeap : EntryOf(f) \in L
      BY DEF Log
    <3> HIDE DEF n, L
    <3> QED BY <3>1, <1>3
  <2>4. IF IsOriginal(e) THEN e.buf = NoBuffer ELSE e.buf \in Buffers /\ e.end = e.begin + SpillCost(e.buf)
    BY <1>4 DEF ComesAfter, ProgramOK
  <2> QED BY <2>3, <2>4, <2>1, <2>2 DEF HeapOK
<1> QED BY <1>1, <1>9, <1>10

\* The entry of an operation whose buffers are in memory.
LEMMA OriginalLogged ==
  ASSUME ProgramOK, NEW s \in States, NEW t \in States, NEW e \in Elements, HasElement(s, t, e), NotSooner(s, t),
         IsOriginal(e), \A b \in UsedBuffers(e.op) : s.spilled[b] = 0,
         t.spilled = s.spilled,
         \A b \in Buffers : t.producer[b] = IF b \in prog.outs[e.op] THEN e.op ELSE s.producer[b],
         NEW P, Logged(s, P), ComesAfter(s, e, Log(s, P))
  PROVE  Logged(t, P)
<1>1. /\ Log(t, P) = Log(s, P) \cup {EntryOf(e)}
      /\ EntriesOK(t, P) /\ HeapOK(t, P)
  BY EntryAdded
<1>2. UsesOK(t, P)
  <2>1. ASSUME NEW x \in Log(t, P), NEW b \in x.bufs
        PROVE  IF t.spilled[b] = 0 THEN x.end <= t.lastUse[b]
               ELSE \A q \in Queues : \A k \in Instances(q) : x.end <= t.pipelines[q][k]
    <3>1. CASE x \in Log(s, P)
      <4>1. x.end \in Nat /\ b \in Buffers
        BY <3>1, EntryTypes
      <4>2. IF s.spilled[b] = 0 THEN x.end <= s.lastUse[b]
            ELSE \A q \in Queues : \A k \in Instances(q) : x.end <= s.pipelines[q][k]
        BY <3>1 DEF Logged, UsesOK
      <4>3. s.lastUse[b] \in Nat /\ t.lastUse[b] \in Nat /\ s.lastUse[b] <= t.lastUse[b]
        BY <4>1 DEF HasElement, Later, States
      <4>4. \A q \in Queues : \A k \in Instances(q) :
              s.pipelines[q][k] \in Nat /\ t.pipelines[q][k] \in Nat /\ s.pipelines[q][k] <= t.pipelines[q][k]
        BY DEF NotSooner, States, Pipelines, Cycles
      <4> QED BY <4>1, <4>2, <4>3, <4>4
    <3>2. CASE x = EntryOf(e)
      <4>1. x.end = e.end /\ b \in UsedBuffers(e.op)
        BY <3>2, EntryFields
      <4>2. UsedBy(e) = UsedBuffers(e.op) /\ b \in Buffers
        BY <4>1 DEF UsedBy, UsedBuffers, ProgramOK, Elements
      <4>3. e.end <= t.lastUse[b]
        BY <4>1, <4>2 DEF HasElement, Later
      <4> QED BY <4>1, <4>3
    <3> QED BY <3>1, <3>2, <1>1
  <2>2. \A b \in Buffers : t.spilled[b] # 0 => b \in prog.outs[t.spilled[b]]
    BY DEF Logged, UsesOK
  <2>3. \A b \in Buffers : t.producer[b] # 0 => b \in prog.outs[t.producer[b]]
    BY DEF Logged, UsesOK
  <2> QED BY <2>1, <2>2, <2>3 DEF UsesOK
<1> QED BY <1>1, <1>2 DEF Logged

\* The entry of a buffer that is read back.
LEMMA ReadLogged ==
  ASSUME ProgramOK, NEW s \in States, NEW t \in States, NEW e \in Elements, HasElement(s, t, e), NotSooner(s, t),
         e.type = "read", s.spilled[e.buf] = e.op,
         \A b \in Buffers : t.spilled[b] = IF b = e.buf THEN 0 ELSE s.spilled[b],
         \A b \in Buffers : t.producer[b] = IF b = e.buf THEN e.op ELSE s.producer[b],
         NEW P, Logged(s, P), ComesAfter(s, e, Log(s, P))
  PROVE  Logged(t, P)
<1>1. /\ Log(t, P) = Log(s, P) \cup {EntryOf(e)}
      /\ EntriesOK(t, P) /\ HeapOK(t, P)
  BY EntryAdded
<1>3. ~IsOriginal(e) /\ e.buf \in prog.outs[e.op] /\ e.buf \in Buffers /\ UsedBy(e) = {e.buf}
      /\ e.begin \in Nat /\ e.end \in Nat /\ e.begin <= e.end
      /\ \A x \in Log(s, P) : e.buf \in x.bufs => x.end <= e.begin
  <2>1. ~IsOriginal(e) /\ UsedBy(e) = {e.buf}
    BY DEF IsOriginal, UsedBy, WrittenBy
  <2>2. e.buf \in prog.outs[e.op] /\ e.op \in Ops /\ e.end = e.begin + SpillCost(e.buf) /\ e.begin \in Nat
    BY <2>1 DEF ComesAfter, Elements
  <2>3. e.buf \in Buffers /\ SpillCost(e.buf) \in Nat
    BY <2>2 DEF ProgramOK, SpillCost
  <2> QED BY <2>1, <2>2, <2>3 DEF ComesAfter
<1>2. UsesOK(t, P)
  <2>1. ASSUME NEW x \in Log(t, P), NEW b \in x.bufs
        PROVE  IF t.spilled[b] = 0 THEN x.end <= t.lastUse[b]
               ELSE \A q \in Queues : \A k \in Instances(q) : x.end <= t.pipelines[q][k]
    <3>4. t.lastUse[e.buf] \in Nat /\ e.end <= t.lastUse[e.buf] /\ t.spilled[e.buf] = 0
      BY <1>3 DEF HasElement, Later, States
    <3>1. CASE x \in Log(s, P)
      <4>1. x.end \in Nat /\ b \in Buffers
        BY <3>1, EntryTypes
      <4>2. IF s.spilled[b] = 0 THEN x.end <= s.lastUse[b]
            ELSE \A q \in Queues : \A k \in Instances(q) : x.end <= s.pipelines[q][k]
        BY <3>1 DEF Logged, UsesOK
      <4>3. s.lastUse[b] \in Nat /\ t.lastUse[b] \in Nat /\ s.lastUse[b] <= t.lastUse[b]
        BY <4>1 DEF HasElement, Later, States
      <4>4. \A q \in Queues : \A k \in Instances(q) :
              s.pipelines[q][k] \in Nat /\ t.pipelines[q][k] \in Nat /\ s.pipelines[q][k] <= t.pipelines[q][k]
        BY DEF NotSooner, States, Pipelines, Cycles
      <4>5. CASE b = e.buf
        <5>1. x.end <= e.begin
          BY <3>1, <4>5, <1>3
        <5>2. x.end <= t.lastUse[e.buf]
          BY <5>1, <4>1, <3>4, <1>3
        <5> QED BY <4>5, <5>2, <3>4
      <4>6. CASE b # e.buf
        <5>1. t.spilled[b] = s.spilled[b]
          BY <4>1, <4>6
        <5> QED BY <5>1, <4>1, <4>2, <4>3, <4>4
      <4> QED BY <4>5, <4>6
    <3>2. CASE x = EntryOf(e)
      <4>1. x.end = e.end /\ b = e.buf
        BY <3>2, <1>3, EntryFields
      <4> QED BY <4>1, <3>4
    <3> QED BY <3>1, <3>2, <1>1
  <2>2. \A b \in Buffers : t.spilled[b] # 0 => b \in prog.outs[t.spilled[b]]
    BY DEF Logged, UsesOK
  <2>3. \A b \in Buffers : t.producer[b] # 0 => b \in prog.outs[t.producer[b]]
    BY <1>3 DEF Logged, UsesOK
  <2> QED BY <2>1, <2>2, <2>3 DEF UsesOK
<1> QED BY <1>1, <1>2 DEF Logged

\* The entry of a buffer that is written to DDR: no executor is free before it ends.
LEMMA WriteLogged ==
  ASSUME ProgramOK, NEW s \in States, NEW t \in States, NEW e \in Elements, HasElement(s, t, e), NotSooner(s, t),
         e.type = "write", \A q \in Queues : \A k \in Instances(q) : e.end <= t.pipelines[q][k],
         \A b \in Buffers : t.spilled[b] = IF b = e.buf THEN e.op ELSE s.spilled[b],
         \A b \in Buffers : t.producer[b] = s.producer[b],
         NEW P, Logged(s, P), ComesAfter(s, e, Log(s, P))
  PROVE  Logged(t, P)
<1>1. /\ Log(t, P) = Log(s, P) \cup {EntryOf(e)}
      /\ EntriesOK(t, P) /\ HeapOK(t, P)
  BY EntryAdded
<1>3. ~IsOriginal(e) /\ e.buf \in prog.outs[e.op] /\ e.op \in Ops /\ 0 \notin Ops
      /\ e.begin \in Nat /\ e.end \in Nat /\ e.begin <= e.end
      /\ \A x \in Log(s, P) : e.buf \in x.bufs => x.end <= e.begin
  <2>1. ~IsOriginal(e)
    BY DEF IsOriginal
  <2>2. e.buf \in prog.outs[e.op] /\ e.op \in Ops /\ e.end = e.begin + SpillCost(e.buf) /\ e.begin \in Nat
    BY <2>1 DEF ComesAfter, Elements
  <2>3. SpillCost(e.buf) \in Nat /\ 0 \notin Ops
    BY <2>2 DEF ProgramOK, SpillCost
  <2> QED BY <2>1, <2>2, <2>3 DEF ComesAfter
<1>4. \A q \in Queues : \A k \in Instances(q) :
        s.pipelines[q][k] \in Nat /\ t.pipelines[q][k] \in Nat /\ s.pipelines[q][k] <= t.pipelines[q][k]
  BY DEF NotSooner, States, Pipelines, Cycles
<1>2. UsesOK(t, P)
  <2>1. ASSUME NEW x \in Log(t, P), NEW b \in x.bufs
        PROVE  IF t.spilled[b] = 0 THEN x.end <= t.lastUse[b]
               ELSE \A q \in Queues : \A k \in Instances(q) : x.end <= t.pipelines[q][k]
    <3>1. CASE x \in Log(s, P)
      <4>1. x.end \in Nat /\ b \in Buffers
        BY <3>1, EntryTypes
      <4>2. IF s.spilled[b] = 0 THEN x.end <= s.lastUse[b]
            ELSE \A q \in Queues : \A k \in Instances(q) : x.end <= s.pipelines[q][k]
        BY <3>1 DEF Logged, UsesOK
      <4>3. s.lastUse[b] \in Nat /\ t.lastUse[b] \in Nat /\ s.lastUse[b] <= t.lastUse[b]
        BY <4>1 DEF HasElement, Later, States
      <4>5. CASE b = e.buf
        <5>1. x.end <= e.begin
          BY <3>1, <4>5, <1>3
        <5>2. t.spilled[b] # 0
          BY <4>1, <4>5, <1>3
        <5> QED BY <5>1, <5>2, <4>1, <1>3, <1>4
      <4>6. CASE b # e.buf
        <5>1. t.spilled[b] = s.spilled[b]
          BY <4>1, <4>6
        <5> QED BY <5>1, <4>1, <4>2, <4>3, <1>4
      <4> QED BY <4>5, <4>6
    <3>2. CASE x = EntryOf(e)
      <4>4. ~IsOriginal(e)
        BY <1>3
      <4>5. EntryOf(e).end = e.end /\ EntryOf(e).bufs = {e.buf}
        BY <4>4, EntryFields
      <4>1. x.end = e.end /\ b = e.buf
        BY <3>2, <4>5
      <4>2. e.buf \in Buffers
        BY <1>3 DEF ProgramOK
      <4>3. t.spilled[b] # 0
        BY <4>1, <4>2, <1>3
      <4> QED BY <4>1, <4>3
    <3> QED BY <3>1, <3>2, <1>1
  <2>2. \A b \in Buffers : t.spilled[b] # 0 => b \in prog.outs[t.spilled[b]]
    BY <1>3 DEF Logged, UsesOK
  <2>3. \A b \in Buffers : t.producer[b] # 0 => b \in prog.outs[t.producer[b]]
    BY DEF Logged, UsesOK
  <2> QED BY <2>1, <2>2, <2>3 DEF UsesOK
<1> QED BY <1>1, <1>2 DEF Logged

-----------------------------------------------------------------------------
(***************************************************************************)
(* Reading back.                                                           *)
(***************************************************************************)
\* Ascending lists every member once.
LEMMA AscendingSorted ==
  ASSUME NEW S, S \subseteq Nat, IsFiniteSet(S)
  PROVE  /\ Ascending(S) \in Seq(S)
         /\ \A x \in S : \E k \in DOMAIN Ascending(S) : Ascending(S)[k] = x
         /\ \A j, k \in DOMAIN Ascending(S) : Ascending(S)[j] = Ascending(S)[k] => j = k
<1>1. StrictOrder(Below(S), S)
  BY DEF StrictOrder, Below
<1>2. \A x \in S : {y \in S : <<y, x>> \in Below(S)} = {y \in S : y < x}
  BY DEF Below
<1>3. \A x \in S : OrderRank(Below(S), S, x) = Cardinality({y \in S : y < x})
  BY <1>2 DEF OrderRank
<1>4. \A k \in 1 .. Cardinality(S) :
        (CHOOSE x \in S : OrderRank(Below(S), S, x) = k - 1)
        = (CHOOSE x \in S : Cardinality({y \in S : y < x}) = k - 1)
  BY <1>3
<1>5. ByRank(Below(S), S) = Ascending(S)
  BY <1>4 DEF ByRank, Ascending, Sorted
<1> QED BY <1>1, <1>5, ByRankIsSorted

\* The number of consumers that SortUsedBuffers compares.
LEMMA OutDegreeIsNat ==
  ASSUME ProgramOK, NEW b
  PROVE  OutDegree(b) \in Nat
<1> DEFINE S == {i \in Ops : b \in prog.outs[i]}
           f == [i \in S |-> Cardinality(Consumers(i))]
           Mine(g, s) == IF s = {} THEN 0 ELSE Cardinality(Consumers(NextOf(s))) + g[s \ {NextOf(s)}]
           Mines(g) == g = [s \in SUBSET S |-> Mine(g, s)]
<1>1. OutDegree(b) = (CHOOSE g : Mines(g))[S]
  BY DEF OutDegree, MapThenSumSet, MapThenFoldSet, NextOf
<1>2. ASSUME NEW g, NEW s \in SUBSET S PROVE Mine(g, s) = SumStep(f, g, s)
  <2>1. CASE s = {}
    BY <2>1 DEF SumStep
  <2>2. CASE s # {}
    <3>1. NextOf(s) \in S
      BY <2>2, NextOfIsMember
    <3>2. f[NextOf(s)] = Cardinality(Consumers(NextOf(s)))
      BY <3>1
    <3> QED BY <2>2, <3>2 DEF SumStep
  <2> QED BY <2>1, <2>2
<1>3. \A g : Mines(g) <=> SumsSubsets(f, g, S)
  <2> SUFFICES ASSUME NEW g PROVE Mines(g) <=> SumsSubsets(f, g, S)
    OBVIOUS
  <2> HIDE DEF Mine, f, S
  <2>1. [s \in SUBSET S |-> Mine(g, s)] = [s \in SUBSET S |-> SumStep(f, g, s)]
    BY <1>2
  <2> QED BY <2>1 DEF SumsSubsets
<1>4. OutDegree(b) = Sum(f, S)
  <2> HIDE DEF Mines, f, S
  <2> QED BY <1>1, <1>3, SumIsSubsetSums DEF SubsetSums
<1>5. IsFiniteSet(S)
  BY FS_Subset DEF ProgramOK
<1>6. \A i \in S : f[i] \in Nat
  <2> SUFFICES ASSUME NEW i \in S PROVE Cardinality(Consumers(i)) \in Nat
    OBVIOUS
  <2>1. Consumers(i) \subseteq Ops
    BY DEF Consumers
  <2> QED BY <2>1, FS_Subset, FS_CardinalityType DEF ProgramOK
<1> HIDE DEF f, S
<1> QED BY <1>4, <1>5, <1>6, SumOfNaturals

\* SortUsedBuffers lists every buffer once.
LEMMA UsedBuffersSorted ==
  ASSUME ProgramOK, NEW S, S \subseteq Buffers
  PROVE  /\ SortUsedBuffers(S) \in Seq(S)
         /\ \A x \in S : \E k \in DOMAIN SortUsedBuffers(S) : SortUsedBuffers(S)[k] = x
         /\ \A j, k \in DOMAIN SortUsedBuffers(S) : SortUsedBuffers(S)[j] = SortUsedBuffers(S)[k] => j = k
<1>1. StrictOrder(Placement(S), S)
  <2>1. \A x, y \in S : <<x, y>> \in Placement(S) <=>
          \/ OutDegree(x) > OutDegree(y)
          \/ OutDegree(x) = OutDegree(y) /\ prog.size[x] > prog.size[y]
          \/ OutDegree(x) = OutDegree(y) /\ prog.size[x] = prog.size[y] /\ x < y
    BY DEF Placement, PlacedBefore
  <2>2. \A x \in S : OutDegree(x) \in Nat /\ prog.size[x] \in Nat /\ x \in Nat
    BY OutDegreeIsNat DEF ProgramOK
  <2>3. \A x \in S : <<x, x>> \notin Placement(S)
    BY <2>1, <2>2
  <2>4. ASSUME NEW x \in S, NEW y \in S PROVE x = y \/ <<x, y>> \in Placement(S) \/ <<y, x>> \in Placement(S)
    <3>1. /\ OutDegree(x) \in Nat /\ prog.size[x] \in Nat /\ x \in Nat
          /\ OutDegree(y) \in Nat /\ prog.size[y] \in Nat /\ y \in Nat
      BY <2>2
    <3>2. \/ OutDegree(x) > OutDegree(y)
          \/ OutDegree(x) = OutDegree(y) /\ prog.size[x] > prog.size[y]
          \/ OutDegree(x) = OutDegree(y) /\ prog.size[x] = prog.size[y] /\ x < y
          \/ OutDegree(y) > OutDegree(x)
          \/ OutDegree(y) = OutDegree(x) /\ prog.size[y] > prog.size[x]
          \/ OutDegree(y) = OutDegree(x) /\ prog.size[y] = prog.size[x] /\ y < x
          \/ x = y
      BY <3>1
    <3> QED BY <2>1, <3>2
  <2>5. \A x, y, z \in S : <<x, y>> \in Placement(S) /\ <<y, z>> \in Placement(S) => <<x, z>> \in Placement(S)
    BY <2>1, <2>2
  <2> QED BY <2>3, <2>4, <2>5 DEF StrictOrder
<1>2. \A x \in S : {y \in S : <<y, x>> \in Placement(S)} = {y \in S : PlacedBefore(y, x)}
  BY DEF Placement
<1>3. \A x \in S : OrderRank(Placement(S), S, x) = Cardinality({y \in S : PlacedBefore(y, x)})
  BY <1>2 DEF OrderRank
<1>4. \A k \in 1 .. Cardinality(S) :
        (CHOOSE x \in S : OrderRank(Placement(S), S, x) = k - 1)
        = (CHOOSE x \in S : Cardinality({y \in S : PlacedBefore(y, x)}) = k - 1)
  BY <1>3
<1>5. ByRank(Placement(S), S) = SortUsedBuffers(S)
  <2>1. SortUsedBuffers(S) =
          [k \in 1 .. Cardinality(S) |-> CHOOSE x \in S : Cardinality({y \in S : PlacedBefore(y, x)}) = k - 1]
    BY DEF SortUsedBuffers, Sorted
  <2>2. ByRank(Placement(S), S) =
          [k \in 1 .. Cardinality(S) |-> CHOOSE x \in S : OrderRank(Placement(S), S, x) = k - 1]
    BY DEF ByRank
  <2> QED BY <1>4, <2>1, <2>2
<1>6. IsFiniteSet(S)
  BY FS_Subset DEF ProgramOK
<1> QED BY <1>1, <1>5, <1>6, ByRankIsSorted

-----------------------------------------------------------------------------
(***************************************************************************)
(* What scheduling does to a state: t follows s when the operations in new *)
(* were scheduled.                                                         *)
(***************************************************************************)
\* Nothing scheduled.
LEMMA GrowsReflexive ==
  ASSUME NEW s \in States, Consistent(s), NEW new
  PROVE  Grows(s, s, new)
BY DEF Grows, KeepsLog

\* One thing scheduled after another.
LEMMA GrowsTransitive ==
  ASSUME ProgramOK, NEW s, NEW t, NEW u, NEW new \in SUBSET Ops, NEW more \in SUBSET Ops, new \cap more = {},
         Grows(s, t, new), Grows(t, u, more)
  PROVE  Grows(s, u, new \cup more)
<1>1. /\ \A b \in Buffers : u.spilled[b] = s.spilled[b] \/ u.spilled[b] = 0
      /\ \A b \in Buffers : s.producer[b] # 0 => u.producer[b] # 0
      /\ s.alive \subseteq u.alive /\ u.readyData \subseteq s.readyData
  BY DEF Grows
<1>2. /\ \A i \in Ops : IsScheduled(s, i) => IsScheduled(u, i)
      /\ \A i \in Ops : IsScheduled(u, i) => IsScheduled(s, i) \/ i \in new \cup more
  BY DEF Grows
<1>3. /\ s.beginHeap \subseteq u.beginHeap
      /\ \A e \in u.beginHeap \ s.beginHeap : e.type # "write" /\ (IsOriginal(e) => e.op \in new \cup more)
  BY DEF Grows
<1>4. /\ u \in States /\ Consistent(u) /\ u.gaps = s.gaps /\ u.addr = s.addr /\ u.readyCompute = s.readyCompute
      /\ \A saved : DeltasFit(saved, s) => DeltasFit(saved, u)
  BY DEF Grows
<1>5. ASSUME NEW P, Logged(s, P), Schedulable(s, new \cup more) PROVE Logged(u, P)
  <2>1. /\ \A i \in Ops : IsScheduled(s, i) => IsScheduled(t, i)
        /\ \A i \in Ops : IsScheduled(t, i) => IsScheduled(s, i) \/ i \in new
        /\ KeepsLog(s, t, new) /\ KeepsLog(t, u, more)
    BY DEF Grows
  <2>2. Schedulable(s, new)
    BY <1>5 DEF Schedulable
  <2>3. Schedulable(t, more)
    <3>1. \A j \in more : Deps(j) \subseteq Ops
      BY DEF Deps, ProgramOK
    <3> QED BY <1>5, <2>1, <3>1 DEF Schedulable
  <2> QED BY <1>5, <2>1, <2>2, <2>3 DEF KeepsLog
<1>6. KeepsLog(s, u, new \cup more)
  BY <1>5 DEF KeepsLog
<1> QED BY <1>1, <1>2, <1>3, <1>4, <1>6 DEF Grows

\* Reading back schedules no operation.
LEMMA GrowsWithReads ==
  ASSUME ProgramOK, NEW s, NEW t, NEW u, NEW new \in SUBSET Ops, Grows(s, t, new), Grows(t, u, {})
  PROVE  Grows(s, u, new)
<1>1. new \cup {} = new /\ new \cap {} = {} /\ {} \in SUBSET Ops
  OBVIOUS
<1>2. Grows(s, u, new \cup {})
  BY <1>1, GrowsTransitive
<1> QED BY <1>1, <1>2

\* The same log in another state.
LEMMA SameLogged ==
  ASSUME NEW s, NEW t, t.beginHeap = s.beginHeap, t.opEnd = s.opEnd, t.lastUse = s.lastUse,
         t.pipelines = s.pipelines, t.spilled = s.spilled, t.producer = s.producer, NEW P, Logged(s, P)
  PROVE  Logged(t, P)
BY DEF Logged, EntriesOK, UsesOK, HeapOK, Log, IsScheduled

\* A buffer is read back: it is alive again and its producer is set.
LEMMA SpillReadGrows ==
  ASSUME ProgramOK, NEW s \in States, Consistent(s), NEW b \in Buffers, s.spilled[b] # 0,
         NEW t, t = ScheduleSpillRead(s, b)
  PROVE  /\ Grows(s, t, {})
         /\ t.alive = s.alive \cup {b} /\ t.readyData = s.readyData
         /\ t.spilled = [s.spilled EXCEPT ![b] = 0]
<1> DEFINE ports == Ports(s, "DMA_DDR", {b})
           begin == PortsFree(s, "DMA_DDR", ports)
           e == Element(s.spilled[b], "read", "DMA_DDR", ports, begin, SpillCost(b), b)
           back == [s EXCEPT !.spilled[b] = 0, !.alive = @ \cup {b}]
<1>1. t = Push(back, e)
  BY DEF ScheduleSpillRead
<1>2. /\ s.alive \in SUBSET Buffers /\ s.spilled \in [Buffers -> Ops \cup {0}]
      /\ s.beginHeap \in Heaps
      /\ s = Fields(s)
  BY StateFields DEF States
<1>3. "DMA_DDR" \in Queues
  BY DEF Queues, DMAQueues
<1>4. /\ ports \subseteq Instances("DMA_DDR") /\ ports \subseteq 1 .. prog.ports /\ begin \in Cycles
      /\ ports # {} /\ \A k \in ports : s.pipelines["DMA_DDR"][k] <= begin
  BY <1>3, PortsOfQueue
<1> HIDE DEF ports, begin
<1>5. back = [gaps |-> s.gaps, addr |-> s.addr, alive |-> s.alive \cup {b}, spilled |-> [s.spilled EXCEPT ![b] = 0],
              pipelines |-> s.pipelines, beginHeap |-> s.beginHeap, readyCompute |-> s.readyCompute,
              readyData |-> s.readyData, producer |-> s.producer, lastUse |-> s.lastUse,
              opEnd |-> s.opEnd, deltas |-> s.deltas]
  <2> DEFINE r == Fields(s)
  <2>1. s = r
    BY <1>2
  <2>2. back = [r EXCEPT !.spilled = [s.spilled EXCEPT ![b] = 0], !.alive = s.alive \cup {b}]
    BY <2>1
  <2> HIDE DEF back
  <2> QED BY <2>2 DEF Fields
<1>6. back \in States
  BY <1>2, <1>5 DEF States
<1>7. e \in Elements /\ e.end \in Cycles /\ e.type = "read" /\ e.buf = b /\ e.op = s.spilled[b]
      /\ e.queue = "DMA_DDR" /\ e.ports = ports /\ e.begin = begin /\ e.end = begin + SpillCost(b)
  <2>1. prog.size[b] \in Nat \ {0} /\ begin \in Nat \ {0}
    BY <1>4 DEF ProgramOK, Cycles
  <2>2. begin + SpillCost(b) \in Cycles /\ begin + SpillCost(b) \in Nat /\ begin \in Nat
    BY <2>1 DEF Cycles, SpillCost
  <2>3. s.spilled[b] \in Ops
    BY <1>2
  <2> QED BY <1>3, <1>4, <2>2, <2>3 DEF Element, Elements
<1> HIDE DEF e, back
<1>8. /\ t \in States
      /\ t.gaps = back.gaps /\ t.addr = back.addr /\ t.alive = back.alive /\ t.spilled = back.spilled
      /\ t.beginHeap = back.beginHeap \cup {e}
      /\ t.readyCompute = back.readyCompute /\ t.readyData = back.readyData
      /\ t.producer = [c \in Buffers |-> IF c \in WrittenBy(e) THEN e.op ELSE back.producer[c]]
      /\ \A i \in Ops : IsScheduled(t, i) <=> IsScheduled(back, i) \/ i = e.op
      /\ \A saved : DeltasFit(saved, back) => DeltasFit(saved, t)
      /\ Later(back, t, e)
  BY <1>1, <1>4, <1>6, <1>7, PushFields
<1>9. WrittenBy(e) = {b} /\ ~IsOriginal(e)
  BY <1>7 DEF WrittenBy, IsOriginal
<1>10. \A i \in Ops : IsScheduled(t, i) <=> IsScheduled(s, i)
  <2>1. IsScheduled(s, s.spilled[b])
    BY DEF Consistent
  <2> QED BY <1>5, <1>7, <1>8, <2>1 DEF IsScheduled
<1>11. \A c \in Buffers : t.producer[c] = IF c = b THEN s.spilled[b] ELSE s.producer[c]
  BY <1>5, <1>7, <1>8, <1>9
<1>12. \A c \in Buffers : t.spilled[c] = IF c = b THEN 0 ELSE s.spilled[c]
  BY <1>2, <1>5, <1>8
<1>13. t.alive = s.alive \cup {b} /\ t.beginHeap = s.beginHeap \cup {e}
  BY <1>5, <1>8
<1>14. Consistent(t)
  <2>1. s.producer \in [Buffers -> Ops \cup {0}] /\ s.alive \subseteq Buffers
    BY DEF States
  <2>2. \A c \in Buffers : t.producer[c] # 0 => IsScheduled(t, t.producer[c])
    BY <2>1, <1>2, <1>10, <1>11 DEF Consistent
  <2>3. \A c \in Buffers : t.spilled[c] # 0 => IsScheduled(t, t.spilled[c])
    BY <1>2, <1>10, <1>12 DEF Consistent
  <2>4. \A i \in Ops : IsScheduled(t, i) => \A c \in prog.outs[i] : t.producer[c] # 0
    BY <1>10, <1>11 DEF Consistent, ProgramOK
  <2>5. \A c \in t.alive : t.spilled[c] = 0
    BY <2>1, <1>12, <1>13 DEF Consistent
  <2>6. \A f \in t.beginHeap : IsOriginal(f) => IsScheduled(t, f.op)
    BY <1>2, <1>9, <1>10, <1>13 DEF Consistent, Heaps, Elements
  <2> QED BY <2>2, <2>3, <2>4, <2>5, <2>6 DEF Consistent
<1>15. \A saved : DeltasFit(saved, s) => DeltasFit(saved, t)
  BY <1>5, <1>8 DEF DeltasFit
<1>17. ASSUME NEW P, Logged(s, P) PROVE Logged(t, P)
  <2>1. HasElement(s, t, e)
    BY <1>5, <1>8, <1>13 DEF HasElement, Later, IsScheduled, NotSooner
  <2>2. begin \in Nat /\ SpillCost(b) \in Nat
    BY <1>4 DEF Cycles, SpillCost, ProgramOK
  <2>3. /\ \A q \in Queues : \A k \in Instances(q) : s.pipelines[q][k] \in Nat
        /\ \A k \in ports : s.pipelines["DMA_DDR"][k] \in Nat
    BY <1>3, <1>4 DEF States, Pipelines, Cycles
  <2>4. \A k \in ports : s.pipelines["DMA_DDR"][k] <= begin + SpillCost(b)
    BY <1>4, <2>2, <2>3
  <2>5. NotSooner(s, t)
    BY <1>5, <1>7, <1>8, <2>4 DEF Later, NotSooner
  <2>6. b \in prog.outs[s.spilled[b]] /\ IsScheduled(s, s.spilled[b])
    BY <1>17 DEF Logged, UsesOK, Consistent
  <2>7. ASSUME NEW x \in Log(s, P), b \in x.bufs PROVE x.end <= begin
    <3>1. PICK k : k \in ports
      BY <1>4
    <3>2. x.end <= s.pipelines["DMA_DDR"][k]
      BY <1>3, <1>4, <1>17, <2>7, <3>1 DEF Logged, UsesOK
    <3>3. x.end \in Nat
      BY <1>17, EntryTypes
    <3> QED BY <1>4, <2>2, <2>3, <3>1, <3>2, <3>3
  <2>8. ComesAfter(s, e, Log(s, P))
    BY <1>7, <1>9, <2>6, <2>7 DEF ComesAfter
  <2>9. s.spilled[e.buf] = e.op
    BY <1>7
  <2>10. \A c \in Buffers : t.spilled[c] = IF c = e.buf THEN 0 ELSE s.spilled[c]
    BY <1>7, <1>12
  <2>11. \A c \in Buffers : t.producer[c] = IF c = e.buf THEN e.op ELSE s.producer[c]
    BY <1>7, <1>11
  <2> QED BY <1>7, <1>8, <1>17, <2>1, <2>5, <2>8, <2>9, <2>10, <2>11, ReadLogged
<1>18. KeepsLog(s, t, {})
  BY <1>17 DEF KeepsLog
<1>16. Grows(s, t, {})
  <2>1. e.type # "write"
    BY <1>7
  <2>2. t.gaps = s.gaps /\ t.addr = s.addr /\ t.readyCompute = s.readyCompute /\ t.readyData = s.readyData
    BY <1>5, <1>8
  <2>3. \A c \in Buffers : s.producer[c] # 0 => t.producer[c] # 0
    BY <1>11
  <2> QED BY <1>8, <1>9, <1>10, <1>12, <1>13, <1>14, <1>15, <1>18, <2>1, <2>2, <2>3 DEF Grows
<1> QED BY <1>5, <1>8, <1>13, <1>16

\* A buffer that was not spilled becomes alive.
LEMMA AliveGrows ==
  ASSUME NEW s \in States, Consistent(s), NEW b \in Buffers, s.spilled[b] = 0,
         NEW t, t = [s EXCEPT !.alive = @ \cup {b}]
  PROVE  Grows(s, t, {}) /\ t.alive = s.alive \cup {b} /\ t.readyData = s.readyData
<1>1. t = [gaps |-> s.gaps, addr |-> s.addr, alive |-> s.alive \cup {b}, spilled |-> s.spilled,
           pipelines |-> s.pipelines, beginHeap |-> s.beginHeap, readyCompute |-> s.readyCompute,
           readyData |-> s.readyData, producer |-> s.producer, lastUse |-> s.lastUse,
           opEnd |-> s.opEnd, deltas |-> s.deltas]
  <2> DEFINE r == Fields(s)
  <2>1. s = r
    BY StateFields
  <2>2. t = [r EXCEPT !.alive = s.alive \cup {b}]
    BY <2>1
  <2> QED BY <2>2 DEF Fields
<1>2. t \in States
  <2>1. s.alive \cup {b} \in SUBSET Buffers
    BY DEF States
  <2> QED BY <1>1, <2>1 DEF States
<1>3. Consistent(t)
  BY <1>1 DEF Consistent, IsScheduled
<1>4. \A i \in Ops : IsScheduled(t, i) <=> IsScheduled(s, i)
  BY <1>1 DEF IsScheduled
<1>5. \A saved : DeltasFit(saved, s) => DeltasFit(saved, t)
  BY <1>1 DEF DeltasFit
<1>6. KeepsLog(s, t, {})
  BY <1>1, SameLogged DEF KeepsLog
<1> QED BY <1>1, <1>2, <1>3, <1>4, <1>5, <1>6 DEF Grows

\* Reviving the buffers of an operation brings back what was spilled.
LEMMA ReviveGrows ==
  ASSUME ProgramOK, NEW s \in States, Consistent(s), NEW i \in Ops, NEW t, t = ReviveBuffers(s, i)
  PROVE  /\ Grows(s, t, {})
         /\ t.alive = s.alive \cup UsedBuffers(i) /\ t.readyData = s.readyData
<1> DEFINE seq == Ascending(NonAlive(s, i))
           D == DOMAIN seq
           V == {v \in States : Consistent(v)}
           Op(acc, b) == IF acc.spilled[b] # 0 THEN ScheduleSpillRead(acc, b)
                         ELSE [acc EXCEPT !.alive = @ \cup {b}]
           step == [p \in V \X Buffers |-> Op(p[1], p[2])]
           W == [p \in SUBSET D |-> {v \in V : /\ Grows(s, v, {})
                                                /\ v.alive = s.alive \cup {seq[k] : k \in p}
                                                /\ v.readyData = s.readyData}]
           P(jt) == jt = [p \in SUBSET D |-> IF p = {} THEN s ELSE Op(jt[p \ {Max(p)}], seq[Max(p)])]
<1>1. NonAlive(s, i) \subseteq Buffers
  BY DEF NonAlive, UsedBuffers, ProgramOK
<1>2. seq \in Seq(NonAlive(s, i)) /\ \A b \in NonAlive(s, i) : \E k \in D : seq[k] = b
  <2>1. NonAlive(s, i) \subseteq Nat /\ IsFiniteSet(NonAlive(s, i))
    BY <1>1, FS_Subset DEF ProgramOK
  <2> QED BY <2>1, AscendingSorted
<1>3. seq \in Seq(Buffers) /\ \A k \in D : seq[k] \in NonAlive(s, i)
  BY <1>1, <1>2, ElementOfSeq
<1> HIDE DEF seq
<1>4. ASSUME NEW v \in V, NEW b \in Buffers
      PROVE  /\ Op(v, b) \in V /\ Grows(v, Op(v, b), {}) /\ Op(v, b).alive = v.alive \cup {b}
             /\ Op(v, b).readyData = v.readyData
  <2>1. CASE v.spilled[b] # 0
    <3>1. Op(v, b) = ScheduleSpillRead(v, b) /\ v \in States /\ Consistent(v)
      BY <2>1
    <3> HIDE DEF Op, V
    <3>2. /\ Grows(v, Op(v, b), {}) /\ Op(v, b).alive = v.alive \cup {b}
          /\ Op(v, b).readyData = v.readyData
      <4> DEFINE u == Op(v, b)
      <4>1. u = ScheduleSpillRead(v, b)
        BY <3>1
      <4> HIDE DEF u
      <4>2. Grows(v, u, {}) /\ u.alive = v.alive \cup {b} /\ u.readyData = v.readyData
        BY <2>1, <3>1, <4>1, SpillReadGrows, ZenonT(60)
      <4> QED BY <4>2 DEF u
    <3> QED BY <3>2 DEF Grows, V
  <2>2. CASE v.spilled[b] = 0
    <3>1. Op(v, b) = [v EXCEPT !.alive = @ \cup {b}] /\ v \in States /\ Consistent(v)
      BY <2>2
    <3> HIDE DEF Op, V
    <3>2. /\ Grows(v, Op(v, b), {}) /\ Op(v, b).alive = v.alive \cup {b}
          /\ Op(v, b).readyData = v.readyData
      BY <2>2, <3>1, AliveGrows
    <3> QED BY <3>2 DEF Grows, V
  <2> QED BY <2>1, <2>2
<1> HIDE DEF Op
<1>5. step \in [V \X Buffers -> V]
  BY <1>4
<1>6. FoldStays(V, W, step, s, seq)
  <2>1. s \in V /\ s \in W[{}]
    <3>1. Grows(s, s, {})
      BY GrowsReflexive
    <3> QED BY <3>1
  <2>2. ASSUME NEW p \in SUBSET D, p # {}, NEW v \in V, v \in W[p \ {Max(p)}]
        PROVE  step[<<v, seq[Max(p)]>>] \in W[p]
    <3>1. Max(p) \in p /\ p \ {Max(p)} \in SUBSET D
      BY <2>2, <1>3, MaxOfPositions
    <3>2. seq[Max(p)] \in Buffers /\ step[<<v, seq[Max(p)]>>] = Op(v, seq[Max(p)])
      BY <1>1, <1>3, <3>1
    <3>3. v \in V /\ Grows(s, v, {}) /\ v.alive = s.alive \cup {seq[k] : k \in p \ {Max(p)}}
          /\ v.readyData = s.readyData
      BY <2>2, <3>1
    <3>4. Grows(s, Op(v, seq[Max(p)]), {})
      <4>1. Grows(s, v, {}) /\ Grows(v, Op(v, seq[Max(p)]), {}) /\ {} \in SUBSET Ops
        BY <1>4, <3>2, <3>3
      <4> QED BY <4>1, GrowsWithReads
    <3>5. {seq[k] : k \in p} = {seq[k] : k \in p \ {Max(p)}} \cup {seq[Max(p)]}
      BY <3>1
    <3> HIDE DEF step, V
    <3> QED BY <1>4, <3>2, <3>3, <3>4, <3>5
  <2> QED BY <2>1, <2>2 DEF FoldStays
<1>7. PICK it \in [SUBSET D -> V] : FoldSolution(W, step, s, seq, it)
  BY <1>3, <1>5, <1>6, FoldWithin
<1>8. t = (CHOOSE jt : P(jt))[D]
  BY DEF ReviveBuffers, FoldLeft, MapThenFoldSet, Op, seq
<1>9. P(it)
  <2>1. ASSUME NEW p \in SUBSET D
        PROVE  it[p] = IF p = {} THEN s ELSE Op(it[p \ {Max(p)}], seq[Max(p)])
    <3>1. CASE p = {}
      BY <1>7, <3>1 DEF FoldSolution, FoldEquation
    <3>2. CASE p # {}
      <4>1. Max(p) \in p /\ p \ {Max(p)} \in SUBSET D
        BY <3>2, <1>3, MaxOfPositions
      <4>2. it[p] = step[<<it[p \ {Max(p)}], seq[Max(p)]>>]
        BY <1>7, <3>2 DEF FoldSolution, FoldEquation
      <4>3. it[p \ {Max(p)}] \in V /\ seq[Max(p)] \in Buffers
        BY <4>1, <1>1, <1>3
      <4> HIDE DEF V
      <4> QED BY <3>2, <4>2, <4>3
    <3> QED BY <3>1, <3>2
  <2> HIDE DEF step, V
  <2> QED BY <2>1
<1>10. \A jt : P(jt) => jt[D] = it[D]
  <2> SUFFICES ASSUME NEW jt, P(jt) PROVE jt[D] = it[D]
    OBVIOUS
  <2>1. jt[{}] = s
    OBVIOUS
  <2>2. ASSUME NEW p \in SUBSET D, p # {}, jt[p \ {Max(p)}] = it[p \ {Max(p)}]
        PROVE  FoldEquation(step, s, seq, jt, p)
    <3>1. Max(p) \in p /\ p \ {Max(p)} \in SUBSET D
      BY <2>2, <1>3, MaxOfPositions
    <3>2. it[p \ {Max(p)}] \in V /\ seq[Max(p)] \in Buffers
      BY <3>1, <1>1, <1>3
    <3>3. jt[p] = Op(jt[p \ {Max(p)}], seq[Max(p)])
      BY <2>2
    <3> HIDE DEF V
    <3> QED BY <2>2, <3>2, <3>3 DEF FoldEquation
  <2> QED BY <1>7, <2>1, <2>2 DEF FoldSolution
<1> HIDE DEF P
<1>11. t = it[D]
  BY <1>8, <1>9, <1>10
<1>12. it[D] \in W[D]
  BY <1>7 DEF FoldSolution
<1>13. {seq[k] : k \in D} = NonAlive(s, i)
  BY <1>2, <1>3
<1> QED BY <1>11, <1>12, <1>13 DEF NonAlive

-----------------------------------------------------------------------------
(***************************************************************************)
(* An operation goes into the heap.                                        *)
(***************************************************************************)
\* Waiting for more only makes a cycle later.
LEMMA MaxWithCycle ==
  ASSUME NEW c \in Cycles, NEW S, IsFiniteSet(S), NEW f, \A x \in S : f[x] \in Nat,
         NEW max, max = Max({c} \cup {f[x] : x \in S})
  PROVE  max \in Cycles /\ c <= max /\ \A x \in S : f[x] <= max
<1> DEFINE A == {c} \cup {f[x] : x \in S}
<1>1. A \subseteq Nat /\ c \in A /\ c \in Nat /\ c > 0 /\ \A x \in S : f[x] \in A
  BY DEF Cycles
<1>2. IsFiniteSet(A)
  <2>1. IsFiniteSet({f[x] : x \in S})
    BY ValuesAreFinite
  <2>2. A = {f[x] : x \in S} \cup {c}
    OBVIOUS
  <2> QED BY <2>1, <2>2, FS_AddElement
<1>5. max = Max(A)
  OBVIOUS
<1> HIDE DEF A
<1>3. max \in A /\ max \in Nat /\ \A a \in A : a <= max
  BY <1>1, <1>2, <1>5, MaxOfNaturals
<1>4. max \in Cycles
  BY <1>1, <1>3 DEF Cycles
<1> QED BY <1>1, <1>3, <1>4

\* The cycles that an operation may begin at.
LEMMA BeginIsCycle ==
  ASSUME ProgramOK, NEW s \in States, NEW i \in Ops
  PROVE  /\ CurrentCycle(s, i) \in Cycles /\ EarliestBegin(s, i) \in Cycles
         /\ PortsFree(s, prog.queue[i], OpPorts(s, i)) <= EarliestBegin(s, i)
         /\ \A d \in Deps(i) : s.opEnd[d] <= EarliestBegin(s, i)
<1>1. PortsFree(s, prog.queue[i], OpPorts(s, i)) \in Cycles
  BY PortsOfQueue DEF OpPorts, ProgramOK
<1>2. s.opEnd \in [Ops -> Nat] /\ s.producer \in [Buffers -> Ops \cup {0}]
  BY DEF States
<1>3. Deps(i) \subseteq Ops /\ IsFiniteSet(Deps(i))
  BY FS_Subset DEF ProgramOK, Deps
<1>4. /\ CurrentCycle(s, i) \in Cycles
      /\ PortsFree(s, prog.queue[i], OpPorts(s, i)) <= CurrentCycle(s, i)
      /\ \A d \in Deps(i) : s.opEnd[d] <= CurrentCycle(s, i)
  <2>1. \A d \in Deps(i) : s.opEnd[d] \in Nat
    BY <1>2, <1>3
  <2>2. CurrentCycle(s, i)
        = Max({PortsFree(s, prog.queue[i], OpPorts(s, i))} \cup {s.opEnd[d] : d \in Deps(i)})
    BY DEF CurrentCycle
  <2> QED BY <1>1, <1>3, <2>1, <2>2, MaxWithCycle
<1>5. EarliestBegin(s, i) \in Cycles /\ CurrentCycle(s, i) <= EarliestBegin(s, i)
  <2> DEFINE T == {b \in UsedBuffers(i) : s.producer[b] # 0}
             f == [b \in T |-> s.opEnd[s.producer[b]]]
  <2>1. T \subseteq Buffers
    BY DEF UsedBuffers, ProgramOK
  <2>2. IsFiniteSet(T)
    BY <2>1, FS_Subset DEF ProgramOK
  <2>3. \A b \in T : f[b] \in Nat
    BY <1>2, <2>1
  <2>4. {s.opEnd[s.producer[b]] : b \in T} = {f[b] : b \in T}
    OBVIOUS
  <2>5. EarliestBegin(s, i) = Max({CurrentCycle(s, i)} \cup {f[b] : b \in T})
    BY <2>4 DEF EarliestBegin
  <2> HIDE DEF T, f
  <2> QED BY <1>4, <2>2, <2>3, <2>5, MaxWithCycle
<1>6. \A d \in Deps(i) : s.opEnd[d] \in Nat
  BY <1>2, <1>3
<1> QED BY <1>1, <1>4, <1>5, <1>6 DEF Cycles

\* pushToCycleBeginHeap schedules the operation.
LEMMA PushOpGrows ==
  ASSUME ProgramOK, NEW s \in States, Consistent(s), NEW i \in Ops, NEW type \in {"original", "prefetched"},
         UsedBuffers(i) \subseteq s.alive, NEW t, t = PushOp(s, i, type)
  PROVE  /\ Grows(s, t, {i})
         /\ PushesOne(s, t) /\ IsScheduled(t, i)
<1> DEFINE ports == OpPorts(s, i)
           begin == EarliestBegin(s, i)
           e == Element(i, type, prog.queue[i], ports, begin, Cost(i), NoBuffer)
<1>1. t = Push(s, e)
  BY DEF PushOp
<1>2. prog.queue[i] \in Queues
  BY DEF ProgramOK
<1>3. ports \subseteq Instances(prog.queue[i]) /\ ports \subseteq 1 .. prog.ports /\ begin \in Cycles
  BY <1>2, PortsOfQueue, BeginIsCycle DEF OpPorts
<1>12. \A d \in Deps(i) : s.opEnd[d] <= begin
  BY BeginIsCycle
<1>13. \A k \in ports : s.pipelines[prog.queue[i]][k] <= begin
  <2> SUFFICES ASSUME NEW k \in ports PROVE s.pipelines[prog.queue[i]][k] <= begin
    OBVIOUS
  <2> DEFINE free == PortsFree(s, prog.queue[i], ports)
  <2>1. free \in Cycles /\ s.pipelines[prog.queue[i]][k] <= free
    BY <1>2, PortsOfQueue DEF OpPorts
  <2>2. free <= begin
    BY BeginIsCycle
  <2>3. s.pipelines[prog.queue[i]][k] \in Cycles
    BY <1>2, <1>3 DEF States, Pipelines
  <2> HIDE DEF free, ports, begin
  <2> QED BY <1>3, <2>1, <2>2, <2>3 DEF Cycles
<1> HIDE DEF ports, begin
<1>4. e \in Elements /\ e.end \in Cycles /\ e.type = type /\ e.op = i
      /\ e.queue = prog.queue[i] /\ e.ports = ports
      /\ e.begin = begin /\ e.end = begin + Cost(i) /\ e.buf = NoBuffer
  <2>1. prog.cost[i] \in Nat /\ begin \in Nat \ {0}
    BY <1>3 DEF ProgramOK, Cycles
  <2>2. begin + Cost(i) \in Cycles /\ begin + Cost(i) \in Nat /\ begin \in Nat
    BY <2>1 DEF Cycles, Cost
  <2> QED BY <1>2, <1>3, <2>2 DEF Element, Elements, NoBuffer
<1> HIDE DEF e
<1>5. /\ t \in States
      /\ t.gaps = s.gaps /\ t.addr = s.addr /\ t.alive = s.alive /\ t.spilled = s.spilled
      /\ t.beginHeap = s.beginHeap \cup {e}
      /\ t.readyCompute = s.readyCompute /\ t.readyData = s.readyData
      /\ t.producer = [c \in Buffers |-> IF c \in WrittenBy(e) THEN e.op ELSE s.producer[c]]
      /\ \A j \in Ops : IsScheduled(t, j) <=> IsScheduled(s, j) \/ j = e.op
      /\ \A saved : DeltasFit(saved, s) => DeltasFit(saved, t)
      /\ Later(s, t, e)
  BY <1>1, <1>3, <1>4, PushFields
<1>6. IsOriginal(e) /\ WrittenBy(e) = prog.outs[i] /\ e.type # "write" /\ e.op = i
  BY <1>4 DEF WrittenBy, IsOriginal
<1>7. \A c \in Buffers : t.producer[c] = IF c \in prog.outs[i] THEN i ELSE s.producer[c]
  BY <1>5, <1>6
<1>8. \A j \in Ops : IsScheduled(t, j) <=> IsScheduled(s, j) \/ j = i
  BY <1>5, <1>6
<1>9. i # 0 /\ s.producer \in [Buffers -> Ops \cup {0}] /\ s.alive \subseteq Buffers
      /\ s.spilled \in [Buffers -> Ops \cup {0}] /\ s.beginHeap \in Heaps
  BY DEF States, ProgramOK
<1>10. Consistent(t)
  <2>1. \A c \in Buffers : t.producer[c] # 0 => IsScheduled(t, t.producer[c])
    BY <1>7, <1>8, <1>9 DEF Consistent
  <2>2. \A c \in Buffers : t.spilled[c] # 0 => IsScheduled(t, t.spilled[c])
    BY <1>5, <1>8, <1>9 DEF Consistent
  <2>3. \A j \in Ops : IsScheduled(t, j) => \A c \in prog.outs[j] : t.producer[c] # 0
    BY <1>7, <1>8, <1>9 DEF Consistent, ProgramOK
  <2>4. \A c \in t.alive : t.spilled[c] = 0
    BY <1>5 DEF Consistent
  <2>5. \A f \in t.beginHeap : IsOriginal(f) => IsScheduled(t, f.op)
    BY <1>5, <1>6, <1>8, <1>9 DEF Consistent, Heaps, Elements
  <2> QED BY <2>3, <2>4, <2>5, <2>1, <2>2 DEF Consistent
<1>14. ASSUME NEW P, Logged(s, P), Schedulable(s, {i}) PROVE Logged(t, P)
  <2>1. HasElement(s, t, e)
    BY <1>5 DEF HasElement
  <2>2. NotSooner(s, t)
    <3>1. begin \in Nat /\ Cost(i) \in Nat
      BY <1>3 DEF Cycles, Cost, ProgramOK
    <3>2. \A k \in ports : s.pipelines[prog.queue[i]][k] \in Nat
      BY <1>2, <1>3 DEF States, Pipelines, Cycles
    <3>3. \A k \in e.ports : s.pipelines[e.queue][k] <= e.end
      BY <1>4, <1>13, <3>1, <3>2
    <3> QED BY <1>5, <3>3 DEF Later
  <2>3. \A b \in UsedBuffers(e.op) : s.spilled[b] = 0
    BY <1>6 DEF Consistent
  <2>4. ComesAfter(s, e, Log(s, P))
    BY <1>4, <1>6, <1>12, <1>14 DEF ComesAfter, Schedulable
  <2>5. \A b \in Buffers : t.producer[b] = IF b \in prog.outs[e.op] THEN e.op ELSE s.producer[b]
    BY <1>6, <1>7
  <2> QED BY <1>4, <1>5, <1>6, <1>14, <2>3, <2>4, <2>5, <2>1, <2>2, OriginalLogged
<1>15. KeepsLog(s, t, {i})
  BY <1>14 DEF KeepsLog
<1>11. Grows(s, t, {i})
  <2>1. \A c \in Buffers : s.producer[c] # 0 => t.producer[c] # 0
    BY <1>7, <1>9
  <2> QED BY <1>5, <1>6, <1>8, <1>10, <1>15, <2>1 DEF Grows
<1> QED BY <1>5, <1>6, <1>8, <1>11 DEF PushesOne

\* scheduleDataOp schedules the data operation and brings its buffers to life.
LEMMA DataOpGrows ==
  ASSUME ProgramOK, NEW s \in States, Consistent(s), NEW d \in Ops, NEW type \in {"original", "prefetched"},
         NEW t, t = ScheduleDataOp(s, d, type)
  PROVE  /\ Grows(s, t, {d})
         /\ t.alive = s.alive \cup UsedBuffers(d) /\ t.readyData = s.readyData \ {d} /\ IsScheduled(t, d)
<1>1. PICK u : u = ReviveBuffers(s, d)
  OBVIOUS
<1>2. PICK v : v = PushOp(u, d, type)
  OBVIOUS
<1>3. Grows(s, u, {}) /\ u.alive = s.alive \cup UsedBuffers(d) /\ u.readyData = s.readyData
  BY <1>1, ReviveGrows
<1>4. u \in States /\ Consistent(u)
  BY <1>3 DEF Grows
<1>5. Grows(u, v, {d}) /\ v.alive = u.alive /\ v.readyData = u.readyData /\ IsScheduled(v, d)
  <2>1. Grows(u, v, {d}) /\ PushesOne(u, v) /\ IsScheduled(v, d)
    BY <1>2, <1>3, <1>4, PushOpGrows
  <2> QED BY <2>1 DEF PushesOne
<1>6. v \in States /\ Consistent(v)
  BY <1>5 DEF Grows
<1>7. t = [gaps |-> v.gaps, addr |-> v.addr, alive |-> v.alive, spilled |-> v.spilled,
           pipelines |-> v.pipelines, beginHeap |-> v.beginHeap, readyCompute |-> v.readyCompute,
           readyData |-> v.readyData \ {d}, producer |-> v.producer, lastUse |-> v.lastUse,
           opEnd |-> v.opEnd, deltas |-> v.deltas]
  <2> DEFINE r == [gaps |-> v.gaps, addr |-> v.addr, alive |-> v.alive, spilled |-> v.spilled,
                   pipelines |-> v.pipelines, beginHeap |-> v.beginHeap, readyCompute |-> v.readyCompute,
                   readyData |-> v.readyData, producer |-> v.producer, lastUse |-> v.lastUse,
                   opEnd |-> v.opEnd, deltas |-> v.deltas]
  <2>1. v = r
    BY <1>6 DEF States
  <2>2. t = [v EXCEPT !.readyData = v.readyData \ {d}]
    BY <1>1, <1>2 DEF ScheduleDataOp
  <2>3. t = [r EXCEPT !.readyData = v.readyData \ {d}]
    BY <2>1, <2>2
  <2> QED BY <2>3
<1>8. t \in States
  <2>1. v.readyData \ {d} \in SUBSET Ops
    BY <1>6 DEF States
  <2> QED BY <1>6, <1>7, <2>1 DEF States
<1>9. Consistent(t)
  BY <1>6, <1>7 DEF Consistent, IsScheduled
<1>10. Grows(v, t, {})
  <2>1. \A i \in Ops : IsScheduled(t, i) <=> IsScheduled(v, i)
    BY <1>7 DEF IsScheduled
  <2>2. \A saved : DeltasFit(saved, v) => DeltasFit(saved, t)
    BY <1>7 DEF DeltasFit
  <2>3. KeepsLog(v, t, {})
    BY <1>7, SameLogged DEF KeepsLog
  <2> QED BY <1>7, <1>8, <1>9, <2>1, <2>2, <2>3 DEF Grows
<1>11. Grows(s, t, {d})
  <2>1. {} \cup {d} = {d} /\ {} \cap {d} = {} /\ {} \in SUBSET Ops /\ {d} \in SUBSET Ops
    OBVIOUS
  <2>2. Grows(s, v, {} \cup {d})
    BY <1>3, <1>5, <2>1, GrowsTransitive
  <2>3. Grows(s, v, {d})
    BY <2>1, <2>2
  <2> QED BY <1>10, <2>1, <2>3, GrowsWithReads
<1> QED BY <1>3, <1>5, <1>7, <1>11 DEF IsScheduled

-----------------------------------------------------------------------------
(***************************************************************************)
(* scheduleOp.                                                             *)
(***************************************************************************)
\* ByCycle lists every operation once.
LEMMA ByCycleSorted ==
  ASSUME ProgramOK, NEW u \in States, NEW S, S \subseteq Ops
  PROVE  /\ ByCycle(u, S) \in Seq(S)
         /\ \A x \in S : \E k \in DOMAIN ByCycle(u, S) : ByCycle(u, S)[k] = x
         /\ Distinct(ByCycle(u, S))
<1> DEFINE R == {p \in S \X S : Earlier(u, p[1], p[2])}
<1>1. StrictOrder(R, S)
  <2>1. \A x, y \in S : <<x, y>> \in R <=>
          \/ CurrentCycle(u, x) < CurrentCycle(u, y)
          \/ CurrentCycle(u, x) = CurrentCycle(u, y) /\ x < y
    BY DEF Earlier
  <2>2. \A x \in S : CurrentCycle(u, x) \in Nat /\ x \in Nat
    BY BeginIsCycle DEF ProgramOK, Cycles
  <2> HIDE DEF R
  <2>3. \A x \in S : <<x, x>> \notin R
    BY <2>1, <2>2
  <2>4. ASSUME NEW x \in S, NEW y \in S PROVE x = y \/ <<x, y>> \in R \/ <<y, x>> \in R
    <3>1. /\ CurrentCycle(u, x) \in Nat /\ x \in Nat
          /\ CurrentCycle(u, y) \in Nat /\ y \in Nat
      BY <2>2
    <3>2. \/ CurrentCycle(u, x) < CurrentCycle(u, y)
          \/ CurrentCycle(u, x) = CurrentCycle(u, y) /\ x < y
          \/ CurrentCycle(u, y) < CurrentCycle(u, x)
          \/ CurrentCycle(u, y) = CurrentCycle(u, x) /\ y < x
          \/ x = y
      BY <3>1
    <3> QED BY <2>1, <3>2
  <2>5. \A x, y, z \in S : <<x, y>> \in R /\ <<y, z>> \in R => <<x, z>> \in R
    BY <2>1, <2>2
  <2> QED BY <2>3, <2>4, <2>5 DEF StrictOrder
<1>2. \A x \in S : {y \in S : <<y, x>> \in R} = {y \in S : Earlier(u, y, x)}
  OBVIOUS
<1>3. \A x \in S : OrderRank(R, S, x) = Cardinality({y \in S : Earlier(u, y, x)})
  BY <1>2 DEF OrderRank
<1> HIDE DEF R
<1>4. \A k \in 1 .. Cardinality(S) :
        (CHOOSE x \in S : OrderRank(R, S, x) = k - 1)
        = (CHOOSE x \in S : Cardinality({y \in S : Earlier(u, y, x)}) = k - 1)
  BY <1>3
<1>5. ByRank(R, S) = ByCycle(u, S)
  <2>1. ByCycle(u, S) =
          [k \in 1 .. Cardinality(S) |-> CHOOSE x \in S : Cardinality({y \in S : Earlier(u, y, x)}) = k - 1]
    BY DEF ByCycle, Sorted
  <2>2. ByRank(R, S) = [k \in 1 .. Cardinality(S) |-> CHOOSE x \in S : OrderRank(R, S, x) = k - 1]
    BY DEF ByRank
  <2> QED BY <1>4, <2>1, <2>2
<1>6. IsFiniteSet(S)
  BY FS_Subset DEF ProgramOK
<1> QED BY <1>1, <1>5, <1>6, ByRankIsSorted DEF Distinct

\* Scheduling the needed data operations one after another does what DataOpsDone says.
LEMMA DataOpsGrow ==
  ASSUME ProgramOK, NEW s \in States, Consistent(s), NEW seq, NEW needed \in SUBSET Ops, seq \in Seq(needed),
         \A d \in needed : \E k \in DOMAIN seq : seq[k] = d,
         Distinct(seq), NEW t, t = DataOps(s, seq)
  PROVE  DataOpsDone(s, t, needed)
<1> DEFINE D == DOMAIN seq
           V == {v \in States : Consistent(v)}
           Op(acc, d) == ScheduleDataOp(acc, d, "original")
           step == [p \in V \X needed |-> Op(p[1], p[2])]
           W == [p \in SUBSET D |-> {v \in V : DataOpsDone(s, v, {seq[k] : k \in p})}]
           P(jt) == jt = [p \in SUBSET D |-> IF p = {} THEN s ELSE Op(jt[p \ {Max(p)}], seq[Max(p)])]
<1>1. seq \in Seq(needed) /\ \A k \in D : seq[k] \in needed
  BY ElementOfSeq
<1>2. ASSUME NEW v \in V, NEW d \in needed, NEW w, w = Op(v, d)
      PROVE  /\ w \in V /\ Grows(v, w, {d}) /\ w.alive = v.alive \cup UsedBuffers(d) /\ IsScheduled(w, d)
             /\ w.readyData = v.readyData \ {d}
  <2>1. v \in States /\ Consistent(v) /\ w = ScheduleDataOp(v, d, "original") /\ d \in Ops
    BY <1>2
  <2>2. Grows(v, w, {d}) /\ w.alive = v.alive \cup UsedBuffers(d) /\ IsScheduled(w, d)
        /\ w.readyData = v.readyData \ {d}
    BY <2>1, DataOpGrows
  <2> QED BY <2>2 DEF Grows
<1>11. \A v \in V, d \in needed : Op(v, d) \in V
  BY <1>2
<1> HIDE DEF Op
<1>3. step \in [V \X needed -> V]
  <2> HIDE DEF V
  <2> QED BY <1>11
<1>4. FoldStays(V, W, step, s, seq)
  <2>1. s \in V /\ s \in W[{}]
    <3>1. Grows(s, s, {})
      BY GrowsReflexive
    <3>2. DataOpsDone(s, s, {})
      BY <3>1 DEF DataOpsDone
    <3>3. {seq[k] : k \in {}} = {}
      OBVIOUS
    <3> QED BY <3>2, <3>3
  <2>2. ASSUME NEW p \in SUBSET D, p # {}, NEW v \in V, v \in W[p \ {Max(p)}]
        PROVE  step[<<v, seq[Max(p)]>>] \in W[p]
    <3> DEFINE d == seq[Max(p)]
               w == Op(v, d)
               before == {seq[k] : k \in p \ {Max(p)}}
    <3>1. Max(p) \in p /\ p \ {Max(p)} \in SUBSET D
      BY <2>2, <1>1, MaxOfPositions
    <3>2. d \in needed /\ step[<<v, d>>] = w
      BY <1>1, <3>1
    <3>3. v \in V /\ DataOpsDone(s, v, before)
      BY <2>2, <3>1
    <3>4. {seq[k] : k \in p} = before \cup {d} /\ before \subseteq Ops
      BY <1>1, <3>1
    <3>10. before \cap {d} = {}
      BY <3>1 DEF Distinct
    <3> HIDE DEF step, V, w, d, before
    <3>5. /\ w \in V /\ Grows(v, w, {d}) /\ w.alive = v.alive \cup UsedBuffers(d) /\ IsScheduled(w, d)
          /\ w.readyData = v.readyData \ {d}
      BY <1>2, <3>2, <3>3 DEF w
    <3>6. Grows(s, w, before \cup {d})
      <4>1. before \in SUBSET Ops /\ {d} \in SUBSET Ops
        BY <3>2, <3>4
      <4> QED BY <3>3, <3>5, <3>10, <4>1, GrowsTransitive DEF DataOpsDone
    <3>7. /\ w.alive = s.alive \cup UNION {UsedBuffers(c) : c \in before \cup {d}}
          /\ w.readyData = s.readyData \ (before \cup {d})
      BY <3>3, <3>5 DEF DataOpsDone
    <3>8. \A c \in before \cup {d} : IsScheduled(w, c)
      BY <3>3, <3>4, <3>5 DEF DataOpsDone, Grows
    <3>9. DataOpsDone(s, w, before \cup {d})
      BY <3>6, <3>7, <3>8 DEF DataOpsDone
    <3> QED BY <3>2, <3>4, <3>5, <3>9 DEF d
  <2> QED BY <2>1, <2>2 DEF FoldStays
<1>5. PICK it \in [SUBSET D -> V] : FoldSolution(W, step, s, seq, it)
  BY <1>1, <1>3, <1>4, FoldWithin
<1>6. t = (CHOOSE jt : P(jt))[D]
  BY DEF DataOps, FoldLeft, MapThenFoldSet, Op
<1>7. P(it)
  <2>1. ASSUME NEW p \in SUBSET D
        PROVE  it[p] = IF p = {} THEN s ELSE Op(it[p \ {Max(p)}], seq[Max(p)])
    <3>1. CASE p = {}
      BY <1>5, <3>1 DEF FoldSolution, FoldEquation
    <3>2. CASE p # {}
      <4>1. Max(p) \in p /\ p \ {Max(p)} \in SUBSET D
        BY <3>2, <1>1, MaxOfPositions
      <4>2. it[p] = step[<<it[p \ {Max(p)}], seq[Max(p)]>>]
        BY <1>5, <3>2 DEF FoldSolution, FoldEquation
      <4>3. it[p \ {Max(p)}] \in V /\ seq[Max(p)] \in needed
        BY <4>1, <1>1, ElementOfSeq
      <4> HIDE DEF V
      <4> QED BY <3>2, <4>2, <4>3
    <3> QED BY <3>1, <3>2
  <2> HIDE DEF step, V
  <2> QED BY <2>1
<1>8. \A jt : P(jt) => jt[D] = it[D]
  <2> SUFFICES ASSUME NEW jt, P(jt) PROVE jt[D] = it[D]
    OBVIOUS
  <2>1. jt[{}] = s
    OBVIOUS
  <2>2. ASSUME NEW p \in SUBSET D, p # {}, jt[p \ {Max(p)}] = it[p \ {Max(p)}]
        PROVE  FoldEquation(step, s, seq, jt, p)
    <3>1. Max(p) \in p /\ p \ {Max(p)} \in SUBSET D
      BY <2>2, <1>1, MaxOfPositions
    <3>2. it[p \ {Max(p)}] \in V /\ seq[Max(p)] \in needed
      BY <3>1, <1>1, ElementOfSeq
    <3>3. jt[p] = Op(jt[p \ {Max(p)}], seq[Max(p)])
      BY <2>2
    <3> HIDE DEF V
    <3> QED BY <2>2, <3>2, <3>3 DEF FoldEquation
  <2> QED BY <1>5, <2>1, <2>2 DEF FoldSolution
<1>9. it[D] \in W[D] /\ t = it[D]
  <2>1. it[D] \in W[D]
    BY <1>5 DEF FoldSolution
  <2> HIDE DEF P
  <2> QED BY <1>6, <1>7, <1>8, <2>1
<1>10. {seq[k] : k \in D} = needed
  BY <1>1
<1>12. DataOpsDone(s, it[D], {seq[k] : k \in D})
  BY <1>9
<1> QED BY <1>9, <1>10, <1>12

\* scheduleOp does what OpDone says.
LEMMA OpGrows ==
  ASSUME ProgramOK, NEW s \in States, Consistent(s), NEW i \in Ops, NEW t, t = ScheduleOp(s, i)
  PROVE  OpDone(s, t, i)
<1> DEFINE needed == NeededDeps(s, i)
<1>1. needed \in SUBSET Ops /\ needed \subseteq Deps(i) /\ i \notin needed
  <2>1. Deps(i) \subseteq Ops
    BY DEF Deps, ProgramOK
  <2>2. i \in Nat /\ \A d \in Deps(i) : d < i
    BY DEF ProgramOK
  <2>3. i \notin Deps(i)
    BY <2>2
  <2> QED BY <2>1, <2>3 DEF NeededDeps
<1>2. PICK u : u = ReviveBuffers(s, i)
  OBVIOUS
<1>3. PICK v : v = DataOps(u, ByCycle(u, needed))
  OBVIOUS
<1>4. t = PushOp(v, i, "original")
  BY <1>2, <1>3 DEF ScheduleOp, DataOps, ByCycle, Sorted, Earlier, FoldLeft, MapThenFoldSet
<1> HIDE DEF needed
<1>5. Grows(s, u, {}) /\ u.alive = s.alive \cup UsedBuffers(i) /\ u.readyData = s.readyData
  BY <1>2, ReviveGrows
<1>6. u \in States /\ Consistent(u)
  BY <1>5 DEF Grows
<1>7. DataOpsDone(u, v, needed)
  <2>1. /\ ByCycle(u, needed) \in Seq(needed)
        /\ \A x \in needed : \E k \in DOMAIN ByCycle(u, needed) : ByCycle(u, needed)[k] = x
        /\ Distinct(ByCycle(u, needed))
    BY <1>1, <1>6, ByCycleSorted
  <2> QED BY <1>1, <1>3, <1>6, <2>1, DataOpsGrow
<1>8. v \in States /\ Consistent(v) /\ Grows(u, v, needed)
  BY <1>7 DEF DataOpsDone, Grows
<1>9. Grows(v, t, {i}) /\ PushesOne(v, t) /\ IsScheduled(t, i)
  <2>1. UsedBuffers(i) \subseteq v.alive
    BY <1>5, <1>7 DEF DataOpsDone
  <2> QED BY <1>4, <1>8, <2>1, PushOpGrows
<1>10. Grows(s, v, needed)
  <2>1. {} \cup needed = needed /\ {} \cap needed = {} /\ {} \in SUBSET Ops
    OBVIOUS
  <2>2. Grows(s, v, {} \cup needed)
    BY <1>1, <1>5, <1>8, <2>1, GrowsTransitive
  <2> QED BY <2>1, <2>2
<1>15. needed \cap {i} = {} /\ {i} \in SUBSET Ops
  BY <1>1
<1>11. Grows(s, t, needed \cup {i})
  BY <1>1, <1>9, <1>10, <1>15, GrowsTransitive
<1>16. ASSUME NEW P, Logged(s, P), Schedulable(s, needed), ~IsScheduled(s, i) PROVE Logged(t, P)
  <2>1. Logged(v, P)
    BY <1>10, <1>16 DEF Grows, KeepsLog
  <2>2. ~IsScheduled(v, i)
    BY <1>1, <1>10, <1>16 DEF Grows
  <2>3. ASSUME NEW d \in Deps(i) PROVE IsScheduled(v, d)
    <3>1. d \in Ops
      BY DEF Deps, ProgramOK
    <3>2. CASE d \in needed
      BY <3>2, <1>7 DEF DataOpsDone
    <3>3. CASE d \notin needed
      <4>1. IsScheduled(s, d)
        BY <3>3 DEF needed, NeededDeps
      <4> QED BY <3>1, <4>1, <1>10 DEF Grows
    <3> QED BY <3>2, <3>3
  <2>4. Schedulable(v, {i})
    BY <2>2, <2>3 DEF Schedulable
  <2> QED BY <1>9, <2>1, <2>4 DEF Grows, KeepsLog
<1>17. OpKeepsLog(s, t, i)
  BY <1>16 DEF OpKeepsLog, needed
<1>12. t.alive = s.alive \cup BuffersFor(s, i) /\ t.readyData = s.readyData \ needed
  <2>1. /\ t.alive = (s.alive \cup UsedBuffers(i)) \cup UNION {UsedBuffers(d) : d \in needed}
        /\ t.readyData = s.readyData \ needed
    BY <1>5, <1>7, <1>9 DEF DataOpsDone, PushesOne
  <2>2. s.alive \cup BuffersFor(s, i)
        = (s.alive \cup UsedBuffers(i)) \cup UNION {UsedBuffers(d) : d \in needed}
    BY DEF BuffersFor, NonAlive, needed
  <2> QED BY <2>1, <2>2
<1>13. ASSUME NEW d \in Deps(i) \cup {i} PROVE IsScheduled(t, d)
  <2>1. d \in Ops
    BY DEF ProgramOK, Deps
  <2>2. CASE d = i
    BY <2>2, <1>9
  <2>3. CASE d \in needed
    BY <2>1, <2>3, <1>7, <1>9 DEF DataOpsDone, Grows
  <2>4. CASE d # i /\ d \notin needed
    <3>1. IsScheduled(s, d)
      BY <2>4 DEF needed, NeededDeps
    <3> QED BY <2>1, <3>1, <1>11 DEF Grows
  <2> QED BY <2>2, <2>3, <2>4
<1>14. ASSUME NEW e \in t.beginHeap \ s.beginHeap, NEW f \in t.beginHeap \ s.beginHeap,
              IsOriginal(e), IsOriginal(f), e.op = i, f.op = i
       PROVE  e = f
  <2>1. e \notin v.beginHeap /\ f \notin v.beginHeap
    BY <1>14, <1>10, <1>1 DEF Grows
  <2> QED BY <2>1, <1>9 DEF PushesOne
<1> QED BY <1>11, <1>12, <1>13, <1>14, <1>17 DEF OpDone, needed

\* Several buffers are read back.
LEMMA SpillReadsGrow ==
  ASSUME ProgramOK, NEW s \in States, Consistent(s), NEW B \in SUBSET Buffers, \A b \in B : s.spilled[b] # 0,
         NEW t, t = FoldLeft(ScheduleSpillRead, s, SortUsedBuffers(B))
  PROVE  Grows(s, t, {}) /\ t.alive = s.alive \cup B
<1> DEFINE seq == SortUsedBuffers(B)
           D == DOMAIN seq
           V == {v \in States : Consistent(v)}
           Op(acc, b) == ScheduleSpillRead(acc, b)
           step == [p \in V \X B |-> IF p[1].spilled[p[2]] # 0 THEN Op(p[1], p[2]) ELSE s]
           left(p) == {seq[k] : k \in p}
           W == [p \in SUBSET D |-> {v \in V : /\ Grows(s, v, {}) /\ v.alive = s.alive \cup left(p)
                                                /\ \A b \in B \ left(p) : v.spilled[b] # 0}]
           P(jt) == jt = [p \in SUBSET D |-> IF p = {} THEN s ELSE Op(jt[p \ {Max(p)}], seq[Max(p)])]
<1>1. seq \in Seq(B) /\ \A k \in D : seq[k] \in B
  BY UsedBuffersSorted, ElementOfSeq
<1>2. /\ \A b \in B : \E k \in D : seq[k] = b
      /\ \A j, k \in D : seq[j] = seq[k] => j = k
  BY UsedBuffersSorted
<1> HIDE DEF seq
<1>3. ASSUME NEW v \in V, NEW b \in B, v.spilled[b] # 0, NEW w, w = Op(v, b)
      PROVE  w \in V /\ Grows(v, w, {}) /\ w.alive = v.alive \cup {b} /\ w.spilled = [v.spilled EXCEPT ![b] = 0]
  <2>1. v \in States /\ Consistent(v) /\ w = ScheduleSpillRead(v, b) /\ b \in Buffers
    BY <1>3
  <2>2. Grows(v, w, {}) /\ w.alive = v.alive \cup {b} /\ w.spilled = [v.spilled EXCEPT ![b] = 0]
    BY <1>3, <2>1, SpillReadGrows
  <2> QED BY <2>2 DEF Grows
<1> HIDE DEF Op
<1>4. step \in [V \X B -> V]
  BY <1>3
<1>5. FoldStays(V, W, step, s, seq)
  <2>1. s \in V /\ s \in W[{}]
    <3>1. Grows(s, s, {})
      BY GrowsReflexive
    <3> QED BY <3>1
  <2>2. ASSUME NEW p \in SUBSET D, p # {}, NEW v \in V, v \in W[p \ {Max(p)}]
        PROVE  step[<<v, seq[Max(p)]>>] \in W[p]
    <3> DEFINE b == seq[Max(p)]
               w == Op(v, b)
               before == left(p \ {Max(p)})
    <3>1. Max(p) \in p /\ p \ {Max(p)} \in SUBSET D
      BY <2>2, <1>1, MaxOfPositions
    <3>2. b \in B /\ b \notin before /\ before \subseteq B
      BY <1>1, <1>2, <3>1
    <3>3. v \in V /\ Grows(s, v, {}) /\ v.alive = s.alive \cup before /\ \A c \in B \ before : v.spilled[c] # 0
      BY <2>2, <3>1
    <3>4. step[<<v, b>>] = w
      BY <3>2, <3>3
    <3>5. left(p) = before \cup {b}
      BY <3>1
    <3> HIDE DEF step, w, b, left, before
    <3>6. w \in V /\ Grows(v, w, {}) /\ w.alive = v.alive \cup {b} /\ w.spilled = [v.spilled EXCEPT ![b] = 0]
      BY <1>3, <3>2, <3>3 DEF w
    <3>7. Grows(s, w, {})
      <4>1. {} \in SUBSET Ops
        OBVIOUS
      <4> QED BY <3>3, <3>6, <4>1, GrowsWithReads
    <3>8. \A c \in B \ left(p) : w.spilled[c] # 0
      <4>1. v.spilled \in [Buffers -> Ops \cup {0}]
        BY <3>3 DEF States
      <4> QED BY <3>3, <3>5, <3>6, <4>1
    <3> HIDE DEF V
    <3> QED BY <3>1, <3>3, <3>4, <3>5, <3>6, <3>7, <3>8 DEF b
  <2> QED BY <2>1, <2>2 DEF FoldStays
<1>6. PICK it \in [SUBSET D -> V] : FoldSolution(W, step, s, seq, it)
  BY <1>1, <1>4, <1>5, FoldWithin
<1>11. ASSUME NEW p \in SUBSET D, p # {}
       PROVE  /\ it[p \ {Max(p)}] \in V /\ seq[Max(p)] \in B
              /\ it[p \ {Max(p)}].spilled[seq[Max(p)]] # 0
  <2>1. Max(p) \in p /\ p \ {Max(p)} \in SUBSET D
    BY <1>11, <1>1, MaxOfPositions
  <2>2. it[p \ {Max(p)}] \in W[p \ {Max(p)}]
    BY <1>6, <2>1 DEF FoldSolution
  <2>3. seq[Max(p)] \in B \ left(p \ {Max(p)})
    BY <1>1, <1>2, <2>1
  <2> HIDE DEF left
  <2> QED BY <2>1, <2>2, <2>3
<1>7. t = (CHOOSE jt : P(jt))[D]
  BY DEF FoldLeft, MapThenFoldSet, Op, seq
<1>8. P(it)
  <2>1. ASSUME NEW p \in SUBSET D
        PROVE  it[p] = IF p = {} THEN s ELSE Op(it[p \ {Max(p)}], seq[Max(p)])
    <3>1. CASE p = {}
      BY <1>6, <3>1 DEF FoldSolution, FoldEquation
    <3>2. CASE p # {}
      <4>1. Max(p) \in p /\ p \ {Max(p)} \in SUBSET D
        BY <3>2, <1>1, MaxOfPositions
      <4>2. it[p] = step[<<it[p \ {Max(p)}], seq[Max(p)]>>]
        BY <1>6, <3>2 DEF FoldSolution, FoldEquation
      <4>3. it[p \ {Max(p)}] \in V /\ seq[Max(p)] \in B /\ it[p \ {Max(p)}].spilled[seq[Max(p)]] # 0
        BY <4>1, <1>11
      <4> HIDE DEF V
      <4> QED BY <3>2, <4>2, <4>3
    <3> QED BY <3>1, <3>2
  <2> HIDE DEF step, V
  <2> QED BY <2>1
<1>9. \A jt : P(jt) => jt[D] = it[D]
  <2> SUFFICES ASSUME NEW jt, P(jt) PROVE jt[D] = it[D]
    OBVIOUS
  <2>1. jt[{}] = s
    OBVIOUS
  <2>2. ASSUME NEW p \in SUBSET D, p # {}, jt[p \ {Max(p)}] = it[p \ {Max(p)}]
        PROVE  FoldEquation(step, s, seq, jt, p)
    <3>1. Max(p) \in p /\ p \ {Max(p)} \in SUBSET D
      BY <2>2, <1>1, MaxOfPositions
    <3>2. it[p \ {Max(p)}] \in V /\ seq[Max(p)] \in B /\ it[p \ {Max(p)}].spilled[seq[Max(p)]] # 0
      BY <2>2, <3>1, <1>11
    <3>3. jt[p] = Op(jt[p \ {Max(p)}], seq[Max(p)])
      BY <2>2
    <3> HIDE DEF V
    <3> QED BY <2>2, <3>2, <3>3 DEF FoldEquation
  <2> QED BY <1>6, <2>1, <2>2 DEF FoldSolution
<1>10. it[D] \in W[D] /\ t = it[D]
  <2>1. it[D] \in W[D]
    BY <1>6 DEF FoldSolution
  <2> HIDE DEF P
  <2> QED BY <1>7, <1>8, <1>9, <2>1
<1>12. left(D) = B
  BY <1>1, <1>2
<1> HIDE DEF left
<1> QED BY <1>10, <1>12

\* executePrefetch does what PrefetchDone says.
LEMMA PrefetchGrows ==
  ASSUME ProgramOK, NEW s \in States, Consistent(s), NEW op \in Ops, NEW t, t = ExecutePrefetch(s, op)
  PROVE  PrefetchDone(s, t, op)
<1>1. CASE op \in s.readyData
  <2>1. t = ScheduleDataOp(s, op, "prefetched")
    BY <1>1 DEF ExecutePrefetch
  <2>4. Grows(s, t, {op}) /\ t.alive = s.alive \cup UsedBuffers(op) /\ IsScheduled(t, op)
        /\ t.readyData = s.readyData \ {op}
    BY <2>1, DataOpGrows
  <2>2. Grows(s, t, {op}) /\ t.alive = s.alive \cup UsedBuffers(op) /\ IsScheduled(t, op)
        /\ op \notin t.readyData
    BY <2>4
  <2>3. {op} \cap s.readyData = {op}
    BY <1>1
  <2> QED BY <1>1, <2>2, <2>3 DEF PrefetchDone
<1>2. CASE op \notin s.readyData
  <2>1. PICK B \in SUBSET Buffers : B = SpilledBuffers(s, op)
    BY DEF SpilledBuffers
  <2>2. \A b \in B : s.spilled[b] # 0
    BY <2>1 DEF SpilledBuffers, ProgramOK
  <2>3. t = FoldLeft(ScheduleSpillRead, s, SortUsedBuffers(B))
    BY <1>2, <2>1 DEF ExecutePrefetch
  <2>4. Grows(s, t, {}) /\ t.alive = s.alive \cup B
    BY <2>2, <2>3, SpillReadsGrow
  <2>5. {op} \cap s.readyData = {}
    BY <1>2
  <2>6. op \notin t.readyData
    BY <1>2, <2>4 DEF Grows
  <2> QED BY <1>2, <2>1, <2>4, <2>5, <2>6 DEF PrefetchDone
<1> QED BY <1>1, <1>2

-----------------------------------------------------------------------------
(***************************************************************************)
(* Memory.                                                                 *)
(***************************************************************************)
\* alignExecutors only delays.
LEMMA ExecutorsAligned ==
  ASSUME ProgramOK, NEW s \in States, NEW cycle \in Nat, NEW t, t = AlignExecutors(s, cycle)
  PROVE  /\ SameButCycles(s, t) /\ NotSooner(s, t)
         /\ \A q \in Queues : \A k \in Instances(q) : cycle <= t.pipelines[q][k]
<1> DEFINE at(q, k) == Max({s.pipelines[q][k], cycle})
           queue(q) == [k \in DOMAIN s.pipelines[q] |-> at(q, k)]
           pipelines == [q \in Queues |-> queue(q)]
<1>1. /\ s.pipelines \in [Queues -> PartialMaps(1 .. prog.ports, Cycles)]
      /\ \A q \in Queues : s.pipelines[q] \in [Instances(q) -> Cycles]
  BY DEF States, Pipelines
<1>2. ASSUME NEW q \in Queues, NEW k \in Instances(q)
      PROVE  at(q, k) \in Cycles /\ s.pipelines[q][k] <= at(q, k) /\ cycle <= at(q, k)
  <2>1. s.pipelines[q][k] \in Cycles
    BY <1>1
  <2>2. PICK c \in Cycles : c = s.pipelines[q][k]
    BY <2>1
  <2> DEFINE f == [x \in {0} |-> cycle]
  <2>3. IsFiniteSet({0}) /\ \A x \in {0} : f[x] \in Nat
    BY FS_Singleton
  <2>4. {s.pipelines[q][k], cycle} = {c} \cup {f[x] : x \in {0}}
    BY <2>2
  <2>6. f[0] = cycle /\ 0 \in {0}
    OBVIOUS
  <2> HIDE DEF f
  <2>5. at(q, k) = Max({c} \cup {f[x] : x \in {0}})
    BY <2>4
  <2> HIDE DEF at
  <2>7. at(q, k) \in Cycles /\ c <= at(q, k) /\ \A x \in {0} : f[x] <= at(q, k)
    BY <2>3, <2>5, MaxWithCycle
  <2> QED BY <2>2, <2>6, <2>7
<1> HIDE DEF at
<1>3. \A q \in Queues : queue(q) \in [Instances(q) -> Cycles] /\ \A k \in Instances(q) : queue(q)[k] = at(q, k)
  BY <1>1, <1>2
<1>8. \A q \in Queues : \A k \in Instances(q) : s.pipelines[q][k] <= queue(q)[k] /\ cycle <= queue(q)[k]
  BY <1>2, <1>3
<1>4. \A q \in Queues : Instances(q) \in SUBSET (1 .. prog.ports)
  BY DEF Instances, ProgramOK
<1> HIDE DEF queue
<1>5. pipelines \in [Queues -> PartialMaps(1 .. prog.ports, Cycles)]
  BY <1>3, <1>4 DEF PartialMaps
<1>6. pipelines \in Pipelines
  BY <1>3, <1>5 DEF Pipelines
<1>7. t = [s EXCEPT !.pipelines = pipelines]
  BY DEF AlignExecutors, queue, at
<1>9. \A q \in Queues : pipelines[q] = queue(q)
  OBVIOUS
<1> HIDE DEF pipelines
<1>10. t.pipelines = pipelines
  BY <1>7 DEF States
<1>11. NotSooner(s, t) /\ \A q \in Queues : \A k \in Instances(q) : cycle <= t.pipelines[q][k]
  BY <1>8, <1>9, <1>10 DEF NotSooner
<1>12. SameButCycles(s, t)
  BY <1>6, <1>7 DEF SameButCycles, States
<1> QED BY <1>11, <1>12

\* The entries stay in order.
LEMMA LoggedWhenAligned ==
  ASSUME NEW s \in States, NEW t, SameButCycles(s, t), NotSooner(s, t), ProgramOK, NEW P, Logged(s, P)
  PROVE  Logged(t, P)
<1>1. EntriesOK(t, P) /\ HeapOK(t, P) /\ Log(t, P) = Log(s, P)
  BY DEF SameButCycles, Logged, EntriesOK, HeapOK, Log, IsScheduled
<1>2. UsesOK(t, P)
  <2>1. ASSUME NEW x \in Log(t, P), NEW b \in x.bufs
        PROVE  IF t.spilled[b] = 0 THEN x.end <= t.lastUse[b]
               ELSE \A q \in Queues : \A k \in Instances(q) : x.end <= t.pipelines[q][k]
    <3>1. IF s.spilled[b] = 0 THEN x.end <= s.lastUse[b]
          ELSE \A q \in Queues : \A k \in Instances(q) : x.end <= s.pipelines[q][k]
      BY <1>1 DEF Logged, UsesOK
    <3>2. t.spilled = s.spilled /\ t.lastUse = s.lastUse /\ t \in States
      BY DEF SameButCycles
    <3>3. x.end \in Nat
      BY <1>1, EntryTypes
    <3>4. \A q \in Queues : \A k \in Instances(q) :
            s.pipelines[q][k] \in Nat /\ t.pipelines[q][k] \in Nat /\ s.pipelines[q][k] <= t.pipelines[q][k]
      BY <3>2 DEF NotSooner, States, Pipelines, Cycles
    <3> QED BY <3>1, <3>2, <3>3, <3>4
  <2>2. /\ \A b \in Buffers : t.spilled[b] # 0 => b \in prog.outs[t.spilled[b]]
        /\ \A b \in Buffers : t.producer[b] # 0 => b \in prog.outs[t.producer[b]]
    BY DEF Logged, UsesOK, SameButCycles
  <2> QED BY <2>1, <2>2 DEF UsesOK
<1> QED BY <1>1, <1>2 DEF Logged

\* Any set of buffers is finite.
LEMMA AliveFinite ==
  ASSUME ProgramOK, NEW S, S \subseteq Buffers
  PROVE  IsFiniteSet(S) /\ S \subseteq Nat
BY FS_Subset DEF ProgramOK

\* The gaps then cover what was covered and the blocks of dead.
LEMMA GapsFreed ==
  ASSUME ProgramOK, NEW s \in States, Memory(s, s.alive), NEW dead \in SUBSET s.alive,
         NEW g, g = GapsWith(s, dead)
  PROVE  /\ IsGapList(g, prog.memory)
         /\ \A x \in 0 .. prog.memory - 1 : Covers(g, x) <=> ~\E b \in s.alive \ dead : InBlock(s, b, x)
<1> DEFINE seq == Ascending(dead)
           D == DOMAIN seq
           V == {gs \in Seq(GapRec) : IsGapList(gs, prog.memory)}
           Op(gs, b) == FreeInto(gs, s.addr[b], prog.size[b])
           Taken(gs, b) == \A x \in s.addr[b] .. s.addr[b] + prog.size[b] - 1 : ~Covers(gs, x)
           step == [p \in V \X dead |-> IF Taken(p[1], p[2]) THEN Op(p[1], p[2]) ELSE p[1]]
           left(p) == {seq[k] : k \in p}
           Free(gs, B) == \A x \in 0 .. prog.memory - 1 :
                            Covers(gs, x) <=> ~\E b \in s.alive \ B : InBlock(s, b, x)
           W == [p \in SUBSET D |-> {v \in V : Free(v, left(p))}]
           P(jt) == jt = [p \in SUBSET D |-> IF p = {} THEN s.gaps ELSE Op(jt[p \ {Max(p)}], seq[Max(p)])]
<1>0. dead \subseteq Buffers /\ s.alive \subseteq Buffers
  BY DEF States
<1>1. seq \in Seq(dead) /\ \A k \in D : seq[k] \in dead
  <2>1. dead \subseteq Nat /\ IsFiniteSet(dead)
    BY <1>0, AliveFinite
  <2>2. seq \in Seq(dead)
    BY <2>1, AscendingSorted
  <2> HIDE DEF seq
  <2> QED BY <2>2, ElementOfSeq
<1>2. /\ \A b \in dead : \E k \in D : seq[k] = b
      /\ \A j, k \in D : seq[j] = seq[k] => j = k
  <2>1. dead \subseteq Nat /\ IsFiniteSet(dead)
    BY <1>0, AliveFinite
  <2> QED BY <2>1, AscendingSorted
<1> HIDE DEF seq
<1>13. /\ prog.memory \in Nat
       /\ \A b \in s.alive : /\ s.addr[b] \in Nat /\ prog.size[b] \in Nat \ {0}
                             /\ s.addr[b] + prog.size[b] <= prog.memory
       /\ \A b, c \in s.alive : b # c => ~Overlap(b, s.addr[b], c, s.addr[c])
  BY <1>0 DEF Memory, ProgramOK
<1>14. ASSUME NEW b \in s.alive, NEW c \in s.alive, NEW x \in Nat, InBlock(s, b, x), InBlock(s, c, x)
       PROVE  b = c
  BY <1>13, <1>14 DEF InBlock, Overlap
<1>3. ASSUME NEW v \in V, NEW b \in dead, Taken(v, b), NEW w, w = Op(v, b)
      PROVE  w \in V /\ \A x \in Nat : Covers(w, x) <=> Covers(v, x) \/ InBlock(s, b, x)
  <2>1. Adds(w, v, s.addr[b], s.addr[b] + prog.size[b], prog.memory)
    BY <1>3, <1>13, FreeIntoAdds
  <2> QED BY <2>1 DEF Adds, IsGapList, InBlock
<1> HIDE DEF Op
<1>4. step \in [V \X dead -> V]
  <2> HIDE DEF V, Taken
  <2> QED BY <1>3
<1>15. ASSUME NEW v \in V, NEW b \in dead, NEW B, b \notin B, Free(v, B)
       PROVE  Taken(v, b)
  <2> SUFFICES ASSUME NEW x \in s.addr[b] .. s.addr[b] + prog.size[b] - 1 PROVE ~Covers(v, x)
    OBVIOUS
  <2>1. x \in 0 .. prog.memory - 1 /\ InBlock(s, b, x)
    BY <1>13 DEF InBlock
  <2> QED BY <1>15, <2>1
<1>5. FoldStays(V, W, step, s.gaps, seq)
  <2>1. s.gaps \in V /\ s.gaps \in W[{}]
    <3>1. s.gaps \in Seq(GapRec) /\ IsGapList(s.gaps, prog.memory)
      BY DEF Memory, States
    <3>2. Free(s.gaps, left({}))
      BY DEF Memory
    <3> QED BY <3>1, <3>2
  <2>2. ASSUME NEW p \in SUBSET D, p # {}, NEW v \in V, v \in W[p \ {Max(p)}]
        PROVE  step[<<v, seq[Max(p)]>>] \in W[p]
    <3> DEFINE b == seq[Max(p)]
               w == Op(v, b)
               before == left(p \ {Max(p)})
    <3>1. Max(p) \in p /\ p \ {Max(p)} \in SUBSET D
      BY <2>2, <1>1, MaxOfPositions
    <3>2. b \in dead /\ b \notin before /\ before \subseteq dead
      BY <1>1, <1>2, <3>1
    <3>3. v \in V /\ Free(v, before)
      BY <2>2, <3>1
    <3> HIDE DEF before
    <3>9. Taken(v, b)
      <4> HIDE DEF V, Free, Taken, b
      <4> QED BY <3>2, <3>3, <1>15
    <3>4. step[<<v, b>>] = w
      BY <3>2, <3>3, <3>9
    <3>5. left(p) = before \cup {b}
      BY <3>1 DEF before
    <3> HIDE DEF step, w, b, left
    <3>6. w \in V /\ \A x \in Nat : Covers(w, x) <=> Covers(v, x) \/ InBlock(s, b, x)
      <4> HIDE DEF V, Taken
      <4> QED BY <1>3, <3>2, <3>3, <3>9 DEF w
    <3>7. Free(w, left(p))
      <4> SUFFICES ASSUME NEW x \in 0 .. prog.memory - 1
                   PROVE  Covers(w, x) <=> ~\E c \in s.alive \ left(p) : InBlock(s, c, x)
        OBVIOUS
      <4>1. x \in Nat
        BY <1>13
      <4>2. Covers(w, x) <=> Covers(v, x) \/ InBlock(s, b, x)
        BY <3>6, <4>1
      <4>3. Covers(v, x) <=> ~\E c \in s.alive \ before : InBlock(s, c, x)
        BY <3>3
      <4>4. b \in s.alive
        BY <3>2
      <4>5. CASE InBlock(s, b, x)
        BY <4>2, <4>5, <4>4, <4>1, <1>14, <3>5
      <4>6. CASE ~InBlock(s, b, x)
        BY <4>2, <4>3, <4>6, <3>5
      <4> QED BY <4>5, <4>6
    <3> HIDE DEF V, Free
    <3> QED BY <3>1, <3>4, <3>6, <3>7 DEF b
  <2> QED BY <2>1, <2>2 DEF FoldStays
<1>6. PICK it \in [SUBSET D -> V] : FoldSolution(W, step, s.gaps, seq, it)
  BY <1>1, <1>4, <1>5, FoldWithin
<1>11. ASSUME NEW p \in SUBSET D, p # {}
       PROVE  /\ it[p \ {Max(p)}] \in V /\ seq[Max(p)] \in dead
              /\ Taken(it[p \ {Max(p)}], seq[Max(p)])
  <2>1. Max(p) \in p /\ p \ {Max(p)} \in SUBSET D
    BY <1>11, <1>1, MaxOfPositions
  <2>2. it[p \ {Max(p)}] \in W[p \ {Max(p)}]
    BY <1>6, <2>1 DEF FoldSolution
  <2>3. it[p \ {Max(p)}] \in V /\ Free(it[p \ {Max(p)}], left(p \ {Max(p)}))
    BY <2>1, <2>2
  <2>4. seq[Max(p)] \in dead /\ seq[Max(p)] \notin left(p \ {Max(p)})
    BY <1>1, <1>2, <2>1
  <2> HIDE DEF left, V, Free, Taken
  <2> QED BY <2>3, <2>4, <1>15
<1>7. g = (CHOOSE jt : P(jt))[D]
  BY DEF GapsWith, FoldLeft, MapThenFoldSet, Op, seq
<1>8. P(it)
  <2>1. ASSUME NEW p \in SUBSET D
        PROVE  it[p] = IF p = {} THEN s.gaps ELSE Op(it[p \ {Max(p)}], seq[Max(p)])
    <3>1. CASE p = {}
      BY <1>6, <3>1 DEF FoldSolution, FoldEquation
    <3>2. CASE p # {}
      <4>1. Max(p) \in p /\ p \ {Max(p)} \in SUBSET D
        BY <3>2, <1>1, MaxOfPositions
      <4>2. it[p] = step[<<it[p \ {Max(p)}], seq[Max(p)]>>]
        BY <1>6, <3>2 DEF FoldSolution, FoldEquation
      <4>3. it[p \ {Max(p)}] \in V /\ seq[Max(p)] \in dead /\ Taken(it[p \ {Max(p)}], seq[Max(p)])
        BY <3>2, <4>1, <1>11
      <4> HIDE DEF V, Taken
      <4> QED BY <3>2, <4>2, <4>3
    <3> QED BY <3>1, <3>2
  <2> HIDE DEF step, V
  <2> QED BY <2>1
<1>9. \A jt : P(jt) => jt[D] = it[D]
  <2> SUFFICES ASSUME NEW jt, P(jt) PROVE jt[D] = it[D]
    OBVIOUS
  <2>1. jt[{}] = s.gaps
    OBVIOUS
  <2>2. ASSUME NEW p \in SUBSET D, p # {}, jt[p \ {Max(p)}] = it[p \ {Max(p)}]
        PROVE  FoldEquation(step, s.gaps, seq, jt, p)
    <3>1. Max(p) \in p /\ p \ {Max(p)} \in SUBSET D
      BY <2>2, <1>1, MaxOfPositions
    <3>2. it[p \ {Max(p)}] \in V /\ seq[Max(p)] \in dead /\ Taken(it[p \ {Max(p)}], seq[Max(p)])
      BY <2>2, <3>1, <1>11
    <3>3. jt[p] = Op(jt[p \ {Max(p)}], seq[Max(p)])
      BY <2>2
    <3> HIDE DEF V, Taken
    <3> QED BY <2>2, <3>2, <3>3 DEF FoldEquation
  <2> QED BY <1>6, <2>1, <2>2 DEF FoldSolution
<1>10. it[D] \in W[D] /\ g = it[D]
  <2>1. it[D] \in W[D]
    BY <1>6 DEF FoldSolution
  <2> HIDE DEF P
  <2> QED BY <1>7, <1>8, <1>9, <2>1
<1>12. left(D) = dead
  BY <1>1, <1>2
<1>16. D \in SUBSET D
  OBVIOUS
<1> HIDE DEF left, D
<1>17. g \in V /\ Free(g, dead)
  BY <1>10, <1>12, <1>16
<1> QED BY <1>17

\* markAsDead and freeDeadRanges do what Freed says.
LEMMA BuffersFreed ==
  ASSUME ProgramOK, NEW s \in States, Memory(s, s.alive), NEW bs, NEW t, t = FreeBuffers(s, bs)
  PROVE  Freed(s, t, bs)
<1>1. PICK dead \in SUBSET s.alive : dead = bs \cap s.alive
  OBVIOUS
<1>2. PICK g : g = GapsWith(s, dead)
  OBVIOUS
<1>3. /\ IsGapList(g, prog.memory)
      /\ \A x \in 0 .. prog.memory - 1 : Covers(g, x) <=> ~\E b \in s.alive \ dead : InBlock(s, b, x)
  BY <1>2, GapsFreed
<1>4. t = [s EXCEPT !.gaps = g, !.alive = s.alive \ dead]
  BY <1>1, <1>2 DEF FreeBuffers, GapsWith
<1>5. g \in Seq(GapRec)
  BY <1>3 DEF IsGapList
<1>6. /\ t \in States /\ t.gaps = g /\ t.alive = s.alive \ dead
      /\ t.addr = s.addr /\ t.spilled = s.spilled /\ t.pipelines = s.pipelines
      /\ t.beginHeap = s.beginHeap /\ t.readyCompute = s.readyCompute /\ t.readyData = s.readyData
      /\ t.producer = s.producer /\ t.lastUse = s.lastUse /\ t.opEnd = s.opEnd /\ t.deltas = s.deltas
  BY <1>4, <1>5, ZenonT(60) DEF States
<1>7. Memory(t, t.alive)
  BY <1>3, <1>6 DEF Memory, InBlock
<1>8. s.alive \ dead = s.alive \ bs
  BY <1>1
<1> QED BY <1>6, <1>7, <1>8 DEF Freed

\* Nothing of the log changes.
LEMMA LoggedWhenFreed ==
  ASSUME NEW s, NEW t, NEW bs, Freed(s, t, bs), NEW P, Logged(s, P)
  PROVE  Logged(t, P)
BY SameLogged DEF Freed

\* Evict does what Evicted says.
LEMMA BufferEvicted ==
  ASSUME ProgramOK, NEW s \in States, Consistent(s), Written(s), Memory(s, s.alive),
         NEW c, Candidates(s, {c}), NEW t, t = Evict(s, c)
  PROVE  Evicted(s, t, c)
<1>0. c.op \in Ops /\ c.buf \in Buffers /\ IsScheduled(s, c.op) /\ s.producer[c.buf] # 0
  BY DEF Candidates
<1>1. PICK u : u = FreeBuffers(s, {c.buf})
  OBVIOUS
<1>2. PICK v : v = [u EXCEPT !.spilled[c.buf] = c.op]
  OBVIOUS
<1>3. PICK ports : ports = Ports(v, "DMA_CMX", {c.buf})
  OBVIOUS
<1>4. PICK begin : begin = Max({s.lastUse[c.buf], PortsFree(v, "DMA_CMX", ports)})
  OBVIOUS
<1>5. PICK e : e = Element(c.op, "write", "DMA_CMX", ports, begin, SpillCost(c.buf), c.buf)
  OBVIOUS
<1>6. PICK w : w = Push(v, e)
  OBVIOUS
<1>7. t = AlignExecutors(w, e.end)
  BY <1>1, <1>2, <1>3, <1>4, <1>5, <1>6 DEF Evict
<1>8. Freed(s, u, {c.buf})
  BY <1>1, BuffersFreed
<1>9. u \in States
  BY <1>8 DEF Freed
<1>10. v = [gaps |-> u.gaps, addr |-> u.addr, alive |-> u.alive, spilled |-> [u.spilled EXCEPT ![c.buf] = c.op],
            pipelines |-> u.pipelines, beginHeap |-> u.beginHeap, readyCompute |-> u.readyCompute,
            readyData |-> u.readyData, producer |-> u.producer, lastUse |-> u.lastUse,
            opEnd |-> u.opEnd, deltas |-> u.deltas]
  <2> DEFINE r == [gaps |-> u.gaps, addr |-> u.addr, alive |-> u.alive, spilled |-> u.spilled,
                   pipelines |-> u.pipelines, beginHeap |-> u.beginHeap, readyCompute |-> u.readyCompute,
                   readyData |-> u.readyData, producer |-> u.producer, lastUse |-> u.lastUse,
                   opEnd |-> u.opEnd, deltas |-> u.deltas]
  <2>1. u = r
    BY <1>9 DEF States
  <2>2. v = [r EXCEPT !.spilled = [u.spilled EXCEPT ![c.buf] = c.op]]
    BY <1>2, <2>1
  <2> HIDE <2>1
  <2> QED BY <2>2
<1>11. v \in States
  BY <1>0, <1>9, <1>10 DEF States
<1>12. /\ ports \subseteq Instances("DMA_CMX") /\ ports \subseteq 1 .. prog.ports
       /\ PortsFree(v, "DMA_CMX", ports) \in Cycles /\ "DMA_CMX" \in Queues
  <2>1. "DMA_CMX" \in Queues
    BY DEF Queues, DMAQueues
  <2> QED BY <1>3, <1>11, <2>1, PortsOfQueue
<1>13. begin \in Cycles /\ s.lastUse[c.buf] <= begin /\ PortsFree(v, "DMA_CMX", ports) <= begin
  <2>1. s.lastUse[c.buf] \in Nat
    BY <1>0 DEF States
  <2> DEFINE f == [x \in {0} |-> s.lastUse[c.buf]]
  <2>2. PICK free \in Cycles : free = PortsFree(v, "DMA_CMX", ports)
    BY <1>12
  <2>3. begin = Max({free} \cup {f[x] : x \in {0}})
    <3>1. {free} \cup {f[x] : x \in {0}} = {s.lastUse[c.buf], PortsFree(v, "DMA_CMX", ports)}
      BY <2>2
    <3> QED BY <1>4, <3>1
  <2>4. IsFiniteSet({0}) /\ \A x \in {0} : f[x] \in Nat
    BY <2>1, FS_Singleton
  <2>5. 0 \in {0} /\ f[0] = s.lastUse[c.buf]
    OBVIOUS
  <2> HIDE DEF f
  <2>6. begin \in Cycles /\ free <= begin /\ \A x \in {0} : f[x] <= begin
    BY <2>3, <2>4, MaxWithCycle
  <2> QED BY <2>2, <2>5, <2>6
<1>14. e \in Elements /\ e.end \in Cycles /\ e.type = "write" /\ e.buf = c.buf /\ e.op = c.op
       /\ e.queue = "DMA_CMX" /\ e.ports = ports
       /\ e.begin = begin /\ e.end = e.begin + SpillCost(e.buf) /\ e.begin <= e.end
  <2>1. prog.size[c.buf] \in Nat \ {0} /\ begin \in Nat \ {0}
    BY <1>0, <1>13 DEF ProgramOK, Cycles
  <2>2. begin + SpillCost(c.buf) \in Cycles /\ begin + SpillCost(c.buf) \in Nat /\ begin \in Nat
        /\ begin <= begin + SpillCost(c.buf)
    BY <2>1 DEF Cycles, SpillCost
  <2> QED BY <1>0, <1>5, <1>12, <2>2 DEF Element, Elements
<1>15. /\ w \in States
       /\ w.gaps = v.gaps /\ w.addr = v.addr /\ w.alive = v.alive /\ w.spilled = v.spilled
       /\ w.beginHeap = v.beginHeap \cup {e}
       /\ w.readyCompute = v.readyCompute /\ w.readyData = v.readyData
       /\ w.producer = [b \in Buffers |-> IF b \in WrittenBy(e) THEN e.op ELSE v.producer[b]]
       /\ \A i \in Ops : IsScheduled(w, i) <=> IsScheduled(v, i) \/ i = e.op
       /\ Later(v, w, e)
  <2>1. e \in Elements /\ e.end \in Cycles /\ e.ports \subseteq Instances(e.queue)
    BY <1>12, <1>14
  <2>2. e.type = "read" => e.buf \in Buffers
    BY <1>14
  <2> QED BY <1>6, <1>11, <2>1, <2>2, PushFields
<1>16. e.end \in Nat
  BY <1>14 DEF Elements
<1>17. /\ SameButCycles(w, t) /\ NotSooner(w, t)
       /\ \A q \in Queues : \A k \in Instances(q) : e.end <= t.pipelines[q][k]
  BY <1>7, <1>15, <1>16, ExecutorsAligned
<1>18. WrittenBy(e) = {} /\ ~IsOriginal(e)
  BY <1>14 DEF WrittenBy, IsOriginal
<1>19. /\ t \in States /\ t.gaps = w.gaps /\ t.addr = w.addr /\ t.alive = w.alive
       /\ t.spilled = w.spilled /\ t.beginHeap = w.beginHeap
       /\ t.readyCompute = w.readyCompute /\ t.readyData = w.readyData
       /\ t.producer = w.producer /\ t.opEnd = w.opEnd
  BY <1>17 DEF SameButCycles
<1>20. /\ u.alive = s.alive \ {c.buf} /\ u.addr = s.addr /\ u.spilled = s.spilled
       /\ u.beginHeap = s.beginHeap /\ u.readyCompute = s.readyCompute /\ u.readyData = s.readyData
       /\ u.producer = s.producer /\ u.opEnd = s.opEnd
  BY <1>8 DEF Freed
<1>21. \A i \in Ops : IsScheduled(t, i) <=> IsScheduled(s, i)
  BY <1>0, <1>10, <1>14, <1>15, <1>19, <1>20 DEF IsScheduled
<1>22. t.alive = s.alive \ {c.buf}
  BY <1>10, <1>15, <1>19, <1>20
<1>23. \A b \in Buffers : t.producer[b] = s.producer[b]
  BY <1>10, <1>15, <1>18, <1>19, <1>20
<1>24. \A b \in Buffers : t.spilled[b] = IF b = c.buf THEN c.op ELSE s.spilled[b]
  BY <1>9, <1>10, <1>15, <1>19, <1>20 DEF States
<1>25. t.beginHeap = s.beginHeap \cup {e}
  BY <1>10, <1>15, <1>19, <1>20
<1>26. Consistent(t)
  <2>1. /\ s.producer \in [Buffers -> Ops \cup {0}] /\ s.alive \subseteq Buffers
        /\ s.spilled \in [Buffers -> Ops \cup {0}] /\ s.beginHeap \in Heaps
    BY DEF States
  <2>2. \A b \in Buffers : t.producer[b] # 0 => IsScheduled(t, t.producer[b])
    BY <2>1, <1>21, <1>23 DEF Consistent
  <2>3. \A b \in Buffers : t.spilled[b] # 0 => IsScheduled(t, t.spilled[b])
    BY <1>0, <2>1, <1>21, <1>24 DEF Consistent
  <2>4. \A i \in Ops : IsScheduled(t, i) => \A b \in prog.outs[i] : t.producer[b] # 0
    BY <1>21, <1>23 DEF Consistent, ProgramOK
  <2>5. \A b \in t.alive : t.spilled[b] = 0
    BY <2>1, <1>22, <1>24 DEF Consistent
  <2>6. \A f \in t.beginHeap : IsOriginal(f) => IsScheduled(t, f.op)
    BY <2>1, <1>18, <1>21, <1>25 DEF Consistent, Heaps, Elements
  <2> QED BY <2>2, <2>3, <2>4, <2>5, <2>6 DEF Consistent
<1>27. Written(t)
  BY <1>0, <1>22, <1>23, <1>24 DEF Written, States
<1>28. Memory(t, t.alive)
  <2>1. Memory(u, u.alive)
    BY <1>8 DEF Freed
  <2>2. t.gaps = u.gaps /\ t.addr = u.addr /\ t.alive = u.alive
    BY <1>10, <1>15, <1>19
  <2> QED BY <2>1, <2>2 DEF Memory, InBlock
<1>29. t.readyCompute = s.readyCompute /\ t.readyData = s.readyData
  BY <1>10, <1>15, <1>19, <1>20
<1>30. \A f \in t.beginHeap : f \in s.beginHeap \/ (f.type = "write" /\ f.buf = c.buf)
  BY <1>14, <1>25
<1>31. /\ v.pipelines = s.pipelines /\ v.lastUse = s.lastUse /\ v.opEnd = s.opEnd
       /\ t.lastUse = w.lastUse /\ t.opEnd = w.opEnd
  BY <1>8, <1>10, <1>17 DEF Freed, SameButCycles
<1>32. \A k \in ports : s.pipelines["DMA_CMX"][k] <= begin /\ s.pipelines["DMA_CMX"][k] \in Nat
  <2> SUFFICES ASSUME NEW k \in ports
               PROVE  s.pipelines["DMA_CMX"][k] <= begin /\ s.pipelines["DMA_CMX"][k] \in Nat
    OBVIOUS
  <2>1. v.pipelines["DMA_CMX"][k] <= PortsFree(v, "DMA_CMX", ports)
    BY <1>3, <1>11, <1>12, PortsOfQueue
  <2>2. v.pipelines["DMA_CMX"][k] \in Cycles
    BY <1>11, <1>12 DEF States, Pipelines
  <2> QED BY <1>12, <1>13, <1>31, <2>1, <2>2 DEF Cycles
<1>33. NotSooner(s, w)
  <2>1. \A k \in e.ports : v.pipelines[e.queue][k] <= e.end
    <3>1. e.begin \in Nat /\ e.end \in Nat
      BY <1>14 DEF Elements
    <3> QED BY <3>1, <1>14, <1>31, <1>32
  <2> QED BY <1>15, <1>31, <2>1 DEF Later, NotSooner
<1>34. NotSooner(s, t)
  <2>1. \A q \in Queues : \A k \in Instances(q) :
          s.pipelines[q][k] \in Nat /\ w.pipelines[q][k] \in Nat /\ t.pipelines[q][k] \in Nat
    BY <1>15, <1>19 DEF States, Pipelines, Cycles
  <2> QED BY <2>1, <1>17, <1>33 DEF NotSooner
<1>35. HasElement(s, t, e)
  <2>1. Later(s, t, e)
    BY <1>15, <1>31, <1>34 DEF Later
  <2>2. \A i \in Ops : IsScheduled(t, i) <=> IsScheduled(s, i) \/ i = e.op
    BY <1>0, <1>14, <1>21
  <2> QED BY <1>25, <2>1, <2>2 DEF HasElement
<1>36. ASSUME NEW P, Logged(s, P), c.buf \in prog.outs[c.op] PROVE Logged(t, P)
  <2>1. ASSUME NEW x \in Log(s, P), c.buf \in x.bufs PROVE x.end <= begin
    <3>1. x.end \in Nat
      BY <1>36, EntryTypes
    <3>2. IF s.spilled[c.buf] = 0 THEN x.end <= s.lastUse[c.buf]
          ELSE \A q \in Queues : \A k \in Instances(q) : x.end <= s.pipelines[q][k]
      BY <1>36, <2>1 DEF Logged, UsesOK
    <3>3. s.lastUse[c.buf] \in Nat /\ begin \in Nat
      BY <1>0, <1>13 DEF States, Cycles
    <3>4. \E k \in ports : k \in Instances("DMA_CMX")
      <4>1. ports # {}
        BY <1>3, <1>11, <1>12, PortsOfQueue
      <4> QED BY <4>1, <1>12
    <3>5. CASE s.spilled[c.buf] = 0
      BY <3>1, <3>2, <3>3, <3>5, <1>13
    <3>6. CASE s.spilled[c.buf] # 0
      BY <3>1, <3>2, <3>3, <3>4, <3>6, <1>12, <1>32
    <3> QED BY <3>5, <3>6
  <2>2. ComesAfter(s, e, Log(s, P))
    BY <1>0, <1>14, <1>18, <1>36, <2>1 DEF ComesAfter
  <2>3. \A b \in Buffers : t.spilled[b] = IF b = e.buf THEN e.op ELSE s.spilled[b]
    BY <1>14, <1>24
  <2>4. e \in Elements /\ e.type = "write" /\ t \in States
    BY <1>14, <1>19
  <2> QED BY <1>17, <1>23, <1>34, <1>35, <1>36, <2>2, <2>3, <2>4, WriteLogged
<1>37. c.buf \in prog.outs[c.op] => KeepsLog(s, t, {})
  BY <1>36 DEF KeepsLog
<1> QED BY <1>19, <1>21, <1>22, <1>23, <1>26, <1>27, <1>28, <1>29, <1>30, <1>37 DEF Evicted

\* One buffer gets memory that nobody holds.
LEMMA OnePlaced ==
  ASSUME ProgramOK, NEW v \in Layouts, NEW b \in Buffers, NEW w, w = PlaceOne(v, b)
  PROVE  /\ w \in Layouts /\ \A c \in Buffers \ {b} : w.addr[c] = v.addr[c]
         /\ \A H \in SUBSET Buffers : w.fits /\ b \notin H /\ (v.fits => Memory(v, H)) => Memory(w, H \cup {b})
<1>1. PICK i : i = ChooseMinimalGap(v.gaps, prog.size[b], 1, "Up")
  OBVIOUS
<1>2. PICK at : at = GetAddrFromGap(v.gaps[i], prog.size[b], 1, "Up")
  OBVIOUS
<1>3. /\ v = [gaps |-> v.gaps, addr |-> v.addr, fits |-> v.fits]
      /\ v.gaps \in Seq(GapRec) /\ v.addr \in [Buffers -> {Unallocated} \cup 0 .. prog.memory]
      /\ v.fits \in BOOLEAN /\ IsGapList(v.gaps, prog.memory)
  BY DEF Layouts
<1>4. prog.size[b] \in Nat \ {0} /\ prog.memory \in Nat /\ \A c \in Buffers : prog.size[c] \in Nat \ {0}
  BY DEF ProgramOK
<1>5. CASE ~v.fits \/ i = 0
  <2>1. w = [gaps |-> v.gaps, addr |-> v.addr, fits |-> FALSE]
    BY <1>1, <1>2, <1>3, <1>5 DEF PlaceOne
  <2>2. w.fits = FALSE /\ w.addr = v.addr
    BY <2>1
  <2>3. w \in Layouts
    BY <2>1, <1>3 DEF Layouts
  <2> QED BY <2>2, <2>3
<1>6. CASE v.fits /\ i # 0
  <2>1. i \in DOMAIN v.gaps /\ Fits(v.gaps, i, prog.size[b], 1, "Up")
    BY <1>1, <1>3, <1>4, <1>6, ChosenGapFits
  <2>2. v.gaps[i] \in GapRec /\ v.gaps[i].begin \in Nat /\ v.gaps[i].end \in Nat /\ v.gaps[i].end <= prog.memory
    BY <1>3, <1>4, <2>1, GapListFacts
  <2>3. GetAddrFromGap(v.gaps[i], prog.size[b], 1, "Up") # InvalidAddress
    BY <2>1 DEF Fits
  <2>4. at \in Nat /\ v.gaps[i].begin <= at /\ at + prog.size[b] <= v.gaps[i].end
    BY <1>2, <1>4, <2>2, <2>3, AddrFromGap
  <2>5. PICK g : g = UseGap(v.gaps, i, at, prog.size[b])
    OBVIOUS
  <2>6. /\ IsGapList(g, prog.memory)
        /\ \A x \in Nat : Covers(g, x) <=> Covers(v.gaps, x) /\ ~(at <= x /\ x < at + prog.size[b])
    BY <1>3, <1>4, <2>1, <2>4, <2>5, UseGapTakesBlock
  <2>7. w = [gaps |-> g, addr |-> [v.addr EXCEPT ![b] = at], fits |-> v.fits]
    <3> DEFINE r == [gaps |-> v.gaps, addr |-> v.addr, fits |-> v.fits]
    <3>1. w = [v EXCEPT !.gaps = g, !.addr = [v.addr EXCEPT ![b] = at]]
      BY <1>1, <1>2, <1>6, <2>5 DEF PlaceOne
    <3>2. v = r
      BY <1>3
    <3>3. w = [r EXCEPT !.gaps = g, !.addr = [v.addr EXCEPT ![b] = at]]
      BY <3>1, <3>2
    <3> QED BY <3>3
  <2>8. at \in 0 .. prog.memory
    BY <1>4, <2>2, <2>4
  <2>9. [v.addr EXCEPT ![b] = at] \in [Buffers -> {Unallocated} \cup 0 .. prog.memory]
    BY <1>3, <2>8
  <2>10. g \in Seq(GapRec)
    BY <2>6 DEF IsGapList
  <2>11. w \in Layouts
    BY <1>3, <2>6, <2>7, <2>9, <2>10 DEF Layouts
  <2>12. w.gaps = g /\ \A c \in Buffers : w.addr[c] = IF c = b THEN at ELSE v.addr[c]
    BY <1>3, <2>7
  <2>13. ASSUME NEW H \in SUBSET Buffers, b \notin H, Memory(v, H)
         PROVE  Memory(w, H \cup {b})
    <3>1. /\ \A c \in H : v.addr[c] \in Nat /\ v.addr[c] + prog.size[c] <= prog.memory
          /\ \A c, d \in H : c # d => ~Overlap(c, v.addr[c], d, v.addr[d])
          /\ \A x \in 0 .. prog.memory - 1 : Covers(v.gaps, x) <=> ~\E c \in H : InBlock(v, c, x)
      BY <2>13 DEF Memory
    <3>2. \A x \in at .. at + prog.size[b] - 1 : x \in 0 .. prog.memory - 1 /\ Covers(v.gaps, x)
      <4> SUFFICES ASSUME NEW x \in at .. at + prog.size[b] - 1
                   PROVE  x \in 0 .. prog.memory - 1 /\ Covers(v.gaps, x)
        OBVIOUS
      <4>1. x \in Nat /\ at <= x /\ x < at + prog.size[b]
        BY <1>4, <2>4
      <4>2. v.gaps[i].begin <= x /\ x < v.gaps[i].end /\ x < prog.memory
        BY <1>4, <2>2, <2>4, <4>1
      <4> QED BY <1>4, <2>1, <4>1, <4>2 DEF Covers, In
    <3>3. \A c \in H : ~Overlap(c, v.addr[c], b, at) /\ ~Overlap(b, at, c, v.addr[c])
      <4> SUFFICES ASSUME NEW c \in H, v.addr[c] < at + prog.size[b], at < v.addr[c] + prog.size[c] PROVE FALSE
        BY DEF Overlap
      <4>1. v.addr[c] \in Nat /\ prog.size[c] \in Nat \ {0} /\ at \in Nat /\ prog.size[b] \in Nat \ {0}
        BY <1>4, <2>4, <3>1
      <4>2. PICK x \in Nat : x >= at /\ x >= v.addr[c] /\ (x = at \/ x = v.addr[c])
        BY <4>1
      <4>3. x \in at .. at + prog.size[b] - 1 /\ v.addr[c] <= x /\ x < v.addr[c] + prog.size[c]
        BY <4>1, <4>2
      <4> QED BY <3>1, <3>2, <4>3 DEF InBlock
    <3>4. \A c \in H \cup {b} : w.addr[c] \in Nat /\ w.addr[c] + prog.size[c] <= prog.memory
      <4>1. at + prog.size[b] <= prog.memory
        BY <1>4, <2>2, <2>4
      <4> QED BY <2>4, <2>12, <3>1, <4>1
    <3>5. \A c, d \in H \cup {b} : c # d => ~Overlap(c, w.addr[c], d, w.addr[d])
      BY <2>12, <2>13, <3>1, <3>3
    <3>6. ASSUME NEW x \in 0 .. prog.memory - 1
          PROVE  Covers(w.gaps, x) <=> ~\E c \in H \cup {b} : InBlock(w, c, x)
      <4>1. x \in Nat
        BY <1>4
      <4>2. Covers(w.gaps, x) <=> Covers(v.gaps, x) /\ ~(at <= x /\ x < at + prog.size[b])
        BY <2>6, <2>12, <4>1
      <4>3. \A c \in H : InBlock(w, c, x) <=> InBlock(v, c, x)
        BY <2>12, <2>13 DEF InBlock
      <4>4. InBlock(w, b, x) <=> at <= x /\ x < at + prog.size[b]
        BY <2>12 DEF InBlock
      <4> QED BY <3>1, <4>2, <4>3, <4>4
    <3> QED BY <2>6, <2>12, <3>4, <3>5, <3>6 DEF Memory
  <2> QED BY <1>6, <2>11, <2>12, <2>13
<1> QED BY <1>3, <1>5, <1>6

\* PlaceBuffers does what BuffersPlaced says.
LEMMA PlacedBuffers ==
  ASSUME ProgramOK, NEW s \in States, NEW held \in SUBSET Buffers, Memory(s, held),
         NEW bs \in SUBSET Buffers, bs \cap held = {}, NEW r, r = PlaceBuffers(s.gaps, s.addr, bs)
  PROVE  BuffersPlaced(s, r, held, bs)
<1> DEFINE seq == SortUsedBuffers(bs)
           D == DOMAIN seq
           V == Layouts
           Op(acc, b) == PlaceOne(acc, b)
           step == [p \in V \X bs |-> Op(p[1], p[2])]
           left(p) == {seq[k] : k \in p}
           start == [gaps |-> s.gaps, addr |-> s.addr, fits |-> TRUE]
           Sound(v, B) == /\ v.fits => Memory(v, held \cup B)
                          /\ \A b \in Buffers \ bs : v.addr[b] = s.addr[b]
           W == [p \in SUBSET D |-> {v \in V : Sound(v, left(p))}]
           P(jt) == jt = [p \in SUBSET D |-> IF p = {} THEN start ELSE Op(jt[p \ {Max(p)}], seq[Max(p)])]
<1>1. seq \in Seq(bs) /\ \A k \in D : seq[k] \in bs
  BY UsedBuffersSorted, ElementOfSeq
<1>2. /\ \A b \in bs : \E k \in D : seq[k] = b
      /\ \A j, k \in D : seq[j] = seq[k] => j = k
  BY UsedBuffersSorted
<1> HIDE DEF seq
<1>3. ASSUME NEW v \in V, NEW b \in bs, NEW w, w = Op(v, b)
      PROVE  /\ w \in V /\ \A c \in Buffers \ {b} : w.addr[c] = v.addr[c]
             /\ \A H \in SUBSET Buffers : w.fits /\ b \notin H /\ (v.fits => Memory(v, H)) => Memory(w, H \cup {b})
  <2>1. b \in Buffers /\ w = PlaceOne(v, b)
    BY <1>3
  <2> QED BY <2>1, OnePlaced
<1> HIDE DEF Op
<1>4. step \in [V \X bs -> V]
  BY <1>3
<1>5. FoldStays(V, W, step, start, seq)
  <2>1. start \in V /\ start \in W[{}]
    <3>1. start.gaps = s.gaps /\ start.addr = s.addr /\ start.fits
      OBVIOUS
    <3>2. start \in Layouts
      BY DEF Layouts, States, Memory
    <3> HIDE DEF start
    <3>3. Memory(start, held)
      BY <3>1 DEF Memory, InBlock
    <3>4. held \cup left({}) = held
      OBVIOUS
    <3> HIDE DEF left
    <3> QED BY <3>1, <3>2, <3>3, <3>4
  <2>2. ASSUME NEW p \in SUBSET D, p # {}, NEW v \in V, v \in W[p \ {Max(p)}]
        PROVE  step[<<v, seq[Max(p)]>>] \in W[p]
    <3> DEFINE b == seq[Max(p)]
               w == Op(v, b)
               before == left(p \ {Max(p)})
    <3>1. Max(p) \in p /\ p \ {Max(p)} \in SUBSET D
      BY <2>2, <1>1, MaxOfPositions
    <3>2. b \in bs /\ b \notin before /\ before \subseteq bs
      BY <1>1, <1>2, <3>1
    <3>3. v \in V /\ (v.fits => Memory(v, held \cup before)) /\ \A c \in Buffers \ bs : v.addr[c] = s.addr[c]
      <4>1. v \in V /\ Sound(v, before)
        <5> HIDE DEF Sound, left, V, D
        <5> QED BY <2>2, <3>1
      <4> QED BY <4>1
    <3>4. step[<<v, b>>] = w
      BY <3>2, <3>3
    <3>5. held \cup left(p) = (held \cup before) \cup {b}
      BY <3>1
    <3> HIDE DEF step, w, b, left, before
    <3>6. /\ w \in V /\ \A c \in Buffers \ {b} : w.addr[c] = v.addr[c]
          /\ \A H \in SUBSET Buffers : w.fits /\ b \notin H /\ (v.fits => Memory(v, H)) => Memory(w, H \cup {b})
      <4> HIDE DEF V
      <4> QED BY <1>3, <3>2, <3>3 DEF w
    <3>7. w.fits => Memory(w, held \cup left(p))
      <4>1. held \cup before \in SUBSET Buffers /\ b \notin held \cup before
        BY <3>2
      <4> QED BY <3>3, <3>5, <3>6, <4>1
    <3>8. \A c \in Buffers \ bs : w.addr[c] = s.addr[c]
      BY <3>2, <3>3, <3>6
    <3> HIDE DEF V
    <3> QED BY <3>1, <3>4, <3>6, <3>7, <3>8 DEF b
  <2> HIDE DEF start
  <2> QED BY <2>1, <2>2 DEF FoldStays
<1>6. PICK it \in [SUBSET D -> V] : FoldSolution(W, step, start, seq, it)
  BY <1>1, <1>4, <1>5, FoldWithin
<1>7. r = (CHOOSE jt : P(jt))[D]
  BY DEF PlaceBuffers, PlaceOne, FoldLeft, MapThenFoldSet, Op, seq
<1>8. P(it)
  <2>1. ASSUME NEW p \in SUBSET D
        PROVE  it[p] = IF p = {} THEN start ELSE Op(it[p \ {Max(p)}], seq[Max(p)])
    <3>1. CASE p = {}
      BY <1>6, <3>1 DEF FoldSolution, FoldEquation
    <3>2. CASE p # {}
      <4>1. Max(p) \in p /\ p \ {Max(p)} \in SUBSET D
        BY <3>2, <1>1, MaxOfPositions
      <4>2. it[p] = step[<<it[p \ {Max(p)}], seq[Max(p)]>>]
        BY <1>6, <3>2 DEF FoldSolution, FoldEquation
      <4>3. it[p \ {Max(p)}] \in V /\ seq[Max(p)] \in bs
        BY <4>1, <1>1, ElementOfSeq
      <4> HIDE DEF V
      <4> QED BY <3>2, <4>2, <4>3
    <3> QED BY <3>1, <3>2
  <2> HIDE DEF step, V
  <2> QED BY <2>1
<1>9. \A jt : P(jt) => jt[D] = it[D]
  <2> SUFFICES ASSUME NEW jt, P(jt) PROVE jt[D] = it[D]
    OBVIOUS
  <2>1. jt[{}] = start
    OBVIOUS
  <2>2. ASSUME NEW p \in SUBSET D, p # {}, jt[p \ {Max(p)}] = it[p \ {Max(p)}]
        PROVE  FoldEquation(step, start, seq, jt, p)
    <3>1. Max(p) \in p /\ p \ {Max(p)} \in SUBSET D
      BY <2>2, <1>1, MaxOfPositions
    <3>2. it[p \ {Max(p)}] \in V /\ seq[Max(p)] \in bs
      BY <3>1, <1>1, ElementOfSeq
    <3>3. jt[p] = Op(jt[p \ {Max(p)}], seq[Max(p)])
      BY <2>2
    <3> HIDE DEF V
    <3> QED BY <2>2, <3>2, <3>3 DEF FoldEquation
  <2> QED BY <1>6, <2>1, <2>2 DEF FoldSolution
<1>10. it[D] \in W[D] /\ r = it[D]
  <2>1. it[D] \in W[D]
    BY <1>6 DEF FoldSolution
  <2> HIDE DEF P
  <2> QED BY <1>7, <1>8, <1>9, <2>1
<1>12. left(D) = bs
  BY <1>1, <1>2
<1>13. D \in SUBSET D
  OBVIOUS
<1> HIDE DEF left, D
<1>14. r \in V /\ (r.fits => Memory(r, held \cup bs)) /\ \A b \in Buffers \ bs : r.addr[b] = s.addr[b]
  <2>1. r \in V /\ Sound(r, bs)
    <3> HIDE DEF Sound, V
    <3> QED BY <1>10, <1>12, <1>13
  <2> QED BY <2>1
<1> QED BY <1>14 DEF BuffersPlaced

-----------------------------------------------------------------------------
(***************************************************************************)
(* What init computes.                                                     *)
(***************************************************************************)
\* The equation of the data operations has a solution, since operations depend only on earlier ones.
LEMMA DataOpsSolved ==
  ASSUME ProgramOK
  PROVE  \E f : f = [i \in Ops |-> DataOpIf(f, i)]
<1> DEFINE Upto(n) == {i \in Ops : i <= n}
           Some(n) == \E f : f = [i \in Upto(n) |-> DataOpIf(f, i)]
           F == {n \in Nat : ~Some(n)}
<1>1. Ops \subseteq Nat \ {0} /\ IsFiniteSet(Ops) /\ \A i \in Ops : Deps(i) \subseteq Ops /\ \A d \in Deps(i) : d < i
  BY DEF ProgramOK, Deps
<1>8. \A i \in Ops : i \in Nat /\ i # 0
  BY <1>1
<1>2. Some(0)
  <2>1. Upto(0) = {}
    <3> SUFFICES ASSUME NEW i \in Ops, i <= 0 PROVE FALSE
      OBVIOUS
    <3> QED BY <1>8
  <2> DEFINE f == [i \in {} |-> TRUE]
  <2>2. f = [i \in Upto(0) |-> DataOpIf(f, i)]
    BY <2>1
  <2> HIDE DEF f
  <2> QED BY <2>2
<1>3. ASSUME NEW n \in Nat \ {0}, Some(n - 1) PROVE Some(n)
  <2>1. PICK f : f = [i \in Upto(n - 1) |-> DataOpIf(f, i)]
    BY <1>3
  <2> DEFINE g == [i \in Upto(n) |-> IF i = n THEN DataOpIf(f, n) ELSE f[i]]
  <2>2. \A i \in Upto(n) : i = n \/ i \in Upto(n - 1)
    <3> SUFFICES ASSUME NEW i \in Ops, i <= n, i # n PROVE i <= n - 1
      OBVIOUS
    <3> QED BY <1>8
  <2>3. \A i \in Upto(n) : \A d \in Deps(i) : d \in Upto(n) /\ d # n
    <3> SUFFICES ASSUME NEW i \in Ops, i <= n, NEW d \in Deps(i) PROVE d \in Ops /\ d <= n /\ d # n
      OBVIOUS
    <3>1. d \in Ops /\ d < i
      BY <1>1
    <3> QED BY <1>8, <3>1
  <2>4. \A i \in Upto(n) : \A d \in Deps(i) : g[d] = f[d]
    BY <2>3
  <2>5. \A i \in Upto(n) : DataOpIf(g, i) = DataOpIf(f, i)
    <3> HIDE DEF g
    <3> QED BY <2>4 DEF DataOpIf
  <2>6. \A i \in Upto(n) : g[i] = DataOpIf(g, i)
    <3> SUFFICES ASSUME NEW i \in Upto(n) PROVE g[i] = DataOpIf(g, i)
      OBVIOUS
    <3>1. DataOpIf(g, i) = DataOpIf(f, i)
      BY <2>5
    <3>2. CASE i = n
      BY <3>1, <3>2
    <3>3. CASE i # n
      <4>1. i \in Upto(n - 1) /\ g[i] = f[i]
        BY <2>2, <3>3
      <4>2. f[i] = DataOpIf(f, i)
        BY <2>1, <4>1
      <4> HIDE DEF g
      <4> QED BY <3>1, <4>1, <4>2
    <3> QED BY <3>2, <3>3
  <2>7. g = [i \in Upto(n) |-> g[i]]
    OBVIOUS
  <2> HIDE DEF g
  <2>8. g = [i \in Upto(n) |-> DataOpIf(g, i)]
    BY <2>6, <2>7
  <2> QED BY <2>8
<1> HIDE DEF Some
<1>4. F = {}
  <2> SUFFICES ASSUME F # {} PROVE FALSE
    OBVIOUS
  <2>1. PICK n \in F : \A k \in F : n <= k
    <3>1. F \subseteq Nat
      OBVIOUS
    <3> HIDE DEF F
    <3> QED BY <3>1, NatMinimum
  <2>2. n \in Nat \ {0}
    BY <1>2, <2>1
  <2>3. n - 1 \in Nat /\ n - 1 \notin F
    BY <2>1, <2>2
  <2> QED BY <1>3, <2>1, <2>2, <2>3
<1>5. PICK n \in Nat : \A i \in Ops : i <= n
  <2>1. CASE Ops = {}
    BY <2>1
  <2>2. CASE Ops # {}
    BY <1>1, <2>2, MaxOfNaturals
  <2> QED BY <2>1, <2>2
<1>6. Upto(n) = Ops
  BY <1>5
<1>7. Some(n)
  BY <1>4
<1> QED BY <1>6, <1>7 DEF Some

\* identifyDataOps finds DMAs that wait for no data operation.
LEMMA DataOpsIdentified ==
  ASSUME ProgramOK, isDataOp = IdentifyDataOps
  PROVE  DataOpsOK
<1>1. PICK f : f = [i \in Ops |-> DataOpIf(f, i)]
  BY DataOpsSolved
<1> DEFINE g == CHOOSE f_1 : f_1 = [i \in Ops |-> DataOpIf(f_1, i)]
<1>2. g = [i \in Ops |-> DataOpIf(g, i)]
  BY <1>1
<1>3. IdentifyDataOps = {i \in Ops : g[i]}
  BY DEF IdentifyDataOps, DataOpIf
<1> HIDE DEF g
<1>4. \A i \in isDataOp : i \in Ops /\ g[i] /\ DataOpIf(g, i)
  BY <1>2, <1>3
<1>5. \A i \in isDataOp : prog.queue[i] = "DMA_DDR" /\ \A d \in Deps(i) : ~g[d]
  BY <1>4 DEF DataOpIf
<1> QED BY <1>3, <1>4, <1>5 DEF DataOpsOK

\* Every operation gets a level.
LEMMA LevelsTyped ==
  ASSUME ProgramOK
  PROVE  Levels \in [Ops -> Nat]
<1> DEFINE C == {i \in Ops : IsCompute(i)}
           seq == Ascending(C)
           D == DOMAIN seq
           V == [next : Nat, of : [Ops -> Nat]]
           Op(acc, i) == AssignLevel(acc, i)
           step == [p \in V \X C |-> Op(p[1], p[2])]
           start == [next |-> 0, of |-> [j \in Ops |-> 0]]
           W == [p \in SUBSET D |-> V]
           P(jt) == jt = [p \in SUBSET D |-> IF p = {} THEN start ELSE Op(jt[p \ {Max(p)}], seq[Max(p)])]
<1>1. seq \in Seq(C) /\ \A k \in D : seq[k] \in C
  <2>1. C \subseteq Nat /\ IsFiniteSet(C)
    BY FS_Subset DEF ProgramOK
  <2>2. seq \in Seq(C)
    <3> HIDE DEF C
    <3> QED BY <2>1, AscendingSorted
  <2> HIDE DEF seq
  <2> QED BY <2>2, ElementOfSeq
<1> HIDE DEF seq
<1>3. ASSUME NEW v \in V, NEW i \in C PROVE Op(v, i) \in V
  BY <1>3 DEF AssignLevel
<1> HIDE DEF Op
<1>4. step \in [V \X C -> V]
  BY <1>3
<1>5. FoldStays(V, W, step, start, seq)
  <2>1. start \in V /\ start \in W[{}]
    OBVIOUS
  <2>2. ASSUME NEW p \in SUBSET D, p # {}, NEW v \in V, v \in W[p \ {Max(p)}]
        PROVE  step[<<v, seq[Max(p)]>>] \in W[p]
    <3>1. Max(p) \in p /\ p \ {Max(p)} \in SUBSET D
      BY <2>2, <1>1, MaxOfPositions
    <3>2. seq[Max(p)] \in C
      BY <1>1, <3>1
    <3>3. step[<<v, seq[Max(p)]>>] \in V
      <4> HIDE DEF step, V
      <4> QED BY <3>2, <1>4
    <3> HIDE DEF step, V
    <3> QED BY <3>3
  <2> HIDE DEF start
  <2> QED BY <2>1, <2>2 DEF FoldStays
<1>20. PICK r : r = FoldLeft(AssignLevel, start, seq)
  OBVIOUS
<1>6. PICK it \in [SUBSET D -> V] : FoldSolution(W, step, start, seq, it)
  BY <1>1, <1>4, <1>5, FoldWithin
<1>7. r = (CHOOSE jt : P(jt))[D]
  BY <1>20 DEF FoldLeft, MapThenFoldSet, Op
<1>8. P(it)
  <2>1. ASSUME NEW p \in SUBSET D
        PROVE  it[p] = IF p = {} THEN start ELSE Op(it[p \ {Max(p)}], seq[Max(p)])
    <3>1. CASE p = {}
      BY <1>6, <3>1 DEF FoldSolution, FoldEquation
    <3>2. CASE p # {}
      <4>1. Max(p) \in p /\ p \ {Max(p)} \in SUBSET D
        BY <3>2, <1>1, MaxOfPositions
      <4>2. it[p] = step[<<it[p \ {Max(p)}], seq[Max(p)]>>]
        BY <1>6, <3>2 DEF FoldSolution, FoldEquation
      <4>3. it[p \ {Max(p)}] \in V /\ seq[Max(p)] \in C
        BY <4>1, <1>1, ElementOfSeq
      <4> HIDE DEF V
      <4> QED BY <3>2, <4>2, <4>3
    <3> QED BY <3>1, <3>2
  <2> HIDE DEF step, V
  <2> QED BY <2>1
<1>9. \A jt : P(jt) => jt[D] = it[D]
  <2> SUFFICES ASSUME NEW jt, P(jt) PROVE jt[D] = it[D]
    OBVIOUS
  <2>1. jt[{}] = start
    OBVIOUS
  <2>2. ASSUME NEW p \in SUBSET D, p # {}, jt[p \ {Max(p)}] = it[p \ {Max(p)}]
        PROVE  FoldEquation(step, start, seq, jt, p)
    <3>1. Max(p) \in p /\ p \ {Max(p)} \in SUBSET D
      BY <2>2, <1>1, MaxOfPositions
    <3>2. it[p \ {Max(p)}] \in V /\ seq[Max(p)] \in C
      BY <3>1, <1>1, ElementOfSeq
    <3>3. jt[p] = Op(jt[p \ {Max(p)}], seq[Max(p)])
      BY <2>2
    <3> HIDE DEF V
    <3> QED BY <2>2, <3>2, <3>3 DEF FoldEquation
  <2> QED BY <1>6, <2>1, <2>2 DEF FoldSolution
<1>10. it[D] \in W[D] /\ r = it[D]
  <2>1. it[D] \in W[D]
    BY <1>6 DEF FoldSolution
  <2> HIDE DEF P
  <2> QED BY <1>7, <1>8, <1>9, <2>1
<1>13. D \in SUBSET D
  OBVIOUS
<1> HIDE DEF D
<1>14. r \in V
  BY <1>10, <1>13
<1>15. Levels = r.of
  BY <1>20 DEF Levels, AssignLevel, seq
<1> QED BY <1>14, <1>15

\* The compute order that init makes has the operations of each queue.
LEMMA OrderMade ==
  ASSUME ProgramOK,
         NEW order, order = [q \in ComputeQueues |-> Ascending({i \in Ops : prog.queue[i] = q})]
  PROVE  OrderOK(order)
<1> DEFINE of(q) == {i \in Ops : prog.queue[i] = q}
<1>1. ASSUME NEW q \in ComputeQueues
      PROVE  order[q] \in Seq(of(q)) /\ order[q] \in Seq(Ops) /\ \A k \in DOMAIN order[q] : order[q][k] \in of(q)
  <2>1. of(q) \subseteq Nat /\ IsFiniteSet(of(q)) /\ of(q) \subseteq Ops
    BY FS_Subset DEF ProgramOK
  <2>2. order[q] = Ascending(of(q))
    OBVIOUS
  <2> HIDE DEF of
  <2>3. order[q] \in Seq(of(q))
    BY <2>1, <2>2, AscendingSorted
  <2> HIDE <2>2
  <2> QED BY <2>1, <2>3, ElementOfSeq, SMTT(30)
<1>2. order = [q \in ComputeQueues |-> order[q]]
  OBVIOUS
<1>3. \A q \in ComputeQueues : \A k \in DOMAIN order[q] : prog.queue[order[q][k]] = q
  BY <1>1
<1> HIDE DEF of
<1>4. \A q \in ComputeQueues : order[q] \in Seq(Ops)
  BY <1>1
<1>5. order \in [ComputeQueues -> Seq(Ops)]
  BY <1>2, <1>4
<1> QED BY <1>3, <1>5 DEF OrderOK

\* Fresh is a state in which nothing was scheduled.
LEMMA FreshState ==
  ASSUME ProgramOK, NEW s, s = Fresh
  PROVE  FreshOK(s)
<1> DEFINE addr == [b \in Buffers |-> Unallocated]
           none == [b \in Buffers |-> 0]
           opEnd == [i \in Ops |-> 0]
           pipelines == [q \in Queues |-> [k \in Instances(q) |-> 1]]
           gaps == <<Gap(0, prog.memory)>>
<1>1. s = [gaps |-> gaps, addr |-> addr, alive |-> {}, spilled |-> none, pipelines |-> pipelines,
           beginHeap |-> {}, readyCompute |-> {}, readyData |-> {}, producer |-> none, lastUse |-> none,
           opEnd |-> opEnd, deltas |-> NoDeltas]
  BY DEF Fresh, Instances
<1>2. prog.memory \in Nat \ {0}
  BY DEF ProgramOK
<1>3. IsGapList(gaps, prog.memory) /\ \A x \in Nat : Covers(gaps, x) <=> 0 <= x /\ x < prog.memory
  <2>1. 0 \in Nat /\ prog.memory \in Nat /\ 0 < prog.memory /\ prog.memory <= prog.memory
    BY <1>2
  <2> QED BY <2>1, OneGap
<1>4. gaps \in Seq(GapRec)
  BY <1>3 DEF IsGapList
<1>5. pipelines \in Pipelines
  <2>1. \A q \in Queues : [k \in Instances(q) |-> 1] \in [Instances(q) -> Cycles]
    BY DEF Cycles
  <2>2. \A q \in Queues : Instances(q) \in SUBSET (1 .. prog.ports)
    BY DEF ProgramOK, Instances
  <2>3. \A q \in Queues : [k \in Instances(q) |-> 1] \in PartialMaps(1 .. prog.ports, Cycles)
    BY <2>1, <2>2 DEF PartialMaps
  <2> QED BY <2>1, <2>3 DEF Pipelines
<1>6. NoDeltas \in Deltas
  <2>1. \A K, V : <<>> \in PartialMaps(K, V)
    <3> SUFFICES ASSUME NEW K, NEW V PROVE <<>> \in PartialMaps(K, V)
      OBVIOUS
    <3>1. <<>> \in [{} -> V] /\ {} \in SUBSET K
      OBVIOUS
    <3> QED BY <3>1 DEF PartialMaps
  <2> QED BY <2>1 DEF NoDeltas, Deltas
<1>7. addr \in [Buffers -> {Unallocated} \cup 0 .. prog.memory] /\ none \in [Buffers -> Ops \cup {0}]
      /\ none \in [Buffers -> Nat] /\ opEnd \in [Ops -> Nat]
  OBVIOUS
<1>8. {} \in Heaps
  BY FS_EmptySet DEF Heaps
<1> HIDE DEF gaps, pipelines
<1>9. s \in States
  BY <1>1, <1>4, <1>5, <1>6, <1>7, <1>8 DEF States
<1>10. \A i \in Ops : ~IsScheduled(s, i)
  BY <1>1 DEF IsScheduled
<1>11. Consistent(s) /\ Written(s)
  BY <1>1, <1>10, SMTT(30) DEF Consistent, Written
<1>12. Memory(s, s.alive)
  BY <1>1, <1>2, <1>3 DEF Memory
<1>13. s.alive = {} /\ s.beginHeap = {} /\ s.readyCompute = {} /\ s.readyData = {}
  BY <1>1
<1> HIDE <1>1
<1> QED BY <1>9, <1>10, <1>11, <1>12, <1>13 DEF FreshOK

\* AddReady does what ReadyAdded says.
LEMMA ReadyListsGrow ==
  ASSUME NEW s \in States, NEW ready \in SUBSET Ops, NEW others \in SUBSET Ops,
         NEW t, t = AddReady(s, ready, others)
  PROVE  ReadyAdded(s, t, ready, others)
<1>1. PICK data : data = s.readyData \cup (ready \cap isDataOp)
  OBVIOUS
<1>2. PICK compute : compute = s.readyCompute \cup {i \in others : IsCompute(i)}
  OBVIOUS
<1>3. t = [s EXCEPT !.readyData = data, !.readyCompute = compute]
  BY <1>1, <1>2 DEF AddReady
<1>4. s = Fields(s)
  BY StateFields
<1>5. t = [gaps |-> s.gaps, addr |-> s.addr, alive |-> s.alive, spilled |-> s.spilled,
           pipelines |-> s.pipelines, beginHeap |-> s.beginHeap, readyCompute |-> compute,
           readyData |-> data, producer |-> s.producer, lastUse |-> s.lastUse,
           opEnd |-> s.opEnd, deltas |-> s.deltas]
  <2> DEFINE r == Fields(s)
  <2>1. t = [r EXCEPT !.readyData = data, !.readyCompute = compute]
    BY <1>3, <1>4
  <2> QED BY <2>1 DEF Fields
<1>6. data \in SUBSET Ops /\ compute \in SUBSET Ops
  <2>1. s.readyData \in SUBSET Ops /\ s.readyCompute \in SUBSET Ops
    BY DEF States
  <2> QED BY <1>1, <1>2, <2>1
<1>7. t \in States
  BY <1>5, <1>6 DEF States
<1> QED BY <1>1, <1>2, <1>5, <1>7 DEF ReadyAdded

-----------------------------------------------------------------------------
(***************************************************************************)
(* Unlocking.                                                              *)
(***************************************************************************)
\* An operation depends on finitely many operations.
LEMMA DepsAreFinite ==
  ASSUME ProgramOK, NEW c \in Ops
  PROVE  /\ Deps(c) \in SUBSET Ops /\ IsFiniteSet(Deps(c))
         /\ \A S \in SUBSET Deps(c) : IsFiniteSet(S) /\ Cardinality(S) \in Nat
<1>1. Deps(c) \in SUBSET Ops
  BY DEF ProgramOK, Deps
<1>2. IsFiniteSet(Deps(c))
  BY <1>1, FS_Subset DEF ProgramOK
<1>3. ASSUME NEW S \in SUBSET Deps(c) PROVE IsFiniteSet(S) /\ Cardinality(S) \in Nat
  <2>1. IsFiniteSet(S)
    BY <1>2, FS_Subset
  <2> QED BY <2>1, FS_CardinalityType
<1> QED BY <1>1, <1>2, <1>3

\* Taking done away from the degrees adds it to D, and what becomes ready is what
\* depends on nothing else.
LEMMA DegreesReduced ==
  ASSUME ProgramOK, NEW D \in SUBSET Ops, NEW done \in SUBSET Ops, done \cap D = {},
         NEW degree, Degrees(degree, D)
  PROVE  /\ Degrees(Reduced(degree, done), D \cup done)
         /\ Unlocked(degree, done) = WaitingOnly(done, D \cup done)
<1>1. ASSUME NEW c \in Ops
      PROVE  /\ Reduced(degree, done)[c] = Cardinality(Deps(c) \ (D \cup done))
             /\ Cardinality(Deps(c) \cap done) >= degree[c] <=> Deps(c) \subseteq D \cup done
  <2> DEFINE A == Deps(c) \ D
             B == Deps(c) \cap done
             R == Deps(c) \ (D \cup done)
  <2>1. B \subseteq A /\ R = A \ B /\ B = A \cap B
    OBVIOUS
  <2>2. IsFiniteSet(A) /\ IsFiniteSet(B) /\ IsFiniteSet(R)
        /\ Cardinality(A) \in Nat /\ Cardinality(B) \in Nat /\ Cardinality(R) \in Nat
    BY DepsAreFinite
  <2>3. degree[c] = Cardinality(A)
    BY DEF Degrees
  <2> HIDE DEF A, B, R
  <2>4. Cardinality(R) = Cardinality(A) - Cardinality(B)
    <3>1. Cardinality(A \ B) = Cardinality(A) - Cardinality(A \cap B)
      BY <2>2, FS_Difference
    <3> QED BY <2>1, <3>1
  <2>5. R = {} <=> Cardinality(R) = 0
    BY <2>2, FS_EmptySet
  <2>6. Deps(c) \subseteq D \cup done <=> R = {}
    BY DEF R
  <2>7. Cardinality(B) >= degree[c] <=> Cardinality(R) = 0
    BY <2>2, <2>3, <2>4
  <2>8. Reduced(degree, done)[c] = Max({0, Cardinality(A) - Cardinality(B)})
    BY <2>3 DEF Reduced, B
  <2>9. Max({0, Cardinality(R)}) = Cardinality(R)
    <3> DEFINE S == {0, Cardinality(R)}
    <3>1. S \subseteq Nat /\ S # {}
      BY <2>2
    <3>2. IsFiniteSet(S)
      <4>1. IsFiniteSet({0}) /\ S = {0} \cup {Cardinality(R)}
        BY FS_Singleton
      <4> QED BY <4>1, FS_AddElement
    <3>3. Cardinality(R) \in S /\ \A x \in S : x = 0 \/ x = Cardinality(R)
      OBVIOUS
    <3> HIDE DEF S
    <3>4. Max(S) \in S /\ Max(S) \in Nat /\ Cardinality(R) <= Max(S)
      BY <3>1, <3>2, <3>3, MaxOfNaturals
    <3>5. Max(S) = Cardinality(R)
      BY <2>2, <3>3, <3>4
    <3> QED BY <3>5 DEF S
  <2> QED BY <2>4, <2>5, <2>6, <2>7, <2>8, <2>9 DEF R, B
<1>2. Reduced(degree, done) = [c \in Ops |-> Reduced(degree, done)[c]]
  BY DEF Reduced
<1>3. Degrees(Reduced(degree, done), D \cup done)
  BY <1>1, <1>2 DEF Degrees
<1>4. Unlocked(degree, done) = WaitingOnly(done, D \cup done)
  BY <1>1 DEF Unlocked, WaitingOnly
<1> QED BY <1>3, <1>4

\* A data operation is no compute operation.
LEMMA DataOpsAreDMAs ==
  ASSUME ProgramOK, DataOpsOK
  PROVE  \A i \in isDataOp : i \in Ops /\ ~IsCompute(i) /\ prog.ins[i] = {}
<1>1. \A i \in isDataOp : i \in Ops /\ prog.queue[i] = "DMA_DDR"
  BY DEF DataOpsOK
<1>2. \A i \in Ops : prog.queue[i] = "DMA_DDR" => prog.ins[i] = {}
  BY DEF ProgramOK
<1> QED BY <1>1, <1>2 DEF IsCompute, ComputeQueues

\* Unlocking operations that may be taken as done makes them done.
LEMMA OthersUnlocked ==
  ASSUME ProgramOK, DataOpsOK, NEW s, NEW dmas, NEW degree, NEW D \in SUBSET Ops, NEW done,
         MayUnlock(s, dmas, degree, D, done),
         NEW ready, NEW others, NEW t, NEW dmas2, NEW degree2,
         Unlocks(s, dmas, degree, done, ready, others, t, dmas2, degree2)
  PROVE  /\ UnlockedWith(s, t, dmas2, degree2, D, done)
         /\ ReadyAdded(s, t, ready, others) /\ ReadyOK(t) /\ dmas2 \in SUBSET OtherDMAs
<1> USE DEF MayUnlock, Unlocks
<1> DEFINE C == D \cup done
           data == ready \cap isDataOp
           E == C \cup data
<1>1. /\ Degrees(degree, D) /\ dmas \cap D = {}
      /\ \A i \in D \cap isDataOp : Deps(i) \subseteq D
      /\ \A i \in s.readyCompute \cup s.readyData \cup dmas : Deps(i) \subseteq D
      /\ \A i \in D \ isDataOp : IsScheduled(s, i)
      /\ \A i \in s.readyCompute : ~IsScheduled(s, i)
      /\ \A i \in Ops \ isDataOp : IsScheduled(s, i) => Deps(i) \subseteq D
  BY DEF DoneCore, ReadyFollow
<1>2. Degrees(Reduced(degree, done), C) /\ ready = {c \in Ops : Deps(c) \cap done # {} /\ Deps(c) \subseteq C}
  <2>1. Degrees(degree, D)
    BY <1>1
  <2>2. Degrees(Reduced(degree, done), C) /\ ready = WaitingOnly(done, C)
    BY <2>1, DegreesReduced
  <2> QED BY <2>2 DEF WaitingOnly
<1>3. data \cap C = {} /\ data \in SUBSET Ops /\ C \in SUBSET Ops
  BY <1>1, <1>2
<1> HIDE DEF C, data
<1>4. /\ Degrees(degree2, E)
      /\ Unlocked(Reduced(degree, done), data) = {c \in Ops : Deps(c) \cap data # {} /\ Deps(c) \subseteq E}
  <2>1. degree2 = Reduced(Reduced(degree, done), data)
    BY DEF data
  <2>2. Degrees(degree2, E) /\ Unlocked(Reduced(degree, done), data) = WaitingOnly(data, E)
    <3>1. Degrees(Reduced(degree, done), C)
      BY <1>2
    <3> QED BY <1>3, <2>1, <3>1, DegreesReduced
  <2> QED BY <2>2 DEF WaitingOnly
<1>5. others = (ready \ isDataOp) \cup {c \in Ops : Deps(c) \cap data # {} /\ Deps(c) \subseteq E}
  BY <1>4 DEF ReadyWith, data
<1>6. /\ isDataOp \subseteq Ops
      /\ \A i \in isDataOp : ~IsCompute(i) /\ Deps(i) \cap isDataOp = {}
  BY DataOpsAreDMAs DEF DataOpsOK
<1>7. data \subseteq isDataOp /\ C = D \cup done /\ C \subseteq E /\ data \subseteq ready
  BY DEF data, C
<1>8. \A i \in others : i \in Ops /\ i \notin isDataOp /\ Deps(i) \subseteq E
  <2>1. \A c \in isDataOp : Deps(c) \cap data = {}
    BY <1>6, <1>7
  <2> QED BY <1>2, <1>5, <1>7, <2>1
<1>9. \A i \in others : ~(Deps(i) \subseteq D)
  <2>1. \A i \in ready : ~(Deps(i) \subseteq D)
    BY <1>2
  <2>2. \A c \in Ops : Deps(c) \cap data # {} => ~(Deps(c) \subseteq D)
    BY <1>3, <1>7
  <2> QED BY <1>5, <2>1, <2>2
<1>10. \A i \in others : ~IsScheduled(s, i)
  BY <1>1, <1>8, <1>9
<1>11. \A i \in others : i \notin E
  BY <1>1, <1>7, <1>8, <1>10
<1>12. s \in States /\ ready \in SUBSET Ops /\ others \in SUBSET Ops
  BY <1>2, <1>8 DEF ReadyOK
<1>13. ReadyAdded(s, t, ready, others)
  BY <1>12, ReadyListsGrow
<1>14. /\ t \in States /\ t.opEnd = s.opEnd
       /\ t.readyData = s.readyData \cup data
       /\ t.readyCompute = s.readyCompute \cup {i \in others : IsCompute(i)}
  BY <1>13 DEF ReadyAdded, data
<1>15. ReadyOK(t)
  BY <1>6, <1>7, <1>12, <1>14 DEF ReadyOK
<1>16. dmas2 \in SUBSET OtherDMAs
  BY <1>8 DEF OtherDMAs
<1>17. \A i \in Ops : IsScheduled(t, i) <=> IsScheduled(s, i)
  BY <1>14 DEF IsScheduled
<1>18. ReadyFollow(t, dmas2, E)
  <2>1. \A i \in t.readyCompute \cup t.readyData \cup dmas2 : Deps(i) \subseteq E
    BY <1>1, <1>2, <1>7, <1>8, <1>14
  <2>2. \A i \in E \ isDataOp : IsScheduled(t, i)
    BY <1>1, <1>3, <1>7, <1>17
  <2>3. \A i \in t.readyCompute : ~IsScheduled(t, i)
    <3>1. \A i \in s.readyCompute : i \in Ops
      BY DEF ReadyOK
    <3> QED BY <1>1, <1>10, <1>12, <1>14, <1>17, <3>1
  <2>4. \A i \in Ops \ isDataOp : IsScheduled(t, i) => Deps(i) \subseteq E
    BY <1>1, <1>7, <1>17
  <2> QED BY <2>3, <2>4, <2>1, <2>2 DEF ReadyFollow
<1>19. dmas2 \cap E = {}
  <2>1. dmas \cap isDataOp = {}
    BY DEF OtherDMAs
  <2> QED BY <1>1, <1>7, <1>11, <2>1
<1>20. \A i \in E \cap isDataOp : Deps(i) \subseteq E
  BY <1>1, <1>2, <1>7
<1>21. E \in SUBSET Ops /\ D \cup done \subseteq E /\ E \ (D \cup done) \subseteq isDataOp
  BY <1>3, <1>7
<1>22. DoneCore(t, dmas2, degree2, E)
  BY <1>4, <1>18, <1>19, <1>20 DEF DoneCore
<1> HIDE DEF E
<1> QED BY <1>13, <1>15, <1>16, <1>21, <1>22 DEF UnlockedWith

-----------------------------------------------------------------------------
(***************************************************************************)
(* Selecting.                                                              *)
(***************************************************************************)
\* What an operation brings to life was not alive.
LEMMA BuffersForTyped ==
  ASSUME ProgramOK, NEW s \in States, NEW i \in Ops
  PROVE  BuffersFor(s, i) \in SUBSET Buffers /\ BuffersFor(s, i) \cap s.alive = {}
<1>1. \A j \in Ops : UsedBuffers(j) \subseteq Buffers /\ Deps(j) \subseteq Ops
  BY DEF ProgramOK, UsedBuffers, Deps
<1>2. \A j \in Ops : NonAlive(s, j) \subseteq Buffers \ s.alive
  BY <1>1 DEF NonAlive
<1>3. NeededDeps(s, i) \subseteq Ops
  BY <1>1 DEF NeededDeps
<1>4. UNION {NonAlive(s, d) : d \in NeededDeps(s, i)} \subseteq Buffers \ s.alive
  BY <1>2, <1>3
<1> QED BY <1>2, <1>4 DEF BuffersFor

\* A state is not disturbed by placing nothing.
LEMMA NothingFits ==
  ASSUME ProgramOK, NEW s \in States
  PROVE  CanAlloc(s, {})
<1> DEFINE seq == SortUsedBuffers({})
           D == DOMAIN seq
           start == [gaps |-> s.gaps, addr |-> s.addr, fits |-> TRUE]
           V == {start}
           Op(acc, b) == PlaceOne(acc, b)
           step == [p \in V \X {} |-> Op(p[1], p[2])]
           W == [p \in SUBSET D |-> V]
           P(jt) == jt = [p \in SUBSET D |-> IF p = {} THEN start ELSE Op(jt[p \ {Max(p)}], seq[Max(p)])]
<1>1. seq \in Seq({}) /\ D = {}
  <2>1. seq \in Seq({}) /\ \A k \in D : seq[k] \in {}
    BY UsedBuffersSorted, ElementOfSeq
  <2> QED BY <2>1
<1> HIDE DEF seq
<1> HIDE DEF Op
<1>4. step \in [V \X {} -> V]
  OBVIOUS
<1>5. FoldStays(V, W, step, start, seq)
  BY <1>1 DEF FoldStays
<1>20. PICK r : r = PlaceBuffers(s.gaps, s.addr, {})
  OBVIOUS
<1>6. PICK it \in [SUBSET D -> V] : FoldSolution(W, step, start, seq, it)
  BY <1>1, <1>4, <1>5, FoldWithin
<1>7. r = (CHOOSE jt : P(jt))[D]
  BY <1>20 DEF PlaceBuffers, PlaceOne, FoldLeft, MapThenFoldSet, Op, seq
<1>8. P(it)
  <2>1. ASSUME NEW p \in SUBSET D
        PROVE  it[p] = IF p = {} THEN start ELSE Op(it[p \ {Max(p)}], seq[Max(p)])
    <3>1. CASE p = {}
      BY <1>6, <3>1 DEF FoldSolution, FoldEquation
    <3>2. CASE p # {}
      <4>1. Max(p) \in p /\ p \ {Max(p)} \in SUBSET D
        BY <3>2, <1>1, MaxOfPositions
      <4>2. it[p] = step[<<it[p \ {Max(p)}], seq[Max(p)]>>]
        BY <1>6, <3>2 DEF FoldSolution, FoldEquation
      <4>3. it[p \ {Max(p)}] \in V /\ seq[Max(p)] \in {}
        BY <4>1, <1>1, ElementOfSeq
      <4> HIDE DEF V
      <4> QED BY <3>2, <4>2, <4>3
    <3> QED BY <3>1, <3>2
  <2> HIDE DEF step, V
  <2> QED BY <2>1
<1>9. \A jt : P(jt) => jt[D] = it[D]
  <2> SUFFICES ASSUME NEW jt, P(jt) PROVE jt[D] = it[D]
    OBVIOUS
  <2>1. jt[{}] = start
    OBVIOUS
  <2>2. ASSUME NEW p \in SUBSET D, p # {}, jt[p \ {Max(p)}] = it[p \ {Max(p)}]
        PROVE  FoldEquation(step, start, seq, jt, p)
    <3>1. Max(p) \in p /\ p \ {Max(p)} \in SUBSET D
      BY <2>2, <1>1, MaxOfPositions
    <3>2. it[p \ {Max(p)}] \in V /\ seq[Max(p)] \in {}
      BY <3>1, <1>1, ElementOfSeq
    <3>3. jt[p] = Op(jt[p \ {Max(p)}], seq[Max(p)])
      BY <2>2
    <3> HIDE DEF V
    <3> QED BY <2>2, <3>2, <3>3 DEF FoldEquation
  <2> QED BY <1>6, <2>1, <2>2 DEF FoldSolution
<1>10. it[D] \in W[D] /\ r = it[D]
  <2>1. it[D] \in W[D]
    BY <1>6 DEF FoldSolution
  <2> HIDE DEF P
  <2> QED BY <1>7, <1>8, <1>9, <2>1
<1>13. D \in SUBSET D
  OBVIOUS
<1> HIDE DEF D
<1>14. r \in V
  BY <1>10, <1>13
<1>15. r.fits
  BY <1>14
<1> QED BY <1>15, <1>20 DEF CanAlloc

\* One operation more is chosen if it fits.
LEMMA OneSelected ==
  ASSUME ProgramOK, m \in States, NEW T \in SUBSET Ops, NEW B, NEW v, Selected(v, T, B),
         NEW i \in Ops \ T, NEW w, w = AddSelected(v, i)
  PROVE  Selected(w, T \cup {i}, B)
<1>1. /\ v.ops \in Seq(T) /\ Distinct(v.ops) /\ v.bufs \in SUBSET Buffers
      /\ v.bufs = B \cup UNION {BuffersFor(m, v.ops[k]) : k \in DOMAIN v.ops}
  BY DEF Selected
<1>2. v.ops \in Seq(T \cup {i})
  BY <1>1
<1>3. CASE ~CanAlloc(m, BuffersFor(m, i) \cup v.bufs)
  <2>1. w = v
    BY <1>3 DEF AddSelected
  <2> QED BY <1>2, <2>1 DEF Selected
<1>4. CASE CanAlloc(m, BuffersFor(m, i) \cup v.bufs)
  <2>1. w.ops = Append(v.ops, i) /\ w.bufs = BuffersFor(m, i) \cup v.bufs
    BY <1>4 DEF AddSelected
  <2>2. CanAlloc(m, w.bufs)
    BY <1>4, <2>1
  <2>3. w.ops \in Seq(T \cup {i})
    BY <1>2, <2>1
  <2>4. /\ Len(v.ops) \in Nat /\ DOMAIN v.ops = 1 .. Len(v.ops)
        /\ DOMAIN w.ops = 1 .. Len(v.ops) + 1
        /\ \A k \in DOMAIN v.ops : w.ops[k] = v.ops[k] /\ v.ops[k] \in T
        /\ w.ops[Len(v.ops) + 1] = i
    BY <1>1, <2>1
  <2>5. Distinct(w.ops)
    <3> SUFFICES ASSUME NEW j \in DOMAIN w.ops, NEW k \in DOMAIN w.ops, w.ops[j] = w.ops[k] PROVE j = k
      BY DEF Distinct
    <3>1. \A x \in DOMAIN w.ops : x \in DOMAIN v.ops \/ x = Len(v.ops) + 1
      BY <2>4
    <3>2. i \notin T
      OBVIOUS
    <3> QED BY <1>1, <2>4, <3>1, <3>2 DEF Distinct
  <2>6. w.bufs = B \cup UNION {BuffersFor(m, w.ops[k]) : k \in DOMAIN w.ops}
    <3>1. DOMAIN w.ops = DOMAIN v.ops \cup {Len(v.ops) + 1}
      BY <2>4
    <3>2. {BuffersFor(m, w.ops[k]) : k \in DOMAIN w.ops}
            = {BuffersFor(m, v.ops[k]) : k \in DOMAIN v.ops} \cup {BuffersFor(m, i)}
      BY <2>4, <3>1
    <3> DEFINE X == {BuffersFor(m, v.ops[k]) : k \in DOMAIN v.ops}
               Y == {BuffersFor(m, w.ops[k]) : k \in DOMAIN w.ops}
    <3>3. w.bufs = BuffersFor(m, i) \cup v.bufs /\ v.bufs = B \cup UNION X
      BY <1>1, <2>1
    <3>4. Y = X \cup {BuffersFor(m, i)}
      BY <3>2
    <3> HIDE DEF X, Y
    <3>5. UNION Y = (UNION X) \cup BuffersFor(m, i)
      BY <3>4
    <3>6. w.bufs = B \cup UNION Y
      BY <3>3, <3>5
    <3> QED BY <3>6 DEF Y
  <2>7. w.bufs \in SUBSET Buffers
    <3>1. BuffersFor(m, i) \in SUBSET Buffers
      BY BuffersForTyped
    <3> QED BY <1>1, <2>1, <3>1
  <2> QED BY <2>2, <2>3, <2>5, <2>6, <2>7 DEF Selected
<1> QED BY <1>3, <1>4

\* Select chooses operations of the list, and their buffers fit together.
LEMMA SelectedAll ==
  ASSUME ProgramOK, m \in States, NEW T \in SUBSET Ops, NEW more \in SUBSET Ops, T \cap more = {}, NEW B,
         NEW start, start \in [ops : Seq(Ops), bufs : SUBSET Buffers], Selected(start, T, B),
         NEW ops \in Seq(more), Distinct(ops), NEW r, r = Select(ops, start)
  PROVE  Selected(r, T \cup more, B) /\ r \in [ops : Seq(Ops), bufs : SUBSET Buffers]
<1> DEFINE seq == ops
           D == DOMAIN seq
           V == [ops : Seq(Ops), bufs : SUBSET Buffers]
           Op(acc, i) == AddSelected(acc, i)
           step == [p \in V \X more |-> Op(p[1], p[2])]
           left(p) == {seq[k] : k \in p}
           W == [p \in SUBSET D |-> {v \in V : Selected(v, T \cup left(p), B)}]
           P(jt) == jt = [p \in SUBSET D |-> IF p = {} THEN start ELSE Op(jt[p \ {Max(p)}], seq[Max(p)])]
<1>1. seq \in Seq(more) /\ \A k \in D : seq[k] \in more
  BY ElementOfSeq
<1>2. \A j, k \in D : seq[j] = seq[k] => j = k
  BY DEF Distinct
<1> HIDE DEF seq
<1>3. ASSUME NEW v \in V, NEW i \in more, NEW w, w = Op(v, i)
      PROVE  w \in V /\ \A S \in SUBSET Ops : i \notin S /\ Selected(v, S, B) => Selected(w, S \cup {i}, B)
  <2>1. w = AddSelected(v, i) /\ i \in Ops
    BY <1>3
  <2>2. w \in V
    <3>1. BuffersFor(m, i) \in SUBSET Buffers
      BY <2>1, BuffersForTyped
    <3>2. v.ops \in Seq(Ops) /\ v.bufs \in SUBSET Buffers
      OBVIOUS
    <3>3. Append(v.ops, i) \in Seq(Ops) /\ BuffersFor(m, i) \cup v.bufs \in SUBSET Buffers
      BY <2>1, <3>1, <3>2
    <3>4. PICK longer \in Seq(Ops) : longer = Append(v.ops, i)
      BY <3>3
    <3>5. PICK bigger \in SUBSET Buffers : bigger = BuffersFor(m, i) \cup v.bufs
      BY <3>3
    <3>6. w = v \/ w = [ops |-> longer, bufs |-> bigger]
      BY <2>1, <3>4, <3>5 DEF AddSelected
    <3> HIDE <1>3
    <3> QED BY <3>6
  <2> QED BY <2>1, <2>2, OneSelected
<1> HIDE DEF Op
<1>4. step \in [V \X more -> V]
  <2> HIDE DEF V
  <2> QED BY <1>3
<1>5. FoldStays(V, W, step, start, seq)
  <2>1. start \in V /\ start \in W[{}]
    <3>1. T \cup left({}) = T
      OBVIOUS
    <3> HIDE DEF left
    <3> QED BY <3>1
  <2>2. ASSUME NEW p \in SUBSET D, p # {}, NEW v \in V, v \in W[p \ {Max(p)}]
        PROVE  step[<<v, seq[Max(p)]>>] \in W[p]
    <3> DEFINE i == seq[Max(p)]
               w == Op(v, i)
               before == T \cup left(p \ {Max(p)})
    <3>1. Max(p) \in p /\ p \ {Max(p)} \in SUBSET D
      BY <2>2, <1>1, MaxOfPositions
    <3>2. i \in more /\ i \notin before /\ before \subseteq Ops
      BY <1>1, <1>2, <3>1
    <3>3. v \in V /\ Selected(v, before, B)
      <4> HIDE DEF left, V, D
      <4> QED BY <2>2, <3>1
    <3>4. step[<<v, i>>] = w
      <4> HIDE DEF V
      <4> QED BY <3>2, <3>3
    <3>5. T \cup left(p) = before \cup {i}
      BY <3>1
    <3> HIDE DEF step, w, i, left, before
    <3>6. w \in V /\ Selected(w, before \cup {i}, B)
      <4> HIDE DEF V
      <4> QED BY <1>3, <3>2, <3>3 DEF w
    <3> HIDE DEF V
    <3> QED BY <3>1, <3>4, <3>5, <3>6 DEF i
  <2> HIDE DEF V
  <2> QED BY <2>1, <2>2 DEF FoldStays
<1>6. PICK it \in [SUBSET D -> V] : FoldSolution(W, step, start, seq, it)
  BY <1>1, <1>4, <1>5, FoldWithin
<1>7. r = (CHOOSE jt : P(jt))[D]
  BY DEF Select, AddSelected, FoldLeft, MapThenFoldSet, Op, seq
<1>8. P(it)
  <2>1. ASSUME NEW p \in SUBSET D
        PROVE  it[p] = IF p = {} THEN start ELSE Op(it[p \ {Max(p)}], seq[Max(p)])
    <3>1. CASE p = {}
      BY <1>6, <3>1 DEF FoldSolution, FoldEquation
    <3>2. CASE p # {}
      <4>1. Max(p) \in p /\ p \ {Max(p)} \in SUBSET D
        BY <3>2, <1>1, MaxOfPositions
      <4>2. it[p] = step[<<it[p \ {Max(p)}], seq[Max(p)]>>]
        BY <1>6, <3>2 DEF FoldSolution, FoldEquation
      <4>3. it[p \ {Max(p)}] \in V /\ seq[Max(p)] \in more
        BY <4>1, <1>1, ElementOfSeq
      <4> HIDE DEF V
      <4> QED BY <3>2, <4>2, <4>3
    <3> QED BY <3>1, <3>2
  <2> HIDE DEF step, V
  <2> QED BY <2>1
<1>9. \A jt : P(jt) => jt[D] = it[D]
  <2> SUFFICES ASSUME NEW jt, P(jt) PROVE jt[D] = it[D]
    OBVIOUS
  <2>1. jt[{}] = start
    OBVIOUS
  <2>2. ASSUME NEW p \in SUBSET D, p # {}, jt[p \ {Max(p)}] = it[p \ {Max(p)}]
        PROVE  FoldEquation(step, start, seq, jt, p)
    <3>1. Max(p) \in p /\ p \ {Max(p)} \in SUBSET D
      BY <2>2, <1>1, MaxOfPositions
    <3>2. it[p \ {Max(p)}] \in V /\ seq[Max(p)] \in more
      BY <3>1, <1>1, ElementOfSeq
    <3>3. jt[p] = Op(jt[p \ {Max(p)}], seq[Max(p)])
      BY <2>2
    <3> HIDE DEF V
    <3> QED BY <2>2, <3>2, <3>3 DEF FoldEquation
  <2> QED BY <1>6, <2>1, <2>2 DEF FoldSolution
<1>10. it[D] \in W[D] /\ r = it[D]
  <2>1. it[D] \in W[D]
    BY <1>6 DEF FoldSolution
  <2> HIDE DEF P
  <2> QED BY <1>7, <1>8, <1>9, <2>1
<1>13. D \in SUBSET D
  OBVIOUS
<1>14. T \cup left(D) \subseteq T \cup more
  BY <1>1
<1> HIDE DEF left, D
<1>15. r \in V /\ Selected(r, T \cup left(D), B)
  <2> HIDE DEF V
  <2> QED BY <1>10, <1>13
<1>16. r.ops \in Seq(T \cup more)
  <2>1. r.ops \in Seq(T \cup left(D))
    BY <1>15 DEF Selected
  <2> QED BY <1>14, <2>1
<1> QED BY <1>15, <1>16 DEF Selected

\* The operations that could start are ready, each listed once.
LEMMA StartableTyped ==
  ASSUME ProgramOK, ReadyOK(m), OrderOK(computeOrder), NEW c \in BOOLEAN
  PROVE  StartableOps(c) \in Seq(Startables(c)) /\ Distinct(StartableOps(c))
<1>1. ASSUME NEW q \in ComputeQueues
      PROVE  Startable(q, c) = <<>> \/ \E i \in Startables(c) : Startable(q, c) = <<i>> /\ prog.queue[i] = q
  <2>1. computeOrder[q] \in Seq(Ops) /\ \A k \in DOMAIN computeOrder[q] : prog.queue[computeOrder[q][k]] = q
    BY DEF OrderOK
  <2>2. computeOrder[q] # <<>> => prog.queue[Head(computeOrder[q])] = q
    BY <2>1
  <2>3. CASE /\ computeOrder[q] # <<>>
             /\ Head(computeOrder[q]) \in m.readyCompute
             /\ \A e \in endHeap : e.queue # q
             /\ IsNoInputDepComputeOp(Head(computeOrder[q])) = c
    <3>1. Startable(q, c) = <<Head(computeOrder[q])>>
      BY <2>3 DEF Startable
    <3>2. Head(computeOrder[q]) \in Startables(c)
      BY <2>3 DEF Startables
    <3> QED BY <2>2, <2>3, <3>1, <3>2
  <2>4. CASE ~(/\ computeOrder[q] # <<>>
               /\ Head(computeOrder[q]) \in m.readyCompute
               /\ \A e \in endHeap : e.queue # q
               /\ IsNoInputDepComputeOp(Head(computeOrder[q])) = c)
    <3>1. Startable(q, c) = <<>>
      BY <2>4 DEF Startable
    <3> QED BY <3>1
  <2> QED BY <2>3, <2>4
<1>2. PICK a : a = Startable("DPU", c)
  OBVIOUS
<1>3. PICK b : b = Startable("SHAVE_ACT", c)
  OBVIOUS
<1>4. StartableOps(c) = a \o b
  BY <1>2, <1>3 DEF StartableOps
<1>5. a = <<>> \/ \E i \in Startables(c) : a = <<i>> /\ prog.queue[i] = "DPU"
  BY <1>1, <1>2 DEF ComputeQueues
<1>6. b = <<>> \/ \E i \in Startables(c) : b = <<i>> /\ prog.queue[i] = "SHAVE_ACT"
  BY <1>1, <1>3 DEF ComputeQueues
<1>7. CASE a = <<>> /\ b = <<>>
  <2>1. a \o b = <<>>
    BY <1>7
  <2> QED BY <1>4, <2>1 DEF Distinct
<1>8. CASE a = <<>> /\ b # <<>>
  <2>1. PICK i \in Startables(c) : b = <<i>>
    BY <1>6, <1>8
  <2>2. a \o b = <<i>>
    BY <1>8, <2>1
  <2> QED BY <1>4, <2>2 DEF Distinct
<1>9. CASE a # <<>> /\ b = <<>>
  <2>1. PICK i \in Startables(c) : a = <<i>>
    BY <1>5, <1>9
  <2>2. a \o b = <<i>>
    BY <1>9, <2>1
  <2> QED BY <1>4, <2>2 DEF Distinct
<1>10. CASE a # <<>> /\ b # <<>>
  <2>1. PICK i \in Startables(c) : a = <<i>> /\ prog.queue[i] = "DPU"
    BY <1>5, <1>10
  <2>2. PICK j \in Startables(c) : b = <<j>> /\ prog.queue[j] = "SHAVE_ACT"
    BY <1>6, <1>10
  <2>3. a \o b = <<i, j>> /\ i # j
    <3>1. i # j
      BY <2>1, <2>2
    <3> QED BY <2>1, <2>2, <3>1, TwoElements
  <2> QED BY <1>4, <2>3 DEF Distinct
<1> QED BY <1>7, <1>8, <1>9, <1>10

\* selectOpsToSchedule chooses ready compute operations that fit.
LEMMA ComputeOpsSelected ==
  ASSUME ProgramOK, ReadyOK(m), OrderOK(computeOrder),
         NEW r, r = SelectMore(StartableOps(FALSE), StartableOps(TRUE),
                               Select(StartableOps(FALSE), [ops |-> <<>>, bufs |-> {}]))
  PROVE  Selected(r, m.readyCompute, {})
<1>1. PICK none : none = [ops |-> <<>>, bufs |-> {}]
  OBVIOUS
<1>2. m \in States /\ m.readyCompute \subseteq Ops
  BY DEF ReadyOK
<1>3. /\ Startables(FALSE) \in SUBSET Ops /\ Startables(TRUE) \in SUBSET Ops
      /\ Startables(FALSE) \cap Startables(TRUE) = {}
      /\ Startables(FALSE) \cup Startables(TRUE) \subseteq m.readyCompute
  BY <1>2 DEF Startables
<1>4. Selected(none, {}, {}) /\ none \in [ops : Seq(Ops), bufs : SUBSET Buffers]
  <2>1. CanAlloc(m, {})
    BY <1>2, NothingFits
  <2>2. none.ops = <<>> /\ none.bufs = {}
    BY <1>1
  <2>3. {} = {} \cup UNION {BuffersFor(m, none.ops[k]) : k \in DOMAIN none.ops}
    BY <2>2
  <2> QED BY <1>1, <2>1, <2>2, <2>3 DEF Selected, Distinct
<1>5. PICK first : first = Select(StartableOps(FALSE), none)
  OBVIOUS
<1>6. Selected(first, Startables(FALSE), {}) /\ first \in [ops : Seq(Ops), bufs : SUBSET Buffers]
  <2>1. StartableOps(FALSE) \in Seq(Startables(FALSE)) /\ Distinct(StartableOps(FALSE))
    BY StartableTyped
  <2>2. PICK ops : ops = StartableOps(FALSE)
    OBVIOUS
  <2>6. {} \in SUBSET Ops /\ {} \cap Startables(FALSE) = {}
    OBVIOUS
  <2>3. PICK T \in SUBSET Ops : T = {} /\ T \cap Startables(FALSE) = {}
    BY <2>6
  <2>4. Selected(none, T, {})
    BY <1>4, <2>3
  <2>5. Selected(first, T \cup Startables(FALSE), {}) /\ first \in [ops : Seq(Ops), bufs : SUBSET Buffers]
    BY <1>2, <1>3, <1>4, <1>5, <2>3, <2>4, <2>1, <2>2, SelectedAll
  <2> QED BY <2>3, <2>5
<1>7. r = first \/ r = Select(StartableOps(TRUE), first)
  BY <1>1, <1>5 DEF SelectMore
<1>8. \E T \in SUBSET m.readyCompute : Selected(r, T, {})
  <2>1. CASE r = first
    BY <1>3, <1>6, <2>1
  <2>2. CASE r = Select(StartableOps(TRUE), first)
    <3>1. StartableOps(TRUE) \in Seq(Startables(TRUE)) /\ Distinct(StartableOps(TRUE))
      BY StartableTyped
    <3>2. Selected(r, Startables(FALSE) \cup Startables(TRUE), {})
      BY <1>2, <1>3, <1>6, <2>2, <3>1, SelectedAll
    <3> QED BY <1>3, <3>2
  <2> QED BY <1>7, <2>1, <2>2
<1>9. PICK T \in SUBSET m.readyCompute : Selected(r, T, {})
  BY <1>8
<1>10. r.ops \in Seq(m.readyCompute)
  <2>1. r.ops \in Seq(T)
    BY <1>9 DEF Selected
  <2>2. T \subseteq m.readyCompute
    BY <1>9
  <2> QED BY <2>1, <2>2, SeqWidens
<1> QED BY <1>9, <1>10 DEF Selected

\* The DMA operations chosen are ready and fit.
LEMMA DMAsSelected ==
  ASSUME ProgramOK, m \in States, readyDMA \in SUBSET Ops, NEW bufs \in SUBSET Buffers, CanAlloc(m, bufs),
         NEW r, r = Select(Ascending(readyDMA), [ops |-> <<>>, bufs |-> bufs])
  PROVE  Selected(r, readyDMA, bufs)
<1>1. PICK none : none = [ops |-> <<>>, bufs |-> bufs]
  OBVIOUS
<1>2. Selected(none, {}, bufs) /\ none \in [ops : Seq(Ops), bufs : SUBSET Buffers]
  <2>1. none.ops = <<>> /\ none.bufs = bufs
    BY <1>1
  <2>2. bufs = bufs \cup UNION {BuffersFor(m, none.ops[k]) : k \in DOMAIN none.ops}
    BY <2>1
  <2> QED BY <1>1, <2>1, <2>2 DEF Selected, Distinct
<1>3. readyDMA \subseteq Nat /\ IsFiniteSet(readyDMA)
  BY FS_Subset DEF ProgramOK
<1>4. PICK ops : ops = Ascending(readyDMA)
  OBVIOUS
<1>5. ops \in Seq(readyDMA) /\ Distinct(ops)
  BY <1>3, <1>4, AscendingSorted DEF Distinct
<1>6. r = Select(ops, none)
  BY <1>1, <1>4
<1>10. {} \in SUBSET Ops /\ {} \cap readyDMA = {}
  OBVIOUS
<1>7. PICK T \in SUBSET Ops : T = {} /\ T \cap readyDMA = {}
  BY <1>10
<1>8. Selected(none, T, bufs)
  BY <1>2, <1>7
<1>9. Selected(r, T \cup readyDMA, bufs)
  BY <1>2, <1>5, <1>6, <1>7, <1>8, SelectedAll
<1> QED BY <1>7, <1>9

-----------------------------------------------------------------------------
(***************************************************************************)
(* Scheduling an operation that was selected, or prefetching one.          *)
(***************************************************************************)
\* Taking an operation off the ready list changes nothing else.
LEMMA ReadyComputeSet ==
  ASSUME NEW t \in States, NEW left \in SUBSET Ops, NEW u, u = [t EXCEPT !.readyCompute = left]
  PROVE  /\ u \in States
         /\ u = [gaps |-> t.gaps, addr |-> t.addr, alive |-> t.alive, spilled |-> t.spilled,
           pipelines |-> t.pipelines, beginHeap |-> t.beginHeap, readyCompute |-> left,
           readyData |-> t.readyData, producer |-> t.producer, lastUse |-> t.lastUse,
           opEnd |-> t.opEnd, deltas |-> t.deltas]
<1>1. u = [gaps |-> t.gaps, addr |-> t.addr, alive |-> t.alive, spilled |-> t.spilled,
           pipelines |-> t.pipelines, beginHeap |-> t.beginHeap, readyCompute |-> left,
           readyData |-> t.readyData, producer |-> t.producer, lastUse |-> t.lastUse,
           opEnd |-> t.opEnd, deltas |-> t.deltas]
  <2> DEFINE r == Fields(t)
  <2>1. t = r
    BY StateFields
  <2>2. u = [r EXCEPT !.readyCompute = left]
    BY <2>1
  <2> QED BY <2>2 DEF Fields
<1> QED BY <1>1 DEF States

\* Scheduling an operation does what TakesOp says.
LEMMA OpTaken ==
  ASSUME ProgramOK, DataOpsOK, NEW s, ReadyOK(s), Consistent(s), Written(s), NEW i \in Ops,
         NeededDeps(s, i) \subseteq isDataOp, NEW u, u = [ScheduleOp(s, i) EXCEPT !.readyCompute = @ \ {i}]
  PROVE  TakesOp(s, u, i)
<1>1. PICK t : t = ScheduleOp(s, i)
  OBVIOUS
<1>2. s \in States
  BY DEF ReadyOK
<1>3. OpDone(s, t, i)
  BY <1>1, <1>2, OpGrows
<1>4. Grows(s, t, NeededDeps(s, i) \cup {i})
  BY <1>3 DEF OpDone
<1>5. t \in States /\ Consistent(t)
  BY <1>4 DEF Grows
<1>6. PICK left : left = t.readyCompute \ {i}
  OBVIOUS
<1>26. left \in SUBSET Ops
  BY <1>5, <1>6 DEF States
<1>27. u = [t EXCEPT !.readyCompute = left]
  BY <1>1, <1>6
<1>28. u = [gaps |-> t.gaps, addr |-> t.addr, alive |-> t.alive, spilled |-> t.spilled,
           pipelines |-> t.pipelines, beginHeap |-> t.beginHeap, readyCompute |-> left,
           readyData |-> t.readyData, producer |-> t.producer, lastUse |-> t.lastUse,
           opEnd |-> t.opEnd, deltas |-> t.deltas] /\ u \in States
  BY <1>5, <1>26, <1>27, ReadyComputeSet
<1>7. u \in States
  BY <1>28
<1>8. /\ u.gaps = t.gaps /\ u.addr = t.addr /\ u.alive = t.alive /\ u.spilled = t.spilled
      /\ u.beginHeap = t.beginHeap /\ u.readyCompute = t.readyCompute \ {i} /\ u.readyData = t.readyData
      /\ u.producer = t.producer /\ u.lastUse = t.lastUse /\ u.opEnd = t.opEnd /\ u.deltas = t.deltas
  BY <1>6, <1>28
<1>9. /\ t.gaps = s.gaps /\ t.addr = s.addr /\ t.readyCompute = s.readyCompute /\ t.readyData \subseteq s.readyData
      /\ \A b \in Buffers : s.producer[b] # 0 => t.producer[b] # 0
      /\ \A b \in Buffers : t.spilled[b] = s.spilled[b] \/ t.spilled[b] = 0
      /\ s.beginHeap \subseteq t.beginHeap
      /\ \A e \in t.beginHeap \ s.beginHeap :
           e.type # "write" /\ (IsOriginal(e) => e.op \in NeededDeps(s, i) \cup {i})
  BY <1>4 DEF Grows
<1>10. /\ \A j \in Ops : IsScheduled(s, j) => IsScheduled(t, j)
       /\ \A j \in Ops : IsScheduled(t, j) => IsScheduled(s, j) \/ j \in NeededDeps(s, i) \cup {i}
       /\ \A saved : DeltasFit(saved, s) => DeltasFit(saved, t)
  BY <1>4 DEF Grows
<1>11. \A j \in Ops : IsScheduled(u, j) <=> IsScheduled(t, j)
  BY <1>8 DEF IsScheduled
<1>12. /\ t.alive = s.alive \cup BuffersFor(s, i)
       /\ \A d \in Deps(i) \cup {i} : IsScheduled(t, d)
       /\ \A e, f \in t.beginHeap \ s.beginHeap :
            IsOriginal(e) /\ IsOriginal(f) /\ e.op = i /\ f.op = i => e = f
  BY <1>3 DEF OpDone
<1>13. Consistent(u)
  BY <1>5, <1>8 DEF Consistent, IsScheduled
<1>14. ReadyOK(u)
  BY <1>7, <1>8, <1>9 DEF ReadyOK
<1>15. Deps(i) \subseteq Ops /\ i \in Ops
  BY DEF ProgramOK, Deps
<1>16. \A j \in Ops : IsScheduled(t, j) => \A b \in prog.outs[j] : t.producer[b] # 0
  BY <1>5 DEF Consistent
<1>17. \A b \in UsedBuffers(i) : t.producer[b] # 0
  <2>1. \A b \in prog.ins[i] : \E d \in Deps(i) : b \in prog.outs[d]
    BY DEF ProgramOK
  <2> QED BY <1>12, <1>15, <1>16, <2>1 DEF UsedBuffers
<1>18. \A d \in NeededDeps(s, i) : \A b \in UsedBuffers(d) : t.producer[b] # 0
  <2>1. \A d \in NeededDeps(s, i) : d \in Deps(i) /\ prog.ins[d] = {}
    BY DataOpsAreDMAs DEF NeededDeps
  <2> QED BY <1>12, <1>15, <1>16, <2>1 DEF UsedBuffers
<1>19. \A b \in BuffersFor(s, i) : t.producer[b] # 0
  BY <1>17, <1>18 DEF BuffersFor, NonAlive
<1>20. Written(u)
  <2>1. s.alive \subseteq Buffers
    BY <1>2 DEF States
  <2> QED BY <1>8, <1>9, <1>12, <1>19, <2>1 DEF Written
<1>21. \A d \in Deps(i) \cup {i} : IsScheduled(u, d)
  BY <1>11, <1>12, <1>15
<1>22. \A saved : DeltasFit(saved, t) => DeltasFit(saved, u)
  BY <1>8 DEF DeltasFit
<1>23. Takes(s, u, NeededDeps(s, i) \cup {i})
  <2>1. u.gaps = s.gaps /\ u.addr = s.addr /\ u.readyCompute \subseteq s.readyCompute /\ u.readyData \subseteq s.readyData
    BY <1>8, <1>9
  <2>2. \A b \in Buffers : s.producer[b] # 0 => u.producer[b] # 0
    BY <1>8, <1>9
  <2>3. s.beginHeap \subseteq u.beginHeap
        /\ \A e \in u.beginHeap \ s.beginHeap :
             e.type # "write" /\ (IsOriginal(e) => e.op \in NeededDeps(s, i) \cup {i})
    BY <1>8, <1>9
  <2>4. /\ \A j \in Ops : IsScheduled(s, j) => IsScheduled(u, j)
        /\ \A j \in Ops : IsScheduled(u, j) => IsScheduled(s, j) \/ j \in NeededDeps(s, i) \cup {i}
    BY <1>10, <1>11
  <2>5. \A saved : DeltasFit(saved, s) => DeltasFit(saved, u)
    BY <1>10, <1>22
  <2> QED BY <1>13, <1>14, <1>20, <2>3, <2>4, <2>5, <2>1, <2>2 DEF Takes
<1>24. u.alive = s.alive \cup BuffersFor(s, i) /\ u.readyCompute = s.readyCompute \ {i}
  BY <1>8, <1>9, <1>12
<1>25. \A e, f \in u.beginHeap \ s.beginHeap :
         IsOriginal(e) /\ IsOriginal(f) /\ e.op = i /\ f.op = i => e = f
  BY <1>8, <1>12
<1> QED BY <1>21, <1>23, <1>24, <1>25 DEF TakesOp

\* Prefetching does what TakesPrefetch says.
LEMMA PrefetchTakes ==
  ASSUME ProgramOK, DataOpsOK, NEW s, ReadyOK(s), Consistent(s), Written(s), NEW op \in Ops,
         op \in s.readyData => NeededDeps(s, op) = {}, NEW t, t = ExecutePrefetch(s, op)
  PROVE  TakesPrefetch(s, t, op)
<1>2. s \in States
  BY DEF ReadyOK
<1>3. PrefetchDone(s, t, op)
  BY <1>2, PrefetchGrows
<1> DEFINE new == {op} \cap s.readyData
<1>4. Grows(s, t, new)
  BY <1>3 DEF PrefetchDone
<1>5. t \in States /\ Consistent(t)
  BY <1>4 DEF Grows
<1>9. /\ t.gaps = s.gaps /\ t.addr = s.addr /\ t.readyCompute = s.readyCompute /\ t.readyData \subseteq s.readyData
      /\ \A b \in Buffers : s.producer[b] # 0 => t.producer[b] # 0
      /\ \A b \in Buffers : t.spilled[b] = s.spilled[b] \/ t.spilled[b] = 0
      /\ s.beginHeap \subseteq t.beginHeap
      /\ \A e \in t.beginHeap \ s.beginHeap :
           e.type # "write" /\ (IsOriginal(e) => e.op \in new)
  BY <1>4 DEF Grows
<1>10. /\ \A j \in Ops : IsScheduled(s, j) => IsScheduled(t, j)
       /\ \A j \in Ops : IsScheduled(t, j) => IsScheduled(s, j) \/ j \in new
       /\ \A saved : DeltasFit(saved, s) => DeltasFit(saved, t)
  BY <1>4 DEF Grows
<1> HIDE DEF new
<1>11. ReadyOK(t)
  BY <1>5, <1>9 DEF ReadyOK
<1>12. s.alive \subseteq Buffers
  BY <1>2 DEF States
<1>13. /\ t.alive = s.alive \cup PrefetchBuffers(s, op)
       /\ PrefetchBuffers(s, op) \in SUBSET Buffers /\ PrefetchBuffers(s, op) \cap s.alive = {}
       /\ \A b \in PrefetchBuffers(s, op) : t.producer[b] # 0
  <2>1. CASE op \in s.readyData
    <3>1. PrefetchBuffers(s, op) = UsedBuffers(op) \ s.alive
      BY <2>1 DEF PrefetchBuffers, BuffersFor, NonAlive
    <3>2. t.alive = s.alive \cup UsedBuffers(op) /\ IsScheduled(t, op)
      BY <1>3, <2>1 DEF PrefetchDone
    <3>3. UsedBuffers(op) = prog.outs[op]
      BY <2>1, DataOpsAreDMAs DEF UsedBuffers, ReadyOK
    <3>4. \A b \in prog.outs[op] : t.producer[b] # 0
      BY <1>5, <3>2 DEF Consistent
    <3>5. prog.outs[op] \subseteq Buffers
      BY DEF ProgramOK
    <3> QED BY <3>1, <3>2, <3>3, <3>4, <3>5
  <2>2. CASE op \notin s.readyData
    <3>1. PrefetchBuffers(s, op) = SpilledBuffers(s, op)
      BY <2>2 DEF PrefetchBuffers
    <3>2. t.alive = s.alive \cup SpilledBuffers(s, op)
      BY <1>3, <2>2 DEF PrefetchDone
    <3>3. \A b \in SpilledBuffers(s, op) : b \in Buffers /\ s.spilled[b] # 0
      BY DEF SpilledBuffers, ProgramOK
    <3>4. \A b \in s.alive : s.spilled[b] = 0
      BY DEF Consistent
    <3>5. \A b \in SpilledBuffers(s, op) : t.producer[b] # 0
      BY <1>9, <3>3 DEF Written
    <3> QED BY <3>1, <3>2, <3>3, <3>4, <3>5
  <2> QED BY <2>1, <2>2
<1>20. Written(t)
  BY <1>9, <1>12, <1>13 DEF Written
<1>21. Takes(s, t, new)
  BY <1>5, <1>9, <1>10, <1>11, <1>20 DEF Takes
<1> QED BY <1>9, <1>13, <1>21 DEF TakesPrefetch, new

\* What scheduleOp schedules with an operation are data operations it depends on.
LEMMA NeededAreData ==
  ASSUME ProgramOK, NEW s, NEW dmas, NEW degree, NEW D \in SUBSET Ops, DoneCore(s, dmas, degree, D),
         NEW i \in Ops, Deps(i) \subseteq D
  PROVE  NeededDeps(s, i) \subseteq isDataOp
<1>1. \A j \in D \ isDataOp : IsScheduled(s, j)
  BY DEF DoneCore, ReadyFollow
<1> QED BY <1>1 DEF NeededDeps

\* An operation that is ready needs only data operations, and a data operation none.
LEMMA NothingNeeded ==
  ASSUME ProgramOK, DataOpsOK, NEW s, NEW dmas, NEW degree, NEW D \in SUBSET Ops, DoneCore(s, dmas, degree, D),
         NEW i \in s.readyData, ReadyOK(s)
  PROVE  NeededDeps(s, i) = {}
<1>1. i \in isDataOp /\ i \in Ops /\ Deps(i) \cap isDataOp = {}
  BY DEF ReadyOK, DataOpsOK
<1>2. Deps(i) \subseteq D
  BY DEF DoneCore, ReadyFollow
<1>3. NeededDeps(s, i) \subseteq isDataOp
  BY <1>1, <1>2, NeededAreData
<1> QED BY <1>1, <1>3 DEF NeededDeps

\* What is scheduled and not a data operation had all it depends on done.
LEMMA TakenKeepsDone ==
  ASSUME ProgramOK, NEW s, NEW u, NEW new \in SUBSET Ops, Takes(s, u, new),
         NEW dmas, NEW dmas2 \in SUBSET dmas, NEW degree, NEW D \in SUBSET Ops, DoneCore(s, dmas, degree, D),
         \A j \in new \ isDataOp : Deps(j) \subseteq D,
         \A j \in u.readyCompute : j \notin new
  PROVE  DoneCore(u, dmas2, degree, D)
<1>1. /\ u.readyCompute \subseteq s.readyCompute /\ u.readyData \subseteq s.readyData
      /\ \A j \in Ops : IsScheduled(s, j) => IsScheduled(u, j)
      /\ \A j \in Ops : IsScheduled(u, j) => IsScheduled(s, j) \/ j \in new
      /\ u.readyCompute \subseteq Ops
  BY DEF Takes, ReadyOK
<1>2. /\ \A j \in s.readyCompute \cup s.readyData \cup dmas : Deps(j) \subseteq D
      /\ \A j \in D \ isDataOp : IsScheduled(s, j)
      /\ \A j \in s.readyCompute : ~IsScheduled(s, j)
      /\ \A j \in Ops \ isDataOp : IsScheduled(s, j) => Deps(j) \subseteq D
  BY DEF DoneCore, ReadyFollow
<1>3. ReadyFollow(u, dmas2, D)
  <2>1. \A j \in u.readyCompute \cup u.readyData \cup dmas2 : Deps(j) \subseteq D
    BY <1>1, <1>2
  <2>2. \A j \in D \ isDataOp : IsScheduled(u, j)
    BY <1>1, <1>2
  <2>3. \A j \in u.readyCompute : ~IsScheduled(u, j)
    BY <1>1, <1>2
  <2>4. \A j \in Ops \ isDataOp : IsScheduled(u, j) => Deps(j) \subseteq D
    BY <1>1, <1>2
  <2> QED BY <2>3, <2>4, <2>1, <2>2 DEF ReadyFollow
<1> QED BY <1>3 DEF DoneCore

\* Taking an operation keeps every compute operation in the heaps once.
LEMMA TakenKeepsHeap ==
  ASSUME NEW s, NEW u, NEW new \in SUBSET Ops, Takes(s, u, new), NEW D, NEW running,
         OneOriginal(s.beginHeap \cup running, D),
         \A e \in s.beginHeap \cup running : IsOriginal(e) => IsScheduled(s, e.op),
         \A j \in new : IsCompute(j) => ~IsScheduled(s, j) /\ j \notin D,
         \A e, f \in u.beginHeap \ s.beginHeap :
           IsOriginal(e) /\ IsOriginal(f) /\ e.op = f.op /\ IsCompute(e.op) => e = f
  PROVE  OneOriginal(u.beginHeap \cup running, D)
<1>1. \A e \in u.beginHeap \ s.beginHeap : IsOriginal(e) => e.op \in new
  BY DEF Takes
<1>2. ASSUME NEW e \in u.beginHeap \cup running, NEW f \in u.beginHeap \cup running,
             IsOriginal(e), IsOriginal(f), e.op = f.op, IsCompute(e.op)
      PROVE  e = f
  BY <1>1, <1>2 DEF OneOriginal
<1>3. ASSUME NEW e \in u.beginHeap \cup running, IsOriginal(e), IsCompute(e.op)
      PROVE  e.op \notin D
  BY <1>1, <1>3 DEF OneOriginal
<1> QED BY <1>2, <1>3 DEF OneOriginal

\* Memory and what fits depend on the gaps and addresses only.
LEMMA SameMemory ==
  ASSUME NEW s, NEW t, t.gaps = s.gaps, t.addr = s.addr
  PROVE  /\ \A held : Memory(s, held) => Memory(t, held)
         /\ \A bs : CanAlloc(s, bs) => CanAlloc(t, bs)
<1>1. ASSUME NEW held, Memory(s, held) PROVE Memory(t, held)
  BY <1>1 DEF Memory, InBlock
<1>2. ASSUME NEW bs, CanAlloc(s, bs) PROVE CanAlloc(t, bs)
  <2>1. CanAlloc(t, bs) = PlaceBuffers(s.gaps, s.addr, bs).fits
    BY DEF CanAlloc
  <2> QED BY <1>2, <2>1 DEF CanAlloc
<1> QED BY <1>1, <1>2

\* What the operations still to come bring to life.
LEMMA TakenKeepsToCome ==
  ASSUME ProgramOK, NEW s, NEW u, NEW i \in Ops, TakesOp(s, u, i), NEW j \in Ops
  PROVE  /\ BuffersFor(u, j) \subseteq BuffersFor(s, j)
         /\ BuffersFor(s, j) \subseteq u.alive \cup BuffersFor(u, j)
<1>1. u.alive = s.alive \cup BuffersFor(s, i)
  BY DEF TakesOp
<1>2. /\ \A d \in Ops : IsScheduled(s, d) => IsScheduled(u, d)
      /\ \A d \in Ops : IsScheduled(u, d) => IsScheduled(s, d) \/ d \in NeededDeps(s, i) \cup {i}
  BY DEF TakesOp, Takes
<1>3. Deps(j) \subseteq Ops
  BY DEF ProgramOK, Deps
<1>4. NeededDeps(u, j) \subseteq NeededDeps(s, j)
  BY <1>2, <1>3 DEF NeededDeps
<1>5. \A d : NonAlive(u, d) \subseteq NonAlive(s, d)
  BY <1>1 DEF NonAlive
<1>6. \A d : NonAlive(s, d) \subseteq u.alive \cup NonAlive(u, d)
  BY <1>1 DEF NonAlive
<1>7. \A d \in NeededDeps(s, i) \cup {i} : NonAlive(s, d) \subseteq u.alive
  BY <1>1 DEF BuffersFor
<1>8. \A d \in NeededDeps(s, j) : d \in NeededDeps(u, j) \/ d \in NeededDeps(s, i) \cup {i}
  BY <1>2, <1>3 DEF NeededDeps
<1> HIDE DEF NonAlive, NeededDeps
<1>9. BuffersFor(u, j) \subseteq BuffersFor(s, j)
  BY <1>4, <1>5 DEF BuffersFor
<1>10. BuffersFor(s, j) \subseteq u.alive \cup BuffersFor(u, j)
  BY <1>6, <1>7, <1>8 DEF BuffersFor
<1> QED BY <1>9, <1>10

-----------------------------------------------------------------------------
(***************************************************************************)
(* Candidates for prefetching and for eviction.                            *)
(***************************************************************************)
\* The levels that are left are naturals.
LEMMA LevelsRemain ==
  ASSUME ProgramOK, opLevel \in [Ops -> Nat], NEW s, NEW op
  PROVE  RemainingLevels(s, op) \subseteq Nat /\ IsFiniteSet(RemainingLevels(s, op))
<1> DEFINE C == {c \in Consumers(op) : ~IsScheduled(s, c)}
<1>1. C \subseteq Ops
  BY DEF Consumers
<1>2. IsFiniteSet(C)
  BY <1>1, FS_Subset DEF ProgramOK
<1>3. RemainingLevels(s, op) = {opLevel[c] : c \in C}
  BY DEF RemainingLevels
<1> HIDE DEF C
<1> QED BY <1>1, <1>2, <1>3, ValuesAreFinite

\* The prefetch candidates are operations with their levels.
LEMMA PrefetchCandidatesTyped ==
  ASSUME ProgramOK, opLevel \in [Ops -> Nat], NEW s \in States, NEW lastOp, NEW lastLevel,
         NEW C, C = PrefetchCandidates(s, lastOp, lastLevel)
  PROVE  C \subseteq CandidateOps /\ IsFiniteSet(C)
<1> DEFINE B == {b \in Buffers : s.spilled[b] # 0 /\ RemainingLevels(s, s.spilled[b]) # {}}
           f == [d \in s.readyData |-> [op |-> d, level |-> opLevel[d]]]
           g == [b \in B |-> [op |-> s.spilled[b], level |-> Min(RemainingLevels(s, s.spilled[b]))]]
<1>1. s.readyData \subseteq Ops /\ s.spilled \in [Buffers -> Ops \cup {0}]
  BY DEF States
<1>2. IsFiniteSet(s.readyData) /\ IsFiniteSet(B)
  BY <1>1, FS_Subset DEF ProgramOK
<1>3. \A d \in s.readyData : f[d] \in CandidateOps
  BY <1>1 DEF CandidateOps
<1>4. \A b \in B : g[b] \in CandidateOps
  <2> SUFFICES ASSUME NEW b \in B PROVE g[b] \in CandidateOps
    OBVIOUS
  <2>1. Min(RemainingLevels(s, s.spilled[b])) \in Nat
    BY LevelsRemain, MinOfNaturals
  <2>2. s.spilled[b] \in Ops
    BY <1>1
  <2> QED BY <2>1, <2>2 DEF CandidateOps
<1> DEFINE F == {f[d] : d \in s.readyData}
           G == {g[b] : b \in B}
<1>5. C \subseteq F \cup G
  BY DEF PrefetchCandidates
<1>6. IsFiniteSet(F) /\ IsFiniteSet(G)
  <2> HIDE DEF f, g, B
  <2> QED BY <1>2, ValuesAreFinite
<1>7. F \subseteq CandidateOps /\ G \subseteq CandidateOps
  <2> HIDE DEF f, g, B
  <2> QED BY <1>3, <1>4
<1> HIDE DEF F, G
<1>8. IsFiniteSet(F \cup G)
  BY <1>6, FS_Union
<1> QED BY <1>5, <1>7, <1>8, FS_Subset

\* The order of the prefetch candidates as a set of pairs.
Closeness(S) == {p \in S \X S : Closer(p[1], p[2])}

\* The candidates in that order are a sequence of them.
LEMMA CloserSorted ==
  ASSUME ProgramOK, NEW S, S \subseteq CandidateOps, IsFiniteSet(S)
  PROVE  Sorted(S, Closer) \in Seq(CandidateOps)
<1>1. StrictOrder(Closeness(S), S)
  <2>1. \A x, y \in S : <<x, y>> \in Closeness(S) <=>
          x.level < y.level \/ (x.level = y.level /\ x.op < y.op)
    BY DEF Closeness, Closer
  <2>2. \A x \in S : x.level \in Nat /\ x.op \in Nat /\ x = [op |-> x.op, level |-> x.level]
    BY DEF CandidateOps, ProgramOK
  <2>3. \A x, y \in S : x.op = y.op /\ x.level = y.level => x = y
    BY <2>2
  <2>4. \A x \in S : <<x, x>> \notin Closeness(S)
    BY <2>1, <2>2
  <2>5. ASSUME NEW x \in S, NEW y \in S PROVE x = y \/ <<x, y>> \in Closeness(S) \/ <<y, x>> \in Closeness(S)
    <3>1. x.level \in Nat /\ x.op \in Nat /\ y.level \in Nat /\ y.op \in Nat
      BY <2>2
    <3>2. \/ x.level < y.level \/ (x.level = y.level /\ x.op < y.op)
          \/ y.level < x.level \/ (y.level = x.level /\ y.op < x.op)
          \/ x.op = y.op /\ x.level = y.level
      BY <3>1
    <3> QED BY <2>1, <2>3, <3>2
  <2>6. \A x, y, z \in S : <<x, y>> \in Closeness(S) /\ <<y, z>> \in Closeness(S) => <<x, z>> \in Closeness(S)
    <3>1. \A x \in S : x.level \in Nat /\ x.op \in Nat
      BY <2>2
    <3> QED BY <2>1, <3>1
  <2> QED BY <2>4, <2>5, <2>6 DEF StrictOrder
<1>2. \A x \in S : {y \in S : <<y, x>> \in Closeness(S)} = {y \in S : Closer(y, x)}
  BY DEF Closeness
<1>3. \A x \in S : OrderRank(Closeness(S), S, x) = Cardinality({y \in S : Closer(y, x)})
  BY <1>2 DEF OrderRank
<1>4. \A k \in 1 .. Cardinality(S) :
        (CHOOSE x \in S : OrderRank(Closeness(S), S, x) = k - 1)
        = (CHOOSE x \in S : Cardinality({y \in S : Closer(y, x)}) = k - 1)
  BY <1>3
<1>5. ByRank(Closeness(S), S) = Sorted(S, Closer)
  <2>1. Sorted(S, Closer) =
          [k \in 1 .. Cardinality(S) |-> CHOOSE x \in S : Cardinality({y \in S : Closer(y, x)}) = k - 1]
    BY DEF Sorted
  <2>2. ByRank(Closeness(S), S) =
          [k \in 1 .. Cardinality(S) |-> CHOOSE x \in S : OrderRank(Closeness(S), S, x) = k - 1]
    BY DEF ByRank
  <2> QED BY <1>4, <2>1, <2>2
<1>6. ByRank(Closeness(S), S) \in Seq(S)
  BY <1>1, ByRankIsSorted
<1> QED BY <1>5, <1>6, SeqWidens

\* What prefetchOps goes through.
LEMMA PrefetchListTyped ==
  ASSUME ProgramOK, opLevel \in [Ops -> Nat], NEW s \in States, NEW limit, NEW lastOp, NEW lastLevel,
         NEW todo, todo = IF limit THEN <<>> ELSE Sorted(PrefetchCandidates(s, lastOp, lastLevel), Closer)
  PROVE  todo \in Seq(CandidateOps)
<1>1. Sorted(PrefetchCandidates(s, lastOp, lastLevel), Closer) \in Seq(CandidateOps)
  BY PrefetchCandidatesTyped, CloserSorted
<1>2. <<>> \in Seq(CandidateOps)
  OBVIOUS
<1> QED BY <1>1, <1>2

\* The order of the eviction candidates as a set of pairs.
EvictionOrder(S) == {p \in S \X S : EvictedBefore(p[1], p[2])}

\* Among finitely many candidates there is one to be evicted first.
LEMMA VictimChosen ==
  ASSUME ProgramOK, NEW S, S \subseteq EvictionCandidates, IsFiniteSet(S), S # {},
         NEW victim, victim = CHOOSE c \in S : \A d \in S \ {c} : EvictedBefore(c, d)
  PROVE  victim \in S
<1> DEFINE R == EvictionOrder(S)
<1>1. \A x, y \in S : <<x, y>> \in R <=>
        \/ x.priority > y.priority
        \/ x.priority = y.priority /\ x.consumer > y.consumer
        \/ x.priority = y.priority /\ x.consumer = y.consumer /\ prog.size[x.buf] < prog.size[y.buf]
        \/ /\ x.priority = y.priority /\ x.consumer = y.consumer /\ prog.size[x.buf] = prog.size[y.buf]
           /\ x.op > y.op \/ (x.op = y.op /\ x.buf > y.buf)
  BY DEF EvictionOrder, EvictedBefore
<1>2. \A x \in S : /\ x.op \in Nat /\ x.buf \in Nat /\ x.priority \in Nat /\ x.consumer \in Nat
                   /\ prog.size[x.buf] \in Nat
  BY ZenonT(60) DEF EvictionCandidates, ProgramOK
<1>3. \A x, y \in S : x.op = y.op /\ x.buf = y.buf /\ x.priority = y.priority /\ x.consumer = y.consumer => x = y
  BY DEF EvictionCandidates
<1> HIDE DEF R
<1>4. \A x \in S : <<x, x>> \notin R
  BY <1>1, <1>2
<1>5. ASSUME NEW x \in S, NEW y \in S PROVE x = y \/ <<x, y>> \in R \/ <<y, x>> \in R
  <2>1. /\ x.op \in Nat /\ x.buf \in Nat /\ x.priority \in Nat /\ x.consumer \in Nat /\ prog.size[x.buf] \in Nat
        /\ y.op \in Nat /\ y.buf \in Nat /\ y.priority \in Nat /\ y.consumer \in Nat /\ prog.size[y.buf] \in Nat
    BY <1>2
  <2>2. CASE x.priority # y.priority
    BY <1>1, <2>1, <2>2
  <2>3. CASE x.priority = y.priority /\ x.consumer # y.consumer
    BY <1>1, <2>1, <2>3
  <2>4. CASE x.priority = y.priority /\ x.consumer = y.consumer /\ prog.size[x.buf] # prog.size[y.buf]
    BY <1>1, <2>1, <2>4
  <2>5. CASE x.priority = y.priority /\ x.consumer = y.consumer /\ prog.size[x.buf] = prog.size[y.buf] /\ x.op # y.op
    BY <1>1, <2>1, <2>5
  <2>6. CASE x.priority = y.priority /\ x.consumer = y.consumer /\ x.op = y.op /\ x.buf # y.buf /\ prog.size[x.buf] = prog.size[y.buf]
    BY <1>1, <2>1, <2>6
  <2>7. CASE x.priority = y.priority /\ x.consumer = y.consumer /\ x.op = y.op /\ x.buf = y.buf
    BY <1>3, <2>7
  <2> QED BY <2>2, <2>3, <2>4, <2>5, <2>6, <2>7
<1>6. ASSUME NEW x \in S, NEW y \in S, NEW z \in S, <<x, y>> \in R, <<y, z>> \in R PROVE <<x, z>> \in R
  BY <1>1, <1>2, <1>6
<1>7. StrictOrder(R, S)
  BY <1>4, <1>5, <1>6 DEF StrictOrder
<1>8. PICK x \in S : \A y \in S \ {x} : <<x, y>> \in R
  BY <1>7, FirstInOrder
<1>9. \A y \in S \ {x} : EvictedBefore(x, y)
  BY <1>8 DEF R, EvictionOrder
<1> QED BY <1>9

\* Where the next use of a buffer begins is a natural.
LEMMA EarliestIsNat ==
  ASSUME ProgramOK, NEW s, NEW op
  PROVE  EarliestConsumer(s, op) \in Nat
<1> DEFINE C == {c \in Consumers(op) : IsCompute(c) /\ ~IsSpilled(s, c) /\ ~IsScheduled(s, c)}
<1>1. C \subseteq Ops
  BY DEF Consumers
<1>2. IsFiniteSet(C) /\ C \subseteq Nat
  BY <1>1, FS_Subset DEF ProgramOK
<1>3. Cardinality(Ops) + 1 \in Nat
  BY FS_CardinalityType DEF ProgramOK
<1>4. EarliestConsumer(s, op) = Min({Cardinality(Ops) + 1} \cup C)
  BY DEF EarliestConsumer
<1> HIDE DEF C
<1>5. IsFiniteSet({Cardinality(Ops) + 1} \cup C)
  BY <1>2, FS_Singleton, FS_Union
<1>6. Min({Cardinality(Ops) + 1} \cup C) \in {Cardinality(Ops) + 1} \cup C
  BY <1>2, <1>3, <1>5, MinOfNaturals
<1> QED BY <1>2, <1>3, <1>4, <1>6

\* The buffers that are alive are candidates for eviction.
LEMMA AliveAreCandidates ==
  ASSUME ProgramOK, NEW s \in States, Consistent(s), Written(s),
         NEW all, all = {Candidate(s, b) : b \in s.alive}
  PROVE  /\ all \subseteq EvictionCandidates /\ IsFiniteSet(all) /\ Candidates(s, all)
         /\ \A c \in all : c.buf \in s.alive /\ c.op = s.producer[c.buf]
<1>1. s.alive \subseteq Buffers /\ s.producer \in [Buffers -> Ops \cup {0}]
  BY DEF States
<1>2. \A b \in s.alive : s.producer[b] \in Ops /\ IsScheduled(s, s.producer[b])
  BY <1>1 DEF Written, Consistent
<1>3. ASSUME NEW b \in s.alive
      PROVE  /\ Candidate(s, b) \in EvictionCandidates
             /\ Candidate(s, b).op = s.producer[b] /\ Candidate(s, b).buf = b
  <2>1. EvictionPriority(s.producer[b], b) \in Nat
    BY DEF EvictionPriority
  <2>2. EarliestConsumer(s, s.producer[b]) \in Nat
    BY EarliestIsNat
  <2> QED BY <1>1, <1>2, <2>1, <2>2 DEF Candidate, EvictionCandidates
<1>4. IsFiniteSet(all)
  <2>1. IsFiniteSet(s.alive)
    BY <1>1, AliveFinite
  <2>2. PICK f : f = [b \in s.alive |-> Candidate(s, b)]
    OBVIOUS
  <2>3. all = {f[b] : b \in s.alive}
    BY <2>2
  <2>4. IsFiniteSet({f[b] : b \in s.alive})
    BY <2>1, ValuesAreFinite
  <2> QED BY <2>3, <2>4
<1>5. \A c \in all : c.op \in Ops /\ c.buf \in Buffers /\ IsScheduled(s, c.op) /\ s.producer[c.buf] # 0
  <2> SUFFICES ASSUME NEW b \in s.alive, NEW c, c = Candidate(s, b)
               PROVE  c.op \in Ops /\ c.buf \in Buffers /\ IsScheduled(s, c.op) /\ s.producer[c.buf] # 0
    OBVIOUS
  <2>1. c.op = s.producer[b] /\ c.buf = b
    BY <1>3
  <2>2. s.producer[b] # 0
    BY <1>1 DEF Written
  <2> QED BY <1>1, <1>2, <2>1, <2>2
<1> QED BY <1>3, <1>4, <1>5 DEF Candidates

\* Of the buffers that help, the order of ChooseForPrefetch.
Smaller(a, b) == prog.size[a] < prog.size[b] \/ (prog.size[a] = prog.size[b] /\ PlacedBefore(b, a))

\* That order as a set of pairs.
Size(S) == {p \in S \X S : Smaller(p[1], p[2])}

\* The buffers in that order are a sequence of them.
LEMMA SmallerSorted ==
  ASSUME ProgramOK, NEW S, S \subseteq Buffers
  PROVE  Sorted(S, Smaller) \in Seq(S)
<1>1. StrictOrder(Size(S), S)
  <2>1. \A x, y \in S : <<x, y>> \in Size(S) <=>
          \/ prog.size[x] < prog.size[y]
          \/ prog.size[x] = prog.size[y] /\ OutDegree(y) > OutDegree(x)
          \/ prog.size[x] = prog.size[y] /\ OutDegree(y) = OutDegree(x) /\ y < x
    <3>1. \A x \in S : OutDegree(x) \in Nat /\ prog.size[x] \in Nat
      BY OutDegreeIsNat DEF ProgramOK
    <3> QED BY <3>1 DEF Size, Smaller, PlacedBefore
  <2>2. \A x \in S : OutDegree(x) \in Nat /\ prog.size[x] \in Nat /\ x \in Nat
    BY OutDegreeIsNat DEF ProgramOK
  <2>3. \A x \in S : <<x, x>> \notin Size(S)
    BY <2>1, <2>2
  <2>4. ASSUME NEW x \in S, NEW y \in S PROVE x = y \/ <<x, y>> \in Size(S) \/ <<y, x>> \in Size(S)
    <3>1. /\ OutDegree(x) \in Nat /\ prog.size[x] \in Nat /\ x \in Nat
          /\ OutDegree(y) \in Nat /\ prog.size[y] \in Nat /\ y \in Nat
      BY <2>2
    <3>2. \/ prog.size[x] < prog.size[y]
          \/ prog.size[x] = prog.size[y] /\ OutDegree(y) > OutDegree(x)
          \/ prog.size[x] = prog.size[y] /\ OutDegree(y) = OutDegree(x) /\ y < x
          \/ prog.size[y] < prog.size[x]
          \/ prog.size[y] = prog.size[x] /\ OutDegree(x) > OutDegree(y)
          \/ prog.size[y] = prog.size[x] /\ OutDegree(x) = OutDegree(y) /\ x < y
          \/ x = y
      BY <3>1
    <3> QED BY <2>1, <3>2
  <2>5. \A x, y, z \in S : <<x, y>> \in Size(S) /\ <<y, z>> \in Size(S) => <<x, z>> \in Size(S)
    BY <2>1, <2>2
  <2> QED BY <2>3, <2>4, <2>5 DEF StrictOrder
<1>2. \A x \in S : {y \in S : <<y, x>> \in Size(S)} = {y \in S : Smaller(y, x)}
  BY DEF Size
<1>3. \A x \in S : OrderRank(Size(S), S, x) = Cardinality({y \in S : Smaller(y, x)})
  BY <1>2 DEF OrderRank
<1>4. \A k \in 1 .. Cardinality(S) :
        (CHOOSE x \in S : OrderRank(Size(S), S, x) = k - 1)
        = (CHOOSE x \in S : Cardinality({y \in S : Smaller(y, x)}) = k - 1)
  BY <1>3
<1>5. ByRank(Size(S), S) = Sorted(S, Smaller)
  <2>1. Sorted(S, Smaller) =
          [k \in 1 .. Cardinality(S) |-> CHOOSE x \in S : Cardinality({y \in S : Smaller(y, x)}) = k - 1]
    BY DEF Sorted
  <2>2. ByRank(Size(S), S) =
          [k \in 1 .. Cardinality(S) |-> CHOOSE x \in S : OrderRank(Size(S), S, x) = k - 1]
    BY DEF ByRank
  <2> QED BY <1>4, <2>1, <2>2
<1>6. IsFiniteSet(S)
  BY FS_Subset DEF ProgramOK
<1> QED BY <1>1, <1>5, <1>6, ByRankIsSorted

\* The buffer chosen to help a prefetch, if there is one, may be evicted.
LEMMA PrefetchVictim ==
  ASSUME ProgramOK, NEW s \in States, Consistent(s), Written(s), NEW running, NEW fragmented,
         NEW c, c = ChooseForPrefetch(s, running, fragmented), c # NoCandidate
  PROVE  Candidates(s, {c}) /\ c.op = s.producer[c.buf]
<1> DEFINE S == {b \in s.alive : HelpsPrefetch(s, running, fragmented, b)}
<1>1. s.alive \subseteq Buffers /\ s.producer \in [Buffers -> Ops \cup {0}]
  BY DEF States
<1>2. PICK ordered : ordered = Sorted(S, Smaller)
  OBVIOUS
<1>3. c = IF ordered = <<>> THEN NoCandidate ELSE [op |-> s.producer[Head(ordered)], buf |-> Head(ordered)]
  BY <1>2 DEF ChooseForPrefetch, HelpsPrefetch, Sorted, Smaller
<1>4. ordered \in Seq(S)
  BY <1>1, <1>2, SmallerSorted
<1>5. PICK b : b = Head(ordered)
  OBVIOUS
<1>6. b \in s.alive
  BY <1>3, <1>4, <1>5
<1>7. c = [op |-> s.producer[b], buf |-> b]
  BY <1>3, <1>5
<1>8. b \in Buffers /\ s.producer[b] \in Ops /\ IsScheduled(s, s.producer[b]) /\ s.producer[b] # 0
  BY <1>1, <1>6 DEF Written, Consistent
<1> QED BY <1>7, <1>8 DEF Candidates

-----------------------------------------------------------------------------
(***************************************************************************)
(* What the steps do to a whole state.                                     *)
(***************************************************************************)
\* Freeing buffers does what MemoryFreed says.
LEMMA MemoryIsFreed ==
  ASSUME ProgramOK, m \in States, Consistent(m), Written(m), Memory(m, m.alive), endHeap \in Heaps,
         NEW ended \in SUBSET endHeap, NEW left,
         \A b \in Buffers : left[b] = users[b] \ {e.op : e \in ended},
         NEW t, t = FreeMemory(ended, left)
  PROVE  MemoryFreed(m, t)
<1> DEFINE dead == {b \in Buffers : users[b] # {} /\ left[b] = {}}
           freeing == {e \in ended : \E b \in dead : e.op \in users[b]}
<1>1. CASE dead = {}
  <2>1. t = m
    BY <1>1 DEF FreeMemory
  <2> QED BY <2>1 DEF MemoryFreed
<1>2. CASE dead # {}
  <2>1. PICK u : u = FreeBuffers(m, dead)
    OBVIOUS
  <2>2. PICK cycle : cycle = Max({e.end : e \in freeing})
    OBVIOUS
  <2>3. t = AlignExecutors(u, cycle)
    BY <1>2, <2>1, <2>2 DEF FreeMemory
  <2>4. freeing # {}
    <3>1. PICK b \in dead : users[b] # {} /\ users[b] \ {e.op : e \in ended} = {}
      BY <1>2
    <3>2. \E e \in ended : e.op \in users[b]
      BY <3>1
    <3> QED BY <3>1, <3>2
  <2>5. freeing \subseteq endHeap /\ endHeap \subseteq Elements /\ IsFiniteSet(endHeap)
    BY DEF Heaps
  <2>6. IsFiniteSet(freeing)
    BY <2>5, FS_Subset
  <2>7. cycle \in Nat
    <3>1. PICK f : f = [e \in freeing |-> e.end]
      OBVIOUS
    <3>2. \A e \in freeing : f[e] \in Nat
      BY <2>5, <3>1 DEF Elements
    <3>3. {e.end : e \in freeing} = {f[e] : e \in freeing}
      BY <3>1
    <3>4. IsFiniteSet({f[e] : e \in freeing})
      <4> HIDE DEF freeing
      <4> QED BY <2>6, ValuesAreFinite
    <3>5. {f[e] : e \in freeing} # {} /\ {f[e] : e \in freeing} \subseteq Nat
      BY <2>4, <3>2
    <3> HIDE DEF freeing
    <3> QED BY <2>2, <3>3, <3>4, <3>5, MaxOfNaturals
  <2> HIDE DEF freeing, dead
  <2>8. Freed(m, u, dead)
    BY <2>1, BuffersFreed
  <2>9. u \in States
    BY <2>8 DEF Freed
  <2>10. SameButCycles(u, t)
    BY <2>3, <2>7, <2>9, ExecutorsAligned
  <2>11. /\ t \in States /\ t.gaps = u.gaps /\ t.addr = u.addr /\ t.alive = u.alive /\ t.spilled = u.spilled
         /\ t.beginHeap = u.beginHeap /\ t.readyCompute = u.readyCompute /\ t.readyData = u.readyData
         /\ t.producer = u.producer /\ t.opEnd = u.opEnd
    BY <2>10 DEF SameButCycles
  <2>12. /\ Memory(u, u.alive) /\ u.alive = m.alive \ dead /\ u.spilled = m.spilled
         /\ u.beginHeap = m.beginHeap /\ u.readyCompute = m.readyCompute /\ u.readyData = m.readyData
         /\ u.producer = m.producer /\ u.opEnd = m.opEnd
    BY <2>8 DEF Freed
  <2>13. Memory(t, t.alive)
    BY <2>11, <2>12, SameMemory
  <2>14. Consistent(t)
    BY <2>11, <2>12 DEF Consistent, IsScheduled
  <2>15. Written(t)
    BY <2>11, <2>12 DEF Written
  <2>16. ASSUME NEW P, Logged(m, P) PROVE Logged(t, P)
    <3>1. Logged(u, P)
      BY <2>8, <2>16, LoggedWhenFreed
    <3>2. NotSooner(u, t)
      BY <2>3, <2>7, <2>9, ExecutorsAligned
    <3> QED BY <2>9, <2>10, <3>1, <3>2, LoggedWhenAligned
  <2> QED BY <2>11, <2>12, <2>13, <2>14, <2>15, <2>16 DEF MemoryFreed
<1> QED BY <1>1, <1>2

\* restoreStateBeforeScheduling gives the state that was saved.
LEMMA StateRestored ==
  ASSUME NEW saved \in States, NEW s \in States, DeltasFit(saved, s), NEW t, t = RestoreState(saved, s)
  PROVE  RolledBack(saved, t)
<1>1. /\ saved.producer \in [Buffers -> Ops \cup {0}] /\ s.producer \in [Buffers -> Ops \cup {0}]
      /\ saved.lastUse \in [Buffers -> Nat] /\ s.lastUse \in [Buffers -> Nat]
      /\ saved.opEnd \in [Ops -> Nat] /\ s.opEnd \in [Ops -> Nat]
  BY DEF States
<1>2. PICK p : p = Revert(s.producer, s.deltas.oldProducers, s.deltas.newProducers)
  OBVIOUS
<1>3. PICK l : l = Revert(s.lastUse, s.deltas.oldUses, s.deltas.newUses)
  OBVIOUS
<1>4. PICK n : n = Revert(s.opEnd, s.deltas.oldEnds, s.deltas.newEnds)
  OBVIOUS
<1>5. p = saved.producer
  <2>1. MapFits(saved.producer, s.producer, s.deltas.oldProducers, s.deltas.newProducers)
    BY DEF DeltasFit
  <2>2. saved.producer = [k \in Buffers |-> saved.producer[k]] /\ DOMAIN s.producer = Buffers
    BY <1>1
  <2> QED BY <1>2, <2>1, <2>2, ExactRevert
<1>6. l = saved.lastUse
  <2>1. MapFits(saved.lastUse, s.lastUse, s.deltas.oldUses, s.deltas.newUses)
    BY DEF DeltasFit
  <2>2. saved.lastUse = [k \in Buffers |-> saved.lastUse[k]] /\ DOMAIN s.lastUse = Buffers
    BY <1>1
  <2> QED BY <1>3, <2>1, <2>2, ExactRevert
<1>7. n = saved.opEnd
  <2>1. MapFits(saved.opEnd, s.opEnd, s.deltas.oldEnds, s.deltas.newEnds)
    BY DEF DeltasFit
  <2>2. saved.opEnd = [k \in Ops |-> saved.opEnd[k]] /\ DOMAIN s.opEnd = Ops
    BY <1>1
  <2> QED BY <1>4, <2>1, <2>2, ExactRevert
<1>8. t = [s EXCEPT !.gaps = saved.gaps, !.addr = saved.addr, !.alive = saved.alive,
            !.spilled = saved.spilled, !.pipelines = saved.pipelines,
            !.beginHeap = saved.beginHeap,
            !.readyCompute = saved.readyCompute, !.readyData = saved.readyData,
            !.producer = p, !.lastUse = l, !.opEnd = n]
  BY <1>2, <1>3, <1>4 DEF RestoreState
<1>9. s = Fields(s) /\ saved = Fields(saved)
  BY StateFields
<1>10. t = [gaps |-> saved.gaps, addr |-> saved.addr, alive |-> saved.alive, spilled |-> saved.spilled,
            pipelines |-> saved.pipelines, beginHeap |-> saved.beginHeap, readyCompute |-> saved.readyCompute,
            readyData |-> saved.readyData, producer |-> p, lastUse |-> l, opEnd |-> n, deltas |-> s.deltas]
  <2> DEFINE r == Fields(s)
  <2>1. t = [r EXCEPT !.gaps = saved.gaps, !.addr = saved.addr, !.alive = saved.alive,
            !.spilled = saved.spilled, !.pipelines = saved.pipelines,
            !.beginHeap = saved.beginHeap,
            !.readyCompute = saved.readyCompute, !.readyData = saved.readyData,
            !.producer = p, !.lastUse = l, !.opEnd = n]
    BY <1>8, <1>9
  <2> QED BY <2>1, ZenonT(60) DEF Fields
<1>11. t \in States
  BY <1>5, <1>6, <1>7, <1>10 DEF States
<1>12. ResetDeltas(t) = ResetDeltas(saved)
  <2>1. ResetDeltas(t) = [gaps |-> t.gaps, addr |-> t.addr, alive |-> t.alive, spilled |-> t.spilled,
            pipelines |-> t.pipelines, beginHeap |-> t.beginHeap, readyCompute |-> t.readyCompute,
            readyData |-> t.readyData, producer |-> t.producer, lastUse |-> t.lastUse, opEnd |-> t.opEnd,
            deltas |-> NoDeltas]
    BY <1>10 DEF ResetDeltas
  <2>2. ResetDeltas(saved) = [gaps |-> saved.gaps, addr |-> saved.addr, alive |-> saved.alive, spilled |-> saved.spilled,
            pipelines |-> saved.pipelines, beginHeap |-> saved.beginHeap, readyCompute |-> saved.readyCompute,
            readyData |-> saved.readyData, producer |-> saved.producer, lastUse |-> saved.lastUse, opEnd |-> saved.opEnd,
            deltas |-> NoDeltas]
    BY <1>9 DEF ResetDeltas, Fields
  <2> QED BY <1>5, <1>6, <1>7, <1>10, <2>1, <2>2
<1> QED BY <1>5, <1>6, <1>7, <1>10, <1>11, <1>12 DEF RolledBack

\* ResetDeltas forgets the entries to put back.
LEMMA DeltasAreReset ==
  ASSUME NEW s \in States, NEW t, t = ResetDeltas(s)
  PROVE  DeltasReset(s, t)
<1>1. s = Fields(s)
  BY StateFields
<1>2. t = [gaps |-> s.gaps, addr |-> s.addr, alive |-> s.alive, spilled |-> s.spilled,
            pipelines |-> s.pipelines, beginHeap |-> s.beginHeap, readyCompute |-> s.readyCompute,
            readyData |-> s.readyData, producer |-> s.producer, lastUse |-> s.lastUse, opEnd |-> s.opEnd,
            deltas |-> NoDeltas]
  BY <1>1 DEF Fields, ResetDeltas
<1>3. NoDeltas \in Deltas
  <2>1. /\ <<>> \in PartialMaps(Buffers, Ops \cup {0}) /\ <<>> \in PartialMaps(Buffers, Nat)
        /\ <<>> \in PartialMaps(Ops, Nat)
    <3>1. ASSUME NEW K, NEW V PROVE <<>> \in PartialMaps(K, V)
      <4>1. <<>> \in [{} -> V]
        OBVIOUS
      <4>2. PICK D : D = {}
        OBVIOUS
      <4>3. D \in SUBSET K /\ <<>> \in [D -> V]
        BY <4>1, <4>2
      <4> QED BY <4>3 DEF PartialMaps
    <3> QED BY <3>1
  <2>2. PICK none : none = {}
    OBVIOUS
  <2>3. none \in SUBSET Buffers /\ none \in SUBSET Ops
    BY <2>2
  <2>4. NoDeltas = [newProducers |-> none, oldProducers |-> <<>>, newUses |-> none, oldUses |-> <<>>,
                    newEnds |-> none, oldEnds |-> <<>>]
    BY <2>2 DEF NoDeltas
  <2> HIDE <2>2
  <2> QED BY <2>1, <2>3, <2>4 DEF Deltas
<1>4. t \in States
  <2>1. PICK d \in Deltas : d = NoDeltas
    BY <1>3
  <2>2. t = [gaps |-> s.gaps, addr |-> s.addr, alive |-> s.alive, spilled |-> s.spilled,
            pipelines |-> s.pipelines, beginHeap |-> s.beginHeap, readyCompute |-> s.readyCompute,
            readyData |-> s.readyData, producer |-> s.producer, lastUse |-> s.lastUse, opEnd |-> s.opEnd,
            deltas |-> d]
    BY <1>2, <2>1
  <2> QED BY <2>1, <2>2 DEF States
<1>5. DeltasFit(s, t)
  BY <1>2 DEF DeltasFit, MapFits, NoDeltas
<1> QED BY <1>2, <1>4, <1>5 DEF DeltasReset

\* PlaceBuffers gives the buffers of the call memory if they fit.
LEMMA BuffersAllocated ==
  ASSUME ProgramOK, NEW s \in States, NEW bs, bs \subseteq s.alive, Memory(s, s.alive \ bs), CanAlloc(s, bs),
         NEW r, r = PlaceBuffers(s.gaps, s.addr, bs),
         NEW t, t = [s EXCEPT !.gaps = r.gaps, !.addr = r.addr, !.alive = @ \cup bs]
  PROVE  Allocated(s, t)
<1>1. s.alive \subseteq Buffers /\ s = Fields(s)
  BY StateFields DEF States
<1>2. r.fits
  BY DEF CanAlloc
<1>3. BuffersPlaced(s, r, s.alive \ bs, bs)
  <2>1. PICK held : held = s.alive \ bs
    OBVIOUS
  <2>2. held \in SUBSET Buffers /\ Memory(s, held) /\ bs \cap held = {} /\ bs \in SUBSET Buffers
    BY <1>1, <2>1
  <2>3. BuffersPlaced(s, r, held, bs)
    BY <2>2, PlacedBuffers
  <2> QED BY <2>1, <2>3
<1>4. r \in Layouts /\ Memory(r, (s.alive \ bs) \cup bs)
  BY <1>2, <1>3 DEF BuffersPlaced
<1>5. (s.alive \ bs) \cup bs = s.alive /\ s.alive \cup bs = s.alive
  OBVIOUS
<1>6. PICK gaps : gaps = r.gaps
  OBVIOUS
<1>7. PICK addr : addr = r.addr
  OBVIOUS
<1>8. PICK alive : alive = s.alive
  OBVIOUS
<1>9. gaps \in Seq(GapRec) /\ addr \in [Buffers -> {Unallocated} \cup 0 .. prog.memory] /\ alive \in SUBSET Buffers
  BY <1>1, <1>4, <1>6, <1>7, <1>8 DEF Layouts
<1>10. t = [gaps |-> gaps, addr |-> addr, alive |-> alive, spilled |-> s.spilled, pipelines |->
            s.pipelines, beginHeap |-> s.beginHeap, readyCompute |-> s.readyCompute, readyData |->
            s.readyData, producer |-> s.producer, lastUse |-> s.lastUse, opEnd |-> s.opEnd, deltas
            |-> s.deltas]
  <2>1. t = [s EXCEPT !.gaps = gaps, !.addr = addr, !.alive = alive]
    BY <1>5, <1>6, <1>7, <1>8
  <2> DEFINE f == Fields(s)
  <2>2. t = [f EXCEPT !.gaps = gaps, !.addr = addr, !.alive = alive]
    BY <1>1, <2>1
  <2> QED BY <2>2 DEF Fields
<1>11. t \in States
  BY <1>9, <1>10 DEF States
<1>12. Memory(t, t.alive)
  <2>1. t.gaps = r.gaps /\ t.addr = r.addr /\ t.alive = s.alive
    BY <1>6, <1>7, <1>8, <1>10
  <2>2. Memory(r, s.alive)
    BY <1>4, <1>5
  <2> QED BY <2>1, <2>2, SameMemory
<1>13. /\ t.alive = s.alive /\ t.spilled = s.spilled /\ t.pipelines = s.pipelines
       /\ t.beginHeap = s.beginHeap /\ t.readyCompute = s.readyCompute /\ t.readyData = s.readyData
       /\ t.producer = s.producer /\ t.lastUse = s.lastUse /\ t.opEnd = s.opEnd
  BY <1>8, <1>10
<1> QED BY <1>11, <1>12, <1>13 DEF Allocated

\* No buffers, no change.
LEMMA NothingAllocated ==
  ASSUME NEW s \in States, NEW bs, bs \subseteq s.alive, NEW t, t = [s EXCEPT !.alive = @ \cup bs]
  PROVE  t = s
<1>1. s = Fields(s)
  BY StateFields
<1>2. s.alive \cup bs = s.alive
  OBVIOUS
<1>3. t = [s EXCEPT !.alive = s.alive]
  BY <1>2
<1> DEFINE f == Fields(s)
<1>4. t = [f EXCEPT !.alive = s.alive]
  BY <1>1, <1>3
<1>5. t = Fields(s)
  BY <1>4 DEF Fields
<1> QED BY <1>1, <1>5

\* Emptying the heap changes nothing else.
LEMMA HeapEmptied ==
  ASSUME NEW s \in States, NEW addr \in [Buffers -> {Unallocated} \cup 0 .. prog.memory],
         NEW t, t = [s EXCEPT !.beginHeap = {}, !.addr = addr]
  PROVE  Emptied(s, t, addr)
<1>1. s = Fields(s)
  BY StateFields
<1>3. PICK none : none = {}
  OBVIOUS
<1>4. none \in Heaps
  <2>1. {} \in Heaps
    BY FS_EmptySet DEF Heaps
  <2> QED BY <1>3, <2>1
<1>5. t = [gaps |-> s.gaps, addr |-> addr, alive |-> s.alive, spilled |-> s.spilled, pipelines |->
            s.pipelines, beginHeap |-> none, readyCompute |-> s.readyCompute, readyData |->
            s.readyData, producer |-> s.producer, lastUse |-> s.lastUse, opEnd |-> s.opEnd, deltas
            |-> s.deltas]
  <2>1. t = [s EXCEPT !.beginHeap = none, !.addr = addr]
    BY <1>3
  <2> DEFINE f == Fields(s)
  <2>2. t = [f EXCEPT !.beginHeap = none, !.addr = addr]
    BY <1>1, <2>1
  <2> QED BY <2>2 DEF Fields
<1>6. t \in States
  BY <1>4, <1>5 DEF States
<1> QED BY <1>3, <1>5, <1>6 DEF Emptied

\* MoveFromCycleBeginToCycleEndHeap does what Moved says.
LEMMA HeapMoved ==
  ASSUME ProgramOK, NEW s \in States, Memory(s, s.alive),
         \A e \in s.beginHeap : e.type = "write" => e.buf \notin s.alive,
         NEW addr, addr = AddressesLeft(s),
         NEW t, t = [s EXCEPT !.beginHeap = {}, !.addr = addr]
  PROVE  Moved(s, t)
<1>1. s = Fields(s) /\ s.addr \in [Buffers -> {Unallocated} \cup 0 .. prog.memory] /\ s.alive \subseteq Buffers
  BY StateFields DEF States
<1>4. addr \in [Buffers -> {Unallocated} \cup 0 .. prog.memory]
  BY <1>1 DEF AddressesLeft
<1>5. /\ t \in States
      /\ t.gaps = s.gaps /\ t.addr = addr
      /\ t.alive = s.alive /\ t.spilled = s.spilled /\ t.pipelines = s.pipelines
      /\ t.beginHeap = {} /\ t.readyCompute = s.readyCompute /\ t.readyData = s.readyData
      /\ t.producer = s.producer /\ t.lastUse = s.lastUse /\ t.opEnd = s.opEnd
  <2>1. Emptied(s, t, addr)
    BY <1>4, HeapEmptied
  <2> QED BY <2>1 DEF Emptied
<1>7. \A b \in s.alive : addr[b] = s.addr[b]
  BY <1>1 DEF AddressesLeft
<1>8. t.gaps = s.gaps /\ t.addr = addr /\ t.alive = s.alive
  BY <1>5
<1>9. Memory(t, t.alive)
  <2>1. /\ IsGapList(s.gaps, prog.memory)
        /\ \A b \in s.alive : s.addr[b] \in Nat /\ s.addr[b] + prog.size[b] <= prog.memory
        /\ \A b, c \in s.alive : b # c => ~Overlap(b, s.addr[b], c, s.addr[c])
        /\ \A x \in 0 .. prog.memory - 1 : Covers(s.gaps, x) <=> ~\E b \in s.alive : InBlock(s, b, x)
    BY DEF Memory
  <2>2. \A x : \A b \in s.alive : InBlock(t, b, x) <=> InBlock(s, b, x)
    BY <1>7, <1>8 DEF InBlock
  <2>3. /\ \A b \in s.alive : t.addr[b] \in Nat /\ t.addr[b] + prog.size[b] <= prog.memory
        /\ \A b, c \in s.alive : b # c => ~Overlap(b, t.addr[b], c, t.addr[c])
    BY <1>7, <1>8, <2>1
  <2> QED BY <1>8, <2>1, <2>2, <2>3 DEF Memory
<1> QED BY <1>5, <1>9 DEF Moved

-----------------------------------------------------------------------------
(***************************************************************************)
(* The steps.                                                              *)
(***************************************************************************)
\* The program and what init found out about it stay, and so does what the formulas
\* above say of a state.
LEMMA ProgramKept ==
  ASSUME UNCHANGED tables
  PROVE  /\ Ops' = Ops /\ Buffers' = Buffers /\ Elements' = Elements /\ Heaps' = Heaps
         /\ States' = States /\ OtherDMAs' = OtherDMAs
         /\ EvictionCandidates' = EvictionCandidates /\ CandidateOps' = CandidateOps
         /\ isDataOp' = isDataOp /\ opLevel' = opLevel /\ prog' = prog
         /\ \A i : IsCompute(i)' <=> IsCompute(i)
         /\ \A i : Deps(i)' = Deps(i)
<1>1. prog' = prog /\ isDataOp' = isDataOp /\ opLevel' = opLevel
  BY DEF tables
<1>2. Ops' = Ops /\ Buffers' = Buffers
  BY <1>1 DEF Ops, Buffers
<1>3. \A i : IsCompute(i)' <=> IsCompute(i)
  BY <1>1 DEF IsCompute
<1>4. \A i : Deps(i)' = Deps(i)
  BY <1>1 DEF Deps
<1>5. Elements' = Elements
  BY <1>1, <1>2 DEF Elements
<1>6. Heaps' = Heaps
  BY <1>5 DEF Heaps
<1>7. Deltas' = Deltas
  BY <1>2 DEF Deltas
<1>8. Pipelines' = Pipelines
  <2>1. \A q : Instances(q)' = Instances(q)
    BY <1>1 DEF Instances
  <2> QED BY <1>1, <2>1 DEF Pipelines
<1>9. States' = States
  BY <1>1, <1>2, <1>6, <1>7, <1>8 DEF States
<1>10. OtherDMAs' = OtherDMAs
  BY <1>1, <1>2, <1>3 DEF OtherDMAs
<1>11. EvictionCandidates' = EvictionCandidates /\ CandidateOps' = CandidateOps
  BY <1>2 DEF EvictionCandidates, CandidateOps
<1> QED BY <1>1, <1>2, <1>3, <1>4, <1>5, <1>6, <1>9, <1>10, <1>11

\* The predicates on a state do not change with the variables they do not mention.
LEMMA FormulasKept ==
  ASSUME UNCHANGED tables
  PROVE  /\ \A s : ReadyOK(s)' <=> ReadyOK(s)
         /\ \A s : Consistent(s)' <=> Consistent(s)
         /\ \A s : Written(s)' <=> Written(s)
         /\ \A s, held : Memory(s, held)' <=> Memory(s, held)
         /\ \A s, bs : CanAlloc(s, bs)' <=> CanAlloc(s, bs)
         /\ \A s, i : BuffersFor(s, i)' = BuffersFor(s, i)
         /\ \A s, cs : Candidates(s, cs)' <=> Candidates(s, cs)
         /\ \A s, dmas, degree, D : DoneCore(s, dmas, degree, D)' <=> DoneCore(s, dmas, degree, D)
         /\ \A s, dmas, D : ReadyFollow(s, dmas, D)' <=> ReadyFollow(s, dmas, D)
         /\ \A heap, D : OneOriginal(heap, D)' <=> OneOriginal(heap, D)
         /\ \A order : OrderOK(order)' <=> OrderOK(order)
         /\ DataOpsOK' <=> DataOpsOK
<1>1. /\ Ops' = Ops /\ Buffers' = Buffers /\ States' = States
      /\ isDataOp' = isDataOp /\ opLevel' = opLevel /\ prog' = prog
      /\ \A i : IsCompute(i)' <=> IsCompute(i)
      /\ \A i : Deps(i)' = Deps(i)
  BY ProgramKept
<1>2. ASSUME NEW s PROVE ReadyOK(s)' <=> ReadyOK(s)
  BY <1>1 DEF ReadyOK
<1>3. ASSUME NEW s PROVE Consistent(s)' <=> Consistent(s)
  BY <1>1 DEF Consistent, IsScheduled, IsOriginal
<1>4. ASSUME NEW s PROVE Written(s)' <=> Written(s)
  BY <1>1 DEF Written
<1>5. ASSUME NEW s, NEW held PROVE Memory(s, held)' <=> Memory(s, held)
  BY <1>1 DEF Memory, InBlock, Overlap
<1>20. prog' = prog
  BY <1>1
<1>6. \A b : OutDegree(b)' = OutDegree(b)
  BY <1>20 DEF OutDegree, Consumers, Ops, Deps, MapThenSumSet, MapThenFoldSet
<1>7. \A a, b : PlacedBefore(a, b)' <=> PlacedBefore(a, b)
  BY <1>1, <1>6 DEF PlacedBefore
<1>8. ASSUME NEW bs PROVE SortUsedBuffers(bs)' = SortUsedBuffers(bs)
  <2>1. \A x : {y \in bs : PlacedBefore(y, x)'} = {y \in bs : PlacedBefore(y, x)}
    BY <1>7
  <2>2. \A k : (CHOOSE x \in bs : Cardinality({y \in bs : PlacedBefore(y, x)'}) = k - 1)
               = (CHOOSE x \in bs : Cardinality({y \in bs : PlacedBefore(y, x)}) = k - 1)
    BY <2>1
  <2>3. SortUsedBuffers(bs)' = [k \in 1 .. Cardinality(bs) |->
                                  CHOOSE x \in bs : Cardinality({y \in bs : PlacedBefore(y, x)'}) = k - 1]
    BY DEF SortUsedBuffers, Sorted
  <2>4. SortUsedBuffers(bs) = [k \in 1 .. Cardinality(bs) |->
                                 CHOOSE x \in bs : Cardinality({y \in bs : PlacedBefore(y, x)}) = k - 1]
    BY DEF SortUsedBuffers, Sorted
  <2> QED BY <2>2, <2>3, <2>4
<1>9. ASSUME NEW s, NEW bs PROVE CanAlloc(s, bs)' <=> CanAlloc(s, bs)
  <2>1. PlaceBuffers(s.gaps, s.addr, bs)' = PlaceBuffers(s.gaps, s.addr, bs)
    <3>1. SortUsedBuffers(bs)' = SortUsedBuffers(bs)
      BY <1>8
    <3> QED BY <1>20, <3>1 DEF PlaceBuffers, FoldLeft, MapThenFoldSet
  <2> QED BY <2>1 DEF CanAlloc
<1>10. \A s, i : NonAlive(s, i)' = NonAlive(s, i)
  BY <1>1 DEF NonAlive, UsedBuffers
<1>11. \A s, i : NeededDeps(s, i)' = NeededDeps(s, i)
  BY <1>1 DEF NeededDeps, IsScheduled
<1>12. \A s, i : BuffersFor(s, i)' = BuffersFor(s, i)
  BY <1>10, <1>11 DEF BuffersFor
<1>13. ASSUME NEW s, NEW cs PROVE Candidates(s, cs)' <=> Candidates(s, cs)
  BY <1>1 DEF Candidates, IsScheduled
<1>14. ASSUME NEW s, NEW dmas, NEW D PROVE ReadyFollow(s, dmas, D)' <=> ReadyFollow(s, dmas, D)
  BY <1>1 DEF ReadyFollow, IsScheduled
<1>15. ASSUME NEW degree, NEW D PROVE Degrees(degree, D)' <=> Degrees(degree, D)
  BY <1>1 DEF Degrees
<1>16. ASSUME NEW s, NEW dmas, NEW degree, NEW D
       PROVE  DoneCore(s, dmas, degree, D)' <=> DoneCore(s, dmas, degree, D)
  BY <1>1, <1>14, <1>15 DEF DoneCore
<1>17. ASSUME NEW heap, NEW D PROVE OneOriginal(heap, D)' <=> OneOriginal(heap, D)
  BY <1>1 DEF OneOriginal, IsOriginal
<1>18. ASSUME NEW order PROVE OrderOK(order)' <=> OrderOK(order)
  BY <1>1 DEF OrderOK
<1>19. DataOpsOK' <=> DataOpsOK
  BY <1>1 DEF DataOpsOK
<1> QED BY <1>2, <1>3, <1>4, <1>5, <1>9, <1>12, <1>13, <1>14, <1>16, <1>17, <1>18, <1>19

\* What the invariant says of types.
LEMMA InvFacts ==
  ASSUME IInv
  PROVE  /\ ProgramOK /\ DataOpsOK /\ opLevel \in [Ops -> Nat] /\ OrderOK(computeOrder)
         /\ ReadyOK(m) /\ m \in States /\ Consistent(m) /\ Written(m) /\ Memory(m, Held)
         /\ readyDMA \in SUBSET OtherDMAs /\ endHeap \in Heaps
         /\ InCall => CallOK
<1>1. ProgramOK
  BY ProgramFacts DEF IInv, TablesInv
<1>2. DataOpsOK /\ opLevel \in [Ops -> Nat] /\ OrderOK(computeOrder)
  BY DEF IInv, TablesInv
<1>3. ReadyOK(m) /\ endHeap \in Heaps /\ (InCall => CallOK)
  BY DEF IInv, TypeInv
<1>4. readyDMA \in SUBSET OtherDMAs
  BY DEF IInv, TypeInv, OtherDMAs
<1>5. m \in States
  BY <1>3 DEF ReadyOK
<1>6. Consistent(m) /\ Written(m) /\ Memory(m, Held)
  BY DEF IInv, StateInv
<1> QED BY <1>1, <1>2, <1>3, <1>4, <1>5, <1>6

\* Scheduling the next operation of the call does what OpScheduled says.
LEMMA NextOpScheduled ==
  ASSUME IInv, Scheduling, call.todo # <<>>, NEW D \in SUBSET Ops, DoneInv(D),
         NEW i, i = Head(call.todo), i \in Ops \ isDataOp, Deps(i) \subseteq D,
         IsCompute(i) => i \in m.readyCompute,
         NEW u, TakesOp(m, u, i), u.readyCompute = m.readyCompute \ {i},
         NEW dmas \in SUBSET readyDMA
  PROVE  OpScheduled(u, dmas, D)
<1>1. /\ ProgramOK /\ DataOpsOK /\ ReadyOK(m) /\ m \in States /\ Consistent(m) /\ Written(m) /\ Memory(m, Held)
      /\ endHeap \in Heaps
  BY InvFacts
<1>2. InCall /\ call.todo \in Seq(Ops) /\ call.bufs \subseteq Buffers
  <2>1. InCall
    BY DEF InCall, Scheduling
  <2> QED BY <2>1, InvFacts DEF CallOK
<1>3. DoneCore(m, readyDMA, inDegree, D) /\ OneOriginal(m.beginHeap \cup endHeap, D)
  BY DEF DoneInv
<1> DEFINE new == NeededDeps(m, i) \cup {i}
<1>4. Takes(m, u, new)
  BY DEF TakesOp
<1>5. NeededDeps(m, i) \subseteq isDataOp
  BY <1>1, <1>3, NeededAreData
<1>6. new \in SUBSET Ops
  BY <1>1, <1>5 DEF DataOpsOK
<1>7. /\ ReadyOK(u) /\ Consistent(u) /\ Written(u) /\ u.gaps = m.gaps /\ u.addr = m.addr
      /\ \A b \in Buffers : m.producer[b] # 0 => u.producer[b] # 0
      /\ \A j \in Ops : IsScheduled(m, j) => IsScheduled(u, j)
      /\ \A e \in u.beginHeap \ m.beginHeap : e.type # "write" /\ (IsOriginal(e) => e.op \in new)
      /\ \A saved : DeltasFit(saved, m) => DeltasFit(saved, u)
  BY <1>4 DEF Takes
<1>8. /\ u.alive = m.alive \cup BuffersFor(m, i)
      /\ \A e, f \in u.beginHeap \ m.beginHeap :
           IsOriginal(e) /\ IsOriginal(f) /\ e.op = i /\ f.op = i => e = f
  BY DEF TakesOp
<1>9. \A j \in isDataOp : ~IsCompute(j)
  BY <1>1, DataOpsAreDMAs
<1>10. \A j \in u.readyCompute : j \notin new
  <2>1. \A j \in m.readyCompute : IsCompute(j)
    BY <1>1 DEF ReadyOK
  <2> QED BY <1>5, <1>9, <2>1
<1>11. DoneCore(u, dmas, inDegree, D)
  <2>1. \A j \in new \ isDataOp : Deps(j) \subseteq D
    BY <1>5
  <2> HIDE DEF new
  <2> QED BY <1>1, <1>3, <1>4, <1>6, <1>10, <2>1, TakenKeepsDone
<1>12. OneOriginal(u.beginHeap \cup endHeap, D)
  <2>1. \A e \in m.beginHeap \cup endHeap : IsOriginal(e) => IsScheduled(m, e.op)
    BY <1>1 DEF IInv, RunningInv, Consistent
  <2>2. IsCompute(i) => ~IsScheduled(m, i) /\ i \notin D
    BY <1>3 DEF DoneCore, ReadyFollow
  <2>3. \A j \in new : IsCompute(j) => j = i
    BY <1>5, <1>9
  <2>4. \A j \in new : IsCompute(j) => ~IsScheduled(m, j) /\ j \notin D
    BY <2>2, <2>3
  <2>5. \A e, f \in u.beginHeap \ m.beginHeap :
           IsOriginal(e) /\ IsOriginal(f) /\ e.op = f.op /\ IsCompute(e.op) => e = f
    <3> HIDE DEF new
    <3> QED BY <1>7, <1>8, <2>3
  <2> HIDE DEF new
  <2> QED BY <1>3, <1>4, <1>6, <2>1, <2>4, <2>5, TakenKeepsHeap
<1> HIDE DEF new
<1>13. \A e \in endHeap : IsOriginal(e) => IsScheduled(u, e.op)
  BY <1>1, <1>7 DEF IInv, RunningInv, Heaps, Elements
<1>14. \A e \in u.beginHeap : e.type # "write"
  <2>1. \A e \in m.beginHeap : e.type # "write"
    BY DEF IInv, WritesInv, Scheduling
  <2> QED BY <1>7, <2>1
<1>15. Candidates(u, candidates)
  BY <1>7 DEF IInv, CandidatesInv, Candidates
<1>16. ToCome = Coming(m, call.todo)
  BY DEF ToCome, Coming
<1>17. /\ call.bufs \subseteq m.alive \cup Coming(m, call.todo)
       /\ Coming(m, call.todo) \subseteq call.bufs
       /\ CanAlloc(m, call.bufs)
  BY <1>2, <1>16 DEF IInv, CallInv
<1>18. CanAlloc(u, call.bufs)
  BY <1>7, <1>17, SameMemory
<1>19. /\ 1 \in DOMAIN call.todo /\ i = call.todo[1] /\ Tail(call.todo) \in Seq(Ops)
       /\ \A k \in DOMAIN Tail(call.todo) : k + 1 \in DOMAIN call.todo /\ Tail(call.todo)[k] = call.todo[k + 1]
       /\ \A k \in DOMAIN call.todo :
            k = 1 \/ (k - 1 \in DOMAIN Tail(call.todo) /\ call.todo[k] = Tail(call.todo)[k - 1])
  BY <1>2, HeadAndTail
<1>20. BuffersFor(m, i) \subseteq call.bufs
  BY <1>17, <1>19 DEF Coming
<1>21. Memory(u, u.alive \ call.bufs)
  <2>1. u.alive \ call.bufs = Held
    BY <1>2, <1>8, <1>20 DEF Held
  <2>2. Memory(u, Held)
    BY <1>1, <1>7, SameMemory
  <2> QED BY <2>1, <2>2
<1>22. \A j \in Ops : /\ BuffersFor(u, j) \subseteq BuffersFor(m, j)
                      /\ BuffersFor(m, j) \subseteq u.alive \cup BuffersFor(u, j)
  BY <1>1, TakenKeepsToCome
<1>23. \A k \in DOMAIN Tail(call.todo) : Tail(call.todo)[k] \in Ops
  BY <1>19
<1>24. \A k \in DOMAIN call.todo : call.todo[k] \in Ops
  BY <1>2
<1>25. Coming(u, Tail(call.todo)) \subseteq call.bufs
  <2> SUFFICES ASSUME NEW k \in DOMAIN Tail(call.todo), NEW b \in BuffersFor(u, Tail(call.todo)[k])
               PROVE  b \in call.bufs
    BY DEF Coming
  <2>1. b \in BuffersFor(m, call.todo[k + 1]) /\ k + 1 \in DOMAIN call.todo
    BY <1>19, <1>22, <1>23
  <2> QED BY <1>17, <2>1 DEF Coming
<1>26. call.bufs \subseteq u.alive \cup Coming(u, Tail(call.todo))
  <2> SUFFICES ASSUME NEW b \in call.bufs, b \notin u.alive PROVE b \in Coming(u, Tail(call.todo))
    OBVIOUS
  <2>1. PICK k \in DOMAIN call.todo : b \in BuffersFor(m, call.todo[k])
    BY <1>8, <1>17 DEF Coming
  <2>2. b \in BuffersFor(u, call.todo[k]) /\ k # 1
    BY <1>8, <1>19, <1>22, <1>24, <2>1
  <2>3. k - 1 \in DOMAIN Tail(call.todo) /\ b \in BuffersFor(u, Tail(call.todo)[k - 1])
    BY <1>19, <2>2
  <2> QED BY <2>3 DEF Coming
<1> QED BY <1>7, <1>11, <1>12, <1>13, <1>14, <1>15, <1>18, <1>21, <1>25, <1>26 DEF OpScheduled

\* The program and the queues of what is to be computed stay.
LEMMA TablesStay ==
  ASSUME TablesInv, UNCHANGED tables, OrderOK(computeOrder')
  PROVE  TablesInv'
<1>1. prog' = prog /\ opLevel' = opLevel /\ Ops' = Ops
  BY ProgramKept
<1>2. DataOpsOK' /\ OrderOK(computeOrder)'
  BY FormulasKept DEF TablesInv
<1> QED BY <1>1, <1>2 DEF TablesInv

\* The call is a record of its local variables.
LEMMA CallIsRecord ==
  ASSUME CallOK
  PROVE  call = CallRec(call.todo, call.placed, call.bufs, call.alive, call.fragmented, call.saved)
BY DEF CallOK, CallRec

\* ScheduleComputeOp keeps the invariant.
LEMMA ComputeOpKeeps ==
  ASSUME IInv, ScheduleComputeOp
  PROVE  IInv'
<1>1. /\ pc = "compute" /\ call.todo # <<>>
      /\ m' = [ScheduleOp(m, Head(call.todo)) EXCEPT !.readyCompute = @ \ {Head(call.todo)}]
      /\ call' = [call EXCEPT !.todo = Tail(@), !.placed = @ \cup {Head(call.todo)}]
      /\ UNCHANGED tables /\ pc' = pc /\ readyDMA' = readyDMA /\ inDegree' = inDegree
      /\ computeOrder' = computeOrder /\ endHeap' = endHeap /\ users' = users /\ outputOps' = outputOps
      /\ prefetchSpill' = prefetchSpill /\ candidates' = candidates /\ failed' = failed
  BY DEF ScheduleComputeOp
<1>2. /\ ProgramOK /\ DataOpsOK /\ OrderOK(computeOrder) /\ ReadyOK(m) /\ m \in States /\ Consistent(m)
      /\ Written(m) /\ readyDMA \in SUBSET OtherDMAs /\ endHeap \in Heaps
  BY InvFacts
<1>3. InCall /\ Trying /\ Scheduling /\ InCall' /\ Trying' /\ Scheduling'
  BY <1>1 DEF InCall, Trying, Scheduling
<1>4. CallOK
  BY <1>3, InvFacts
<1>5. call.todo \in Seq(Ops)
  BY <1>3, <1>4 DEF CallOK
<1>6. PICK i : i = Head(call.todo)
  OBVIOUS
<1>7. /\ 1 \in DOMAIN call.todo /\ i = call.todo[1] /\ i \in Ops /\ Tail(call.todo) \in Seq(Ops)
      /\ \A k \in DOMAIN Tail(call.todo) : k + 1 \in DOMAIN call.todo /\ Tail(call.todo)[k] = call.todo[k + 1]
      /\ \A k \in DOMAIN call.todo : k \in Nat \ {0}
  BY <1>1, <1>5, <1>6, HeadAndTail
<1>8. /\ \A k \in DOMAIN call.todo : call.todo[k] \in m.readyCompute
      /\ \A j, k \in DOMAIN call.todo : call.todo[j] = call.todo[k] => j = k
  BY <1>1, <1>3 DEF IInv, CallInv
<1>9. i \in m.readyCompute /\ IsCompute(i)
  BY <1>2, <1>7, <1>8 DEF ReadyOK
<1>10. i \notin isDataOp
  BY <1>2, <1>9, DataOpsAreDMAs
<1>11. PICK D \in SUBSET Ops : DoneInv(D)
  BY DEF IInv
<1>12. DoneCore(m, readyDMA, inDegree, D) /\ ReadyFollow(call.saved, readyDMA, D)
  BY <1>3, <1>11 DEF DoneInv
<1>13. Deps(i) \subseteq D
  BY <1>9, <1>12 DEF DoneCore, ReadyFollow
<1>14. PICK u : u = m'
  OBVIOUS
<1>15. TakesOp(m, u, i)
  <2>1. NeededDeps(m, i) \subseteq isDataOp
    BY <1>2, <1>7, <1>12, <1>13, NeededAreData
  <2>2. u = [ScheduleOp(m, i) EXCEPT !.readyCompute = @ \ {i}]
    BY <1>1, <1>6, <1>14
  <2> QED BY <1>2, <1>7, <2>1, <2>2, OpTaken
<1>16. u.readyCompute = m.readyCompute \ {i}
  BY <1>15 DEF TakesOp
<1>17. OpScheduled(u, readyDMA, D)
  BY <1>1, <1>3, <1>6, <1>7, <1>9, <1>10, <1>11, <1>13, <1>15, <1>16, NextOpScheduled
<1>18. /\ ReadyOK(m') /\ Consistent(m') /\ Written(m') /\ Memory(m', m'.alive \ call.bufs)
       /\ DoneCore(m', readyDMA, inDegree, D)
       /\ OneOriginal(m'.beginHeap \cup endHeap, D)
       /\ \A e \in endHeap : IsOriginal(e) => IsScheduled(m', e.op)
       /\ \A e \in m'.beginHeap : e.type # "write"
       /\ Candidates(m', candidates)
       /\ CanAlloc(m', call.bufs)
       /\ call.bufs \subseteq m'.alive \cup Coming(m', Tail(call.todo))
       /\ Coming(m', Tail(call.todo)) \subseteq call.bufs
       /\ \A saved : DeltasFit(saved, m) => DeltasFit(saved, m')
  BY <1>14, <1>17 DEF OpScheduled
<1>19. call' = CallRec(Tail(call.todo), call.placed \cup {i}, call.bufs, call.alive, call.fragmented, call.saved)
  <2> DEFINE r == CallRec(call.todo, call.placed, call.bufs, call.alive, call.fragmented, call.saved)
  <2>1. call = r
    BY <1>4, CallIsRecord
  <2>2. call' = [r EXCEPT !.todo = Tail(call.todo), !.placed = call.placed \cup {i}]
    BY <1>1, <1>6, <2>1
  <2> QED BY <2>2 DEF CallRec
<1>20. /\ call'.todo = Tail(call.todo) /\ call'.placed = call.placed \cup {i} /\ call'.bufs = call.bufs
       /\ call'.saved = call.saved /\ call'.fragmented = call.fragmented
  BY <1>19 DEF CallRec
<1>21. TablesInv'
  BY <1>1, <1>2, TablesStay DEF IInv
<1>22. TypeInv'
  <2>1. CallOK'
    <3>2. call'.bufs \subseteq Buffers' /\ call'.fragmented \subseteq Buffers'
      BY <1>1, <1>4, <1>20, ProgramKept DEF CallOK
    <3>3. call' = [todo |-> call'.todo, placed |-> call'.placed, bufs |-> call'.bufs, alive |-> call'.alive,
                   fragmented |-> call'.fragmented, saved |-> call'.saved]
      BY <1>19 DEF CallRec
    <3>4. call'.todo \in Seq(Ops)' /\ call'.placed \subseteq Ops' /\ (\A j \in call'.placed : IsCompute(j)')
      BY <1>1, <1>4, <1>7, <1>9, <1>20, ProgramKept DEF CallOK
    <3> QED BY <1>1, <3>2, <3>3, <3>4 DEF CallOK
  <2>2. ReadyOK(m)'
    BY <1>1, <1>18, FormulasKept
  <2> QED BY <1>1, <2>1, <2>2, ProgramKept DEF IInv, TypeInv
<1>23. (\E E \in SUBSET Ops : DoneInv(E))'
  <2>1. DoneInv(D)'
    <3>1. DoneCore(m, readyDMA, inDegree, D)'
      BY <1>1, <1>18, FormulasKept
    <3>2. OneOriginal(m.beginHeap \cup endHeap, D)'
      BY <1>1, <1>18, FormulasKept
    <3>3. ReadyFollow(call.saved, readyDMA, D)'
      BY <1>1, <1>12, <1>20, FormulasKept
    <3> QED BY <1>1, <3>1, <3>2, <3>3 DEF DoneInv
  <2> QED BY <1>1, <2>1, ProgramKept
<1>24. RunningInv'
  BY <1>1, <1>3, <1>18, <1>20 DEF IInv, RunningInv, IsScheduled, IsOriginal
<1>25. CandidatesInv'
  <2>1. Candidates(m, candidates)' /\ Candidates(call.saved, candidates)'
    BY <1>1, <1>3, <1>18, <1>20, FormulasKept DEF IInv, CandidatesInv
  <2> QED BY <1>1, <1>3, <2>1, ProgramKept DEF IInv, CandidatesInv
<1>26. WritesInv'
  BY <1>1, <1>18 DEF WritesInv
<1>27. StateInv'
  <2>1. Held' = m'.alive \ call.bufs
    BY <1>3, <1>20 DEF Held
  <2>2. Memory(m, Held)'
    BY <1>1, <1>18, <2>1, FormulasKept
  <2> QED BY <1>1, <1>18, <2>2, FormulasKept DEF StateInv
<1>28. CallInv'
  <2>1. ToCome' = Coming(m', Tail(call.todo))
    <3>1. \A k : BuffersFor(m, call.todo[k])' = BuffersFor(m', Tail(call.todo)[k])
      BY <1>1, <1>20, FormulasKept
    <3> QED BY <1>3, <1>20, <3>1 DEF ToCome, Coming
  <2>2. CanAlloc(m, call.bufs)'
    BY <1>1, <1>18, <1>20, FormulasKept
  <2>3. \A k \in DOMAIN Tail(call.todo) : Tail(call.todo)[k] \in m'.readyCompute
    <3> SUFFICES ASSUME NEW k \in DOMAIN Tail(call.todo) PROVE Tail(call.todo)[k] \in m'.readyCompute
      OBVIOUS
    <3>1. k + 1 \in DOMAIN call.todo /\ Tail(call.todo)[k] = call.todo[k + 1] /\ k + 1 # 1
      <4>1. k + 1 \in DOMAIN call.todo /\ Tail(call.todo)[k] = call.todo[k + 1]
        BY <1>7
      <4>2. DOMAIN Tail(call.todo) = 1 .. Len(Tail(call.todo))
        BY <1>7
      <4> QED BY <4>1, <4>2
    <3>2. call.todo[k + 1] # i
      BY <1>7, <1>8, <3>1
    <3> QED BY <1>8, <1>14, <1>16, <3>1, <3>2
  <2>4. \A j, k \in DOMAIN Tail(call.todo) : Tail(call.todo)[j] = Tail(call.todo)[k] => j = k
    <3> SUFFICES ASSUME NEW j \in DOMAIN Tail(call.todo), NEW k \in DOMAIN Tail(call.todo),
                        Tail(call.todo)[j] = Tail(call.todo)[k]
                 PROVE  j = k
      OBVIOUS
    <3>1. j + 1 = k + 1
      BY <1>7, <1>8
    <3>2. DOMAIN Tail(call.todo) = 1 .. Len(Tail(call.todo))
      BY <1>7
    <3> QED BY <3>1, <3>2
  <2>5. call'.bufs \subseteq m'.alive \cup ToCome' /\ ToCome' \subseteq call'.bufs
    BY <1>18, <1>20, <2>1
  <2>6. /\ \A k \in DOMAIN call'.todo : call'.todo[k] \in m'.readyCompute
        /\ \A j, k \in DOMAIN call'.todo : call'.todo[j] = call'.todo[k] => j = k
    BY <1>20, <2>3, <2>4
  <2> QED BY <2>2, <2>5, <2>6 DEF CallInv
<1>29. SavedInv'
  <2>1. /\ ReadyOK(call.saved) /\ Consistent(call.saved) /\ Written(call.saved)
        /\ Memory(call.saved, call.saved.alive)
        /\ call.saved.beginHeap = {} /\ DeltasFit(call.saved, m)
    BY <1>3 DEF IInv, SavedInv
  <2>2. ReadyOK(call.saved)' /\ Consistent(call.saved)' /\ Written(call.saved)' /\ Memory(call.saved, call.saved.alive)'
    BY <1>1, <1>20, <2>1, FormulasKept
  <2>3. DeltasFit(call.saved, m)'
    <3>1. DeltasFit(call.saved, m')
      BY <1>18, <2>1
    <3> QED BY <1>20, <3>1 DEF DeltasFit, MapFits
  <2> QED BY <1>20, <2>1, <2>2, <2>3 DEF SavedInv
<1> QED BY <1>21, <1>22, <1>23, <1>24, <1>25, <1>26, <1>27, <1>28, <1>29 DEF IInv

\* Taking off what is not on the list changes nothing.
LEMMA SameReadyCompute ==
  ASSUME NEW s \in States, NEW i, i \notin s.readyCompute, NEW t, t = [s EXCEPT !.readyCompute = @ \ {i}]
  PROVE  t = s
<1>1. s = Fields(s)
  BY StateFields
<1>2. s.readyCompute \ {i} = s.readyCompute
  OBVIOUS
<1>3. t = [s EXCEPT !.readyCompute = s.readyCompute]
  BY <1>2
<1> DEFINE f == Fields(s)
<1>4. t = [f EXCEPT !.readyCompute = s.readyCompute]
  BY <1>1, <1>3
<1>5. t = Fields(s)
  BY <1>4 DEF Fields
<1> QED BY <1>1, <1>5

\* ScheduleDMAOp keeps the invariant.
LEMMA DMAOpKeeps ==
  ASSUME IInv, ScheduleDMAOp
  PROVE  IInv'
<1>1. /\ pc = "dma" /\ call.todo # <<>>
      /\ m' = ScheduleOp(m, Head(call.todo))
      /\ readyDMA' = readyDMA \ {Head(call.todo)}
      /\ call' = [call EXCEPT !.todo = Tail(@), !.placed = @ \cup {Head(call.todo)}]
      /\ UNCHANGED tables /\ pc' = pc /\ inDegree' = inDegree
      /\ computeOrder' = computeOrder /\ endHeap' = endHeap /\ users' = users /\ outputOps' = outputOps
      /\ prefetchSpill' = prefetchSpill /\ candidates' = candidates /\ failed' = failed
  BY DEF ScheduleDMAOp
<1>2. /\ ProgramOK /\ DataOpsOK /\ OrderOK(computeOrder) /\ ReadyOK(m) /\ m \in States /\ Consistent(m)
      /\ Written(m) /\ readyDMA \in SUBSET OtherDMAs /\ endHeap \in Heaps
  BY InvFacts
<1>3. InCall /\ ~Trying /\ Scheduling /\ InCall' /\ ~Trying' /\ Scheduling'
  BY <1>1 DEF InCall, Trying, Scheduling
<1>4. CallOK
  BY <1>3, InvFacts
<1>5. call.todo \in Seq(Ops)
  BY <1>3, <1>4 DEF CallOK
<1>6. PICK i : i = Head(call.todo)
  OBVIOUS
<1>7. /\ 1 \in DOMAIN call.todo /\ i = call.todo[1] /\ i \in Ops /\ Tail(call.todo) \in Seq(Ops)
      /\ \A k \in DOMAIN Tail(call.todo) : k + 1 \in DOMAIN call.todo /\ Tail(call.todo)[k] = call.todo[k + 1]
  BY <1>1, <1>5, <1>6, HeadAndTail
<1>11. PICK D \in SUBSET Ops : DoneInv(D)
  BY DEF IInv
<1>12. DoneCore(m, readyDMA, inDegree, D) /\ CallFollows(D)
  BY <1>1, <1>11 DEF DoneInv
<1>13. WaitingDMA(i, D)
  BY <1>7, <1>12 DEF CallFollows
<1>9. Deps(i) \subseteq D /\ ~IsCompute(i) /\ i \notin D /\ i \notin isDataOp
  BY <1>13 DEF WaitingDMA
<1>10. i \notin m.readyCompute
  BY <1>2, <1>9 DEF ReadyOK
<1>14. PICK u : u = m'
  OBVIOUS
<1>15. TakesOp(m, u, i)
  <2>1. NeededDeps(m, i) \subseteq isDataOp
    BY <1>2, <1>7, <1>9, <1>12, NeededAreData
  <2>2. PICK t : t = [ScheduleOp(m, i) EXCEPT !.readyCompute = @ \ {i}]
    OBVIOUS
  <2>3. u = ScheduleOp(m, i)
    BY <1>1, <1>6, <1>14
  <2>4. TakesOp(m, t, i)
    BY <1>2, <1>7, <2>1, <2>2, OpTaken
  <2>5. OpDone(m, u, i)
    BY <1>2, <1>7, <2>3, OpGrows
  <2>6. u \in States /\ u.readyCompute = m.readyCompute
    BY <2>5 DEF OpDone, Grows
  <2>7. t = u
    BY <1>10, <2>2, <2>3, <2>6, SameReadyCompute
  <2> QED BY <2>4, <2>7
<1>16. u.readyCompute = m.readyCompute \ {i} /\ \A d \in Deps(i) \cup {i} : IsScheduled(u, d)
  BY <1>15 DEF TakesOp
<1>17. OpScheduled(u, readyDMA', D)
  <2>1. readyDMA' \in SUBSET readyDMA
    BY <1>1
  <2> QED BY <1>1, <1>3, <1>6, <1>7, <1>9, <1>11, <1>15, <1>16, <2>1, NextOpScheduled
<1>18. /\ ReadyOK(m') /\ Consistent(m') /\ Written(m') /\ Memory(m', m'.alive \ call.bufs)
       /\ DoneCore(m', readyDMA', inDegree, D)
       /\ OneOriginal(m'.beginHeap \cup endHeap, D)
       /\ \A e \in endHeap : IsOriginal(e) => IsScheduled(m', e.op)
       /\ \A e \in m'.beginHeap : e.type # "write"
       /\ Candidates(m', candidates)
       /\ CanAlloc(m', call.bufs)
       /\ call.bufs \subseteq m'.alive \cup Coming(m', Tail(call.todo))
       /\ Coming(m', Tail(call.todo)) \subseteq call.bufs
       /\ \A j \in Ops : IsScheduled(m, j) => IsScheduled(m', j)
  BY <1>14, <1>17 DEF OpScheduled
<1>19. call' = CallRec(Tail(call.todo), call.placed \cup {i}, call.bufs, call.alive, call.fragmented, call.saved)
  <2> DEFINE r == CallRec(call.todo, call.placed, call.bufs, call.alive, call.fragmented, call.saved)
  <2>1. call = r
    BY <1>4, CallIsRecord
  <2>2. call' = [r EXCEPT !.todo = Tail(call.todo), !.placed = call.placed \cup {i}]
    BY <1>1, <1>6, <2>1
  <2> QED BY <2>2 DEF CallRec
<1>20. /\ call'.todo = Tail(call.todo) /\ call'.placed = call.placed \cup {i} /\ call'.bufs = call.bufs
       /\ call'.saved = call.saved /\ call'.fragmented = call.fragmented
  BY <1>19 DEF CallRec
<1>21. TablesInv'
  BY <1>1, <1>2, TablesStay DEF IInv
<1>22. TypeInv'
  <2>1. CallOK'
    <3>2. call'.bufs \subseteq Buffers' /\ call'.fragmented \subseteq Buffers'
      BY <1>1, <1>4, <1>20, ProgramKept DEF CallOK
    <3>3. call' = [todo |-> call'.todo, placed |-> call'.placed, bufs |-> call'.bufs, alive |-> call'.alive,
                   fragmented |-> call'.fragmented, saved |-> call'.saved]
      BY <1>19 DEF CallRec
    <3>4. call'.todo \in Seq(Ops)' /\ call'.placed \subseteq Ops'
      BY <1>1, <1>4, <1>7, <1>20, ProgramKept DEF CallOK
    <3> QED BY <1>1, <3>2, <3>3, <3>4 DEF CallOK
  <2>2. ReadyOK(m)'
    BY <1>1, <1>18, FormulasKept
  <2> QED BY <1>1, <2>1, <2>2, ProgramKept DEF IInv, TypeInv
<1>23. (\E E \in SUBSET Ops : DoneInv(E))'
  <2>1. DoneInv(D)'
    <3>1. DoneCore(m, readyDMA, inDegree, D)'
      BY <1>1, <1>18, FormulasKept
    <3>2. OneOriginal(m.beginHeap \cup endHeap, D)'
      BY <1>1, <1>18, FormulasKept
    <3>3. CallFollows(D)'
      <4>1. \A j \in call.placed \cup {i} :
              IsCompute(j) \/ (j \notin D \cup isDataOp \cup readyDMA' /\ IsScheduled(m', j))
        <5>1. \A j \in call.placed : IsCompute(j) \/ (j \notin D \cup isDataOp \cup readyDMA /\ IsScheduled(m, j))
          BY <1>12 DEF CallFollows, ScheduledDMA
        <5>2. \A j \in call.placed : j \in Ops
          BY <1>4 DEF CallOK
        <5>3. i \notin D \cup isDataOp \cup readyDMA' /\ IsScheduled(m', i)
          BY <1>1, <1>6, <1>9, <1>14, <1>16
        <5> QED BY <1>1, <1>18, <5>1, <5>2, <5>3
      <4>2. \A k \in DOMAIN Tail(call.todo) : WaitingDMA(Tail(call.todo)[k], D)
        BY <1>7, <1>12 DEF CallFollows
      <4>3. \A j : WaitingDMA(j, D)' <=> WaitingDMA(j, D)
        BY <1>1, ProgramKept DEF WaitingDMA
      <4>4. \A j \in call'.placed : IsCompute(j)' \/ ScheduledDMA(j, D)'
        <5>1. \A j : IsScheduled(m', j) <=> IsScheduled(m, j)'
          BY DEF IsScheduled
        <5> QED BY <1>1, <1>20, <4>1, <5>1, ProgramKept DEF ScheduledDMA
      <4>5. (\A k \in DOMAIN call.todo : WaitingDMA(call.todo[k], D))'
        BY <1>20, <4>2, <4>3
      <4> QED BY <4>4, <4>5 DEF CallFollows
    <3> QED BY <1>1, <1>3, <3>1, <3>2, <3>3 DEF DoneInv
  <2> QED BY <1>1, <2>1, ProgramKept
<1>24. RunningInv'
  BY <1>1, <1>3, <1>18, <1>20 DEF IInv, RunningInv, IsScheduled, IsOriginal
<1>25. CandidatesInv'
  <2>1. Candidates(m, candidates)'
    BY <1>1, <1>3, <1>18, <1>20, FormulasKept DEF IInv, CandidatesInv
  <2> QED BY <1>1, <1>3, <2>1, ProgramKept DEF IInv, CandidatesInv
<1>26. WritesInv'
  BY <1>1, <1>18 DEF WritesInv
<1>27. StateInv'
  <2>1. Held' = m'.alive \ call.bufs
    BY <1>3, <1>20 DEF Held
  <2>2. Memory(m, Held)'
    BY <1>1, <1>18, <2>1, FormulasKept
  <2> QED BY <1>1, <1>18, <2>2, FormulasKept DEF StateInv
<1>28. CallInv'
  <2>1. ToCome' = Coming(m', Tail(call.todo))
    <3>1. \A k : BuffersFor(m, call.todo[k])' = BuffersFor(m', Tail(call.todo)[k])
      BY <1>1, <1>20, FormulasKept
    <3> QED BY <1>3, <1>20, <3>1 DEF ToCome, Coming
  <2>2. CanAlloc(m, call.bufs)'
    BY <1>1, <1>18, <1>20, FormulasKept
  <2>5. call'.bufs \subseteq m'.alive \cup ToCome' /\ ToCome' \subseteq call'.bufs
    BY <1>18, <1>20, <2>1
  <2> QED BY <1>1, <2>2, <2>5 DEF CallInv
<1>29. SavedInv'
  BY <1>3 DEF SavedInv
<1> QED BY <1>21, <1>22, <1>23, <1>24, <1>25, <1>26, <1>27, <1>28, <1>29 DEF IInv

\* The call is Settled once everything chosen was scheduled.
LEMMA SettledNow ==
  ASSUME IInv, InCall, ToCome = {}, NEW D \in SUBSET Ops, DoneInv(D)
  PROVE  Settled(m, call.bufs, D)
<1>1. /\ ReadyOK(m) /\ Consistent(m) /\ Written(m) /\ Memory(m, Held)
  BY InvFacts
<1>2. Held = m.alive \ call.bufs
  BY DEF Held
<1>3. Memory(m, m.alive \ call.bufs)
  BY <1>1, <1>2
<1>4. OneOriginal(m.beginHeap \cup endHeap, D)
  BY DEF DoneInv
<1>5. \A e \in endHeap : IsOriginal(e) => IsScheduled(m, e.op)
  BY DEF IInv, RunningInv
<1>6. \A e \in m.beginHeap : e.type # "write"
  BY DEF IInv, WritesInv, InCall
<1>7. Candidates(m, candidates)
  BY DEF IInv, CandidatesInv
<1>8. CanAlloc(m, call.bufs) /\ call.bufs \subseteq m.alive
  BY DEF IInv, CallInv
<1>9. call.bufs \in SUBSET Buffers
  BY InvFacts DEF CallOK
<1> QED BY <1>1, <1>3, <1>4, <1>5, <1>6, <1>7, <1>8, <1>9 DEF Settled

\* And so it is after a prefetch that fits.
LEMMA PrefetchedSettles ==
  ASSUME IInv, InCall, ToCome = {}, NEW D \in SUBSET Ops, DoneInv(D), NEW op \in Ops,
         NEW bufs, bufs = PrefetchBuffers(m, op) \cup call.bufs, CanAlloc(m, bufs),
         NEW u, u = ExecutePrefetch(m, op)
  PROVE  Settled(u, bufs, D) /\ DoneCore(u, readyDMA, inDegree, D)
<1>1. /\ ProgramOK /\ DataOpsOK /\ ReadyOK(m) /\ m \in States /\ Consistent(m) /\ Written(m) /\ Memory(m, Held)
      /\ endHeap \in Heaps
  BY InvFacts
<1>2. Settled(m, call.bufs, D)
  BY SettledNow
<1>3. DoneCore(m, readyDMA, inDegree, D)
  BY DEF DoneInv
<1>4. op \in m.readyData => NeededDeps(m, op) = {}
  BY <1>1, <1>3, NothingNeeded
<1>5. TakesPrefetch(m, u, op)
  BY <1>1, <1>4, PrefetchTakes
<1> DEFINE new == {op} \cap m.readyData
<1>6. /\ Takes(m, u, new) /\ u.alive = m.alive \cup PrefetchBuffers(m, op)
      /\ PrefetchBuffers(m, op) \in SUBSET Buffers /\ PrefetchBuffers(m, op) \cap m.alive = {}
  BY <1>5 DEF TakesPrefetch
<1>7. new \subseteq isDataOp /\ new \in SUBSET Ops
  BY <1>1 DEF ReadyOK
<1>8. \A j \in new : ~IsCompute(j)
  BY <1>1, <1>7, DataOpsAreDMAs
<1> HIDE DEF new
<1>9. /\ ReadyOK(u) /\ Consistent(u) /\ Written(u) /\ u.gaps = m.gaps /\ u.addr = m.addr
      /\ \A b \in Buffers : m.producer[b] # 0 => u.producer[b] # 0
      /\ \A j \in Ops : IsScheduled(m, j) => IsScheduled(u, j)
      /\ \A e \in u.beginHeap \ m.beginHeap : e.type # "write" /\ (IsOriginal(e) => e.op \in new)
      /\ \A saved : DeltasFit(saved, m) => DeltasFit(saved, u)
  BY <1>6 DEF Takes
<1>10. DoneCore(u, readyDMA, inDegree, D)
  <2>1. \A j \in u.readyCompute : j \notin new
    BY <1>8, <1>9 DEF ReadyOK
  <2>2. \A j \in new \ isDataOp : Deps(j) \subseteq D
    BY <1>7
  <2> QED BY <1>1, <1>3, <1>6, <1>7, <2>1, <2>2, TakenKeepsDone
<1>11. /\ OneOriginal(m.beginHeap \cup endHeap, D)
       /\ \A e \in endHeap : IsOriginal(e) => IsScheduled(m, e.op)
       /\ \A e \in m.beginHeap : e.type # "write"
       /\ Candidates(m, candidates)
       /\ call.bufs \in SUBSET Buffers /\ call.bufs \subseteq m.alive
       /\ Memory(m, m.alive \ call.bufs)
  BY <1>2 DEF Settled
<1>12. OneOriginal(u.beginHeap \cup endHeap, D)
  <2>1. \A e \in m.beginHeap \cup endHeap : IsOriginal(e) => IsScheduled(m, e.op)
    BY <1>1, <1>11 DEF Consistent
  <2>2. \A e, f \in u.beginHeap \ m.beginHeap :
           IsOriginal(e) /\ IsOriginal(f) /\ e.op = f.op /\ IsCompute(e.op) => e = f
    BY <1>8, <1>9
  <2> QED BY <1>6, <1>7, <1>8, <1>11, <2>1, <2>2, TakenKeepsHeap
<1>13. \A e \in endHeap : IsOriginal(e) => IsScheduled(u, e.op)
  BY <1>1, <1>9, <1>11 DEF Heaps, Elements
<1>14. \A e \in u.beginHeap : e.type # "write"
  BY <1>9, <1>11
<1>15. Candidates(u, candidates)
  BY <1>9, <1>11 DEF Candidates
<1>16. CanAlloc(u, bufs)
  BY <1>9, SameMemory
<1>17. Memory(u, u.alive \ bufs)
  <2>1. u.alive \ bufs = m.alive \ call.bufs
    BY <1>6
  <2>2. Memory(u, m.alive \ call.bufs)
    BY <1>9, <1>11, SameMemory
  <2> QED BY <2>1, <2>2
<1>18. bufs \in SUBSET Buffers /\ bufs \subseteq u.alive
  BY <1>6, <1>11
<1> QED BY <1>9, <1>10, <1>12, <1>13, <1>14, <1>15, <1>16, <1>17, <1>18 DEF Settled

\* A step of prefetching that settles keeps the invariant.
LEMMA PrefetchStep ==
  ASSUME IInv, InCall, UNCHANGED tables, pc' \in {"prefetch", "prefetchDMA"}, Trying' => Trying,
         computeOrder' = computeOrder, endHeap' = endHeap, users' \in [Buffers -> SUBSET Ops],
         outputOps' \subseteq Ops, prefetchSpill' = prefetchSpill, candidates' = candidates, failed' \in BOOLEAN,
         readyDMA' \in SUBSET OtherDMAs,
         NEW D \in SUBSET Ops, DoneCore(m', readyDMA', inDegree', D),
         Trying' => ReadyFollow(call.saved, readyDMA', D) /\ \A i \in call.placed : IsCompute(i),
         NEW todo \in Seq(CandidateOps), NEW bufs, NEW alive, NEW fragmented \in SUBSET Buffers,
         call' = CallRec(todo, call.placed, bufs, alive, fragmented, call.saved),
         Settled(m', bufs, D)
  PROVE  IInv'
<1>1. /\ call'.todo = todo /\ call'.placed = call.placed /\ call'.bufs = bufs
      /\ call'.saved = call.saved /\ call'.fragmented = fragmented
  BY DEF CallRec
<1>2. /\ ReadyOK(m') /\ Consistent(m') /\ Written(m') /\ Memory(m', m'.alive \ bufs)
      /\ OneOriginal(m'.beginHeap \cup endHeap, D)
      /\ \A e \in endHeap : IsOriginal(e) => IsScheduled(m', e.op)
      /\ \A e \in m'.beginHeap : e.type # "write"
      /\ Candidates(m', candidates)
      /\ CanAlloc(m', bufs)
      /\ bufs \in SUBSET Buffers /\ bufs \subseteq m'.alive
      /\ \A saved : DeltasFit(saved, m) => DeltasFit(saved, m')
  BY DEF Settled
<1>3. InCall' /\ ~Scheduling' /\ pc' # "dma" /\ pc' # "selectDMA" /\ pc' # "compute" /\ pc' # "evict"
      /\ pc' # "select" /\ (Trying' <=> pc' = "prefetch")
  BY DEF InCall, Scheduling, Trying
<1>4. CallOK /\ OrderOK(computeOrder) /\ endHeap \in Heaps
  BY InvFacts
<1>21. TablesInv'
  BY <1>4, TablesStay DEF IInv
<1>22. TypeInv'
  <2>1. CallOK'
    <3>2. call'.bufs \subseteq Buffers' /\ call'.fragmented \subseteq Buffers' /\ call'.placed \subseteq Ops'
          /\ call'.todo \in Seq(CandidateOps)'
      BY <1>1, <1>2, <1>4, ProgramKept DEF CallOK
    <3>3. call' = [todo |-> call'.todo, placed |-> call'.placed, bufs |-> call'.bufs, alive |-> call'.alive,
                   fragmented |-> call'.fragmented, saved |-> call'.saved]
      BY DEF CallRec
    <3>4. Trying' => (\A i \in call'.placed : IsCompute(i)')
      BY <1>1, ProgramKept
    <3> QED BY <1>3, <3>2, <3>3, <3>4 DEF CallOK, Scheduling, Trying
  <2>2. ReadyOK(m)'
    BY <1>2, FormulasKept
  <2>3. readyDMA' \subseteq {i \in Ops \ isDataOp : ~IsCompute(i)}'
    BY ProgramKept DEF OtherDMAs
  <2>4. endHeap' \in Heaps' /\ users' \in [Buffers -> SUBSET Ops]' /\ outputOps' \subseteq Ops'
    BY <1>4, ProgramKept
  <2> QED BY <2>3, <2>4, <2>1, <2>2 DEF TypeInv
<1>23. (\E E \in SUBSET Ops : DoneInv(E))'
  <2>1. DoneInv(D)'
    <3>1. DoneCore(m, readyDMA, inDegree, D)'
      BY FormulasKept
    <3>2. OneOriginal(m.beginHeap \cup endHeap, D)'
      BY <1>2, FormulasKept
    <3>3. Trying' => ReadyFollow(call.saved, readyDMA, D)'
      BY <1>1, FormulasKept
    <3> QED BY <1>3, <3>1, <3>2, <3>3 DEF DoneInv
  <2> QED BY <2>1, ProgramKept
<1>24. RunningInv'
  BY <1>1, <1>2 DEF IInv, RunningInv, IsScheduled, IsOriginal
<1>25. CandidatesInv'
  <2>1. Candidates(m, candidates)' /\ (Trying' => Candidates(call.saved, candidates)')
    BY <1>1, <1>2, FormulasKept DEF IInv, CandidatesInv
  <2> QED BY <1>3, <2>1, ProgramKept DEF IInv, CandidatesInv
<1>26. WritesInv'
  BY <1>2, <1>3 DEF WritesInv
<1>27. StateInv'
  <2>1. Held' = m'.alive \ bufs
    BY <1>1, <1>3 DEF Held
  <2>2. Memory(m, Held)'
    BY <1>2, <2>1, FormulasKept
  <2> QED BY <1>2, <2>2, FormulasKept DEF StateInv
<1>28. CallInv'
  <2>1. ToCome' = {}
    BY <1>3 DEF ToCome
  <2>2. CanAlloc(m, call.bufs)'
    BY <1>1, <1>2, FormulasKept
  <2> QED BY <1>1, <1>2, <1>3, <2>1, <2>2 DEF CallInv
<1>29. SavedInv'
  <2> SUFFICES ASSUME Trying'
               PROVE  /\ ReadyOK(call.saved)' /\ Consistent(call.saved)' /\ Written(call.saved)'
                      /\ Memory(call.saved, call.saved.alive)'
                      /\ call'.saved.beginHeap = {} /\ DeltasFit(call.saved, m)'
    BY DEF SavedInv
  <2>1. /\ ReadyOK(call.saved) /\ Consistent(call.saved) /\ Written(call.saved)
        /\ Memory(call.saved, call.saved.alive)
        /\ call.saved.beginHeap = {} /\ DeltasFit(call.saved, m)
    BY DEF IInv, SavedInv
  <2>2. ReadyOK(call.saved)' /\ Consistent(call.saved)' /\ Written(call.saved)' /\ Memory(call.saved, call.saved.alive)'
    BY <1>1, <2>1, FormulasKept
  <2>3. DeltasFit(call.saved, m)'
    <3>1. DeltasFit(call.saved, m')
      BY <1>2, <2>1
    <3> QED BY <1>1, <3>1 DEF DeltasFit, MapFits
  <2> QED BY <1>1, <2>1, <2>2, <2>3
<1> QED BY <1>21, <1>22, <1>23, <1>24, <1>25, <1>26, <1>27, <1>28, <1>29 DEF IInv

\* StartPrefetch sets the list of candidates.
LEMMA PrefetchStarted ==
  ASSUME ProgramOK, opLevel \in [Ops -> Nat], CallOK, NEW s \in States, StartPrefetch(s)
  PROVE  \E alive : \E todo \in Seq(CandidateOps) :
           call' = CallRec(todo, call.placed, call.bufs, alive, call.fragmented, call.saved)
<1>1. PICK limit : limit = LimitReached(call.placed, Cardinality(AliveDataOps(s)))
  OBVIOUS
<1>2. PICK alive : alive = Cardinality(AliveDataOps(s))
  OBVIOUS
<1>3. PICK todo : todo = IF limit THEN <<>>
                         ELSE Sorted(PrefetchCandidates(s, LastOp(s, call.placed), LastLevel(s, call.placed)), Closer)
  OBVIOUS
<1>4. todo \in Seq(CandidateOps)
  BY <1>3, PrefetchListTyped
<1>5. call' = [call EXCEPT !.alive = alive, !.todo = todo]
  BY <1>1, <1>2, <1>3 DEF StartPrefetch
<1> DEFINE r == CallRec(call.todo, call.placed, call.bufs, call.alive, call.fragmented, call.saved)
<1>6. call = r
  BY CallIsRecord
<1>7. call' = [r EXCEPT !.alive = alive, !.todo = todo]
  BY <1>5, <1>6
<1>8. call' = CallRec(todo, call.placed, call.bufs, alive, call.fragmented, call.saved)
  BY <1>7 DEF CallRec
<1> QED BY <1>4, <1>8

\* With nothing left to schedule no buffers are to come.
LEMMA NothingToCome ==
  ASSUME InCall, Scheduling => call.todo = <<>>
  PROVE  ToCome = {}
BY DEF ToCome

\* PrefetchForCompute keeps the invariant.
LEMMA PrefetchForComputeKeeps ==
  ASSUME IInv, PrefetchForCompute
  PROVE  IInv'
<1>1. /\ pc = "compute" /\ call.todo = <<>> /\ StartPrefetch(m) /\ pc' = "prefetch" /\ UNCHANGED tables
      /\ m' = m /\ readyDMA' = readyDMA /\ inDegree' = inDegree /\ computeOrder' = computeOrder
      /\ endHeap' = endHeap /\ users' = users /\ outputOps' = outputOps
      /\ prefetchSpill' = prefetchSpill /\ candidates' = candidates /\ failed' = failed
  BY DEF PrefetchForCompute
<1>2. InCall /\ Trying
  BY <1>1 DEF InCall, Trying
<1>3. ProgramOK /\ opLevel \in [Ops -> Nat] /\ CallOK /\ m \in States /\ readyDMA \in SUBSET OtherDMAs
  BY <1>2, InvFacts
<1>4. PICK alive : \E todo \in Seq(CandidateOps) :
        call' = CallRec(todo, call.placed, call.bufs, alive, call.fragmented, call.saved)
  BY <1>1, <1>3, PrefetchStarted
<1>40. PICK todo \in Seq(CandidateOps) :
        call' = CallRec(todo, call.placed, call.bufs, alive, call.fragmented, call.saved)
  BY <1>4
<1>5. PICK D \in SUBSET Ops : DoneInv(D)
  BY DEF IInv
<1>6. ToCome = {}
  BY <1>1, <1>2, NothingToCome
<1>7. Settled(m', call.bufs, D)
  BY <1>1, <1>2, <1>5, <1>6, SettledNow
<1>8. DoneCore(m', readyDMA', inDegree', D) /\ ReadyFollow(call.saved, readyDMA', D)
  BY <1>1, <1>2, <1>5 DEF DoneInv
<1>9. call.fragmented \in SUBSET Buffers /\ \A i \in call.placed : IsCompute(i)
  BY <1>1, <1>3 DEF CallOK
<1>10. users' \in [Buffers -> SUBSET Ops] /\ outputOps' \subseteq Ops /\ failed' \in BOOLEAN
  BY <1>1 DEF IInv, TypeInv
<1>11. pc' \in {"prefetch", "prefetchDMA"} /\ readyDMA' \in SUBSET OtherDMAs
  BY <1>1, <1>3
<1> QED BY <1>1, <1>2, <1>40, <1>7, <1>8, <1>9, <1>10, <1>11, PrefetchStep

\* A step that sets the list only.
LEMMA CallTodoSet ==
  ASSUME CallOK, NEW todo, call' = [call EXCEPT !.todo = todo]
  PROVE  call' = CallRec(todo, call.placed, call.bufs, call.alive, call.fragmented, call.saved)
<1> DEFINE r == CallRec(call.todo, call.placed, call.bufs, call.alive, call.fragmented, call.saved)
<1>1. call = r
  BY CallIsRecord
<1>2. call' = [r EXCEPT !.todo = todo]
  BY <1>1
<1> QED BY <1>2 DEF CallRec

\* TryPrefetch ends with one of the outcomes.
LEMMA PrefetchTried ==
  ASSUME ProgramOK, CallOK, m \in States, NEW op \in Ops, NEW own \in SUBSET Buffers, own = PrefetchBuffers(m, op),
         call.todo \in Seq(CandidateOps), call.todo # <<>>, TryPrefetch(op, own)
  PROVE  PrefetchOutcome(op)
<1>1. Tail(call.todo) \in Seq(CandidateOps) /\ <<>> \in Seq(CandidateOps)
  BY HeadAndTail
<1>2. call.bufs \in SUBSET Buffers /\ call.fragmented \in SUBSET Buffers
  BY DEF CallOK
<1> DEFINE r == CallRec(call.todo, call.placed, call.bufs, call.alive, call.fragmented, call.saved)
<1>3. call = r
  BY CallIsRecord
<1>4. CASE own = {} /\ call' = [call EXCEPT !.todo = Tail(@)] /\ UNCHANGED m
  <2>1. call' = CallRec(Tail(call.todo), call.placed, call.bufs, call.alive, call.fragmented, call.saved)
    BY <1>4, CallTodoSet
  <2>2. PrefetchTo(op, Tail(call.todo), call.bufs, call.alive, call.fragmented)
    BY <1>4, <2>1 DEF PrefetchTo
  <2> QED BY <1>1, <1>2, <2>2 DEF PrefetchOutcome
<1>5. CASE own # {} /\ TooEarly(m, call.placed, op) /\ call' = [call EXCEPT !.todo = <<>>] /\ UNCHANGED m
  <2>1. call' = CallRec(<<>>, call.placed, call.bufs, call.alive, call.fragmented, call.saved)
    BY <1>5, CallTodoSet
  <2>2. PrefetchTo(op, <<>>, call.bufs, call.alive, call.fragmented)
    BY <1>5, <2>1 DEF PrefetchTo
  <2> QED BY <1>1, <1>2, <2>2 DEF PrefetchOutcome
<1>6. ASSUME CanAlloc(m, own \cup call.bufs), NEW count, PrefetchTaken(op, own \cup call.bufs, count)
      PROVE  PrefetchOutcome(op)
  <2>1. PICK bs \in SUBSET Buffers : bs = own \cup call.bufs
    BY <1>2
  <2>2. PICK todo : todo = IF LimitReached(call.placed, count) THEN <<>> ELSE Tail(call.todo)
    OBVIOUS
  <2>3. todo \in Seq(CandidateOps)
    BY <1>1, <2>2
  <2>4. m' = ExecutePrefetch(m, op) /\ call' = [call EXCEPT !.bufs = bs, !.alive = count, !.todo = todo]
    BY <1>6, <2>1, <2>2 DEF PrefetchTaken
  <2>5. call' = [r EXCEPT !.bufs = bs, !.alive = count, !.todo = todo]
    BY <1>3, <2>4
  <2>6. call' = CallRec(todo, call.placed, bs, count, call.fragmented, call.saved)
    BY <2>5 DEF CallRec
  <2>7. PrefetchTo(op, todo, bs, count, call.fragmented)
    BY <1>6, <2>1, <2>4, <2>6 DEF PrefetchTo
  <2> QED BY <1>2, <2>3, <2>7 DEF PrefetchOutcome
<1>7. CASE PrefetchRefused(own \cup call.bufs)
  <2>1. PICK bs \in SUBSET Buffers : bs = own \cup call.bufs
    BY <1>2
  <2>2. PICK fragmented : fragmented =
          IF /\ pc = "prefetch" /\ prog.activelySpill
             /\ TotalBuffersSize(bs) <= TotalFreeSize(m.gaps)
          THEN bs ELSE {}
    OBVIOUS
  <2>3. fragmented \in SUBSET Buffers
    BY <2>2
  <2>4. m' = m /\ call' = [call EXCEPT !.todo = <<>>, !.fragmented = fragmented]
    BY <1>7, <2>1, <2>2 DEF PrefetchRefused
  <2>5. call' = [r EXCEPT !.todo = <<>>, !.fragmented = fragmented]
    BY <1>3, <2>4
  <2>6. call' = CallRec(<<>>, call.placed, call.bufs, call.alive, fragmented, call.saved)
    BY <2>5 DEF CallRec
  <2>7. PrefetchTo(op, <<>>, call.bufs, call.alive, fragmented)
    BY <2>4, <2>6 DEF PrefetchTo
  <2> QED BY <1>1, <1>2, <2>3, <2>7 DEF PrefetchOutcome
<1> QED BY <1>4, <1>5, <1>6, <1>7 DEF TryPrefetch

\* PrefetchOp keeps the invariant.
LEMMA PrefetchOpKeeps ==
  ASSUME IInv, PrefetchOp
  PROVE  IInv'
<1>1. /\ pc \in {"prefetch", "prefetchDMA"} /\ call.todo # <<>> /\ pc' = pc /\ UNCHANGED tables
      /\ TryPrefetch(Head(call.todo).op, PrefetchBuffers(m, Head(call.todo).op))
      /\ readyDMA' = readyDMA /\ inDegree' = inDegree /\ computeOrder' = computeOrder
      /\ endHeap' = endHeap /\ users' = users /\ outputOps' = outputOps
      /\ prefetchSpill' = prefetchSpill /\ candidates' = candidates /\ failed' = failed
  BY DEF PrefetchOp
<1>2. InCall /\ ~Scheduling /\ (Trying' <=> Trying)
  BY <1>1 DEF InCall, Scheduling, Trying
<1>3. /\ ProgramOK /\ DataOpsOK /\ CallOK /\ m \in States /\ ReadyOK(m) /\ Consistent(m) /\ Written(m)
      /\ readyDMA \in SUBSET OtherDMAs
  BY <1>2, InvFacts
<1>4. PICK D \in SUBSET Ops : DoneInv(D)
  BY DEF IInv
<1>5. ToCome = {}
  BY <1>2, NothingToCome
<1>6. Settled(m, call.bufs, D)
  BY <1>2, <1>4, <1>5, SettledNow
<1>7. DoneCore(m, readyDMA, inDegree, D) /\ (Trying => ReadyFollow(call.saved, readyDMA, D))
  BY <1>4 DEF DoneInv
<1>8. call.todo \in Seq(CandidateOps)
  BY <1>1, <1>3 DEF CallOK
<1>9. PICK op \in Ops : op = Head(call.todo).op
  <2>1. Head(call.todo) \in CandidateOps
    BY <1>1, <1>8, HeadAndTail
  <2> QED BY <2>1 DEF CandidateOps
<1>10. PrefetchBuffers(m, op) \in SUBSET Buffers
  <2>1. op \in m.readyData => NeededDeps(m, op) = {}
    BY <1>3, <1>7, NothingNeeded
  <2>2. PICK t : t = ExecutePrefetch(m, op)
    OBVIOUS
  <2>3. TakesPrefetch(m, t, op)
    BY <1>3, <2>1, <2>2, PrefetchTakes
  <2> QED BY <2>3 DEF TakesPrefetch
<1>11. TryPrefetch(op, PrefetchBuffers(m, op))
  BY <1>1, <1>9
<1>12. PrefetchOutcome(op)
  <2>1. PICK own \in SUBSET Buffers : own = PrefetchBuffers(m, op)
    BY <1>10
  <2> QED BY <1>1, <1>3, <1>8, <1>11, <2>1, PrefetchTried
<1>13. PICK alive, todo, bufs, fragmented :
         /\ todo \in Seq(CandidateOps) /\ fragmented \in SUBSET Buffers
         /\ call' = CallRec(todo, call.placed, bufs, alive, fragmented, call.saved)
         /\ \/ bufs = call.bufs /\ m' = m
            \/ /\ bufs = PrefetchBuffers(m, op) \cup call.bufs /\ CanAlloc(m, bufs)
               /\ m' = ExecutePrefetch(m, op)
  BY <1>12 DEF PrefetchOutcome, PrefetchTo
<1>14. Settled(m', bufs, D) /\ DoneCore(m', readyDMA', inDegree', D)
  <2>1. CASE bufs = call.bufs /\ m' = m
    BY <1>1, <1>6, <1>7, <2>1
  <2>2. CASE /\ bufs = PrefetchBuffers(m, op) \cup call.bufs /\ CanAlloc(m, bufs)
             /\ m' = ExecutePrefetch(m, op)
    <3>1. PICK u : u = m'
      OBVIOUS
    <3>2. Settled(u, bufs, D) /\ DoneCore(u, readyDMA, inDegree, D)
      BY <1>2, <1>4, <1>5, <2>2, <3>1, PrefetchedSettles
    <3> QED BY <1>1, <3>1, <3>2
  <2> QED BY <1>13, <2>1, <2>2
<1>15. Trying' => ReadyFollow(call.saved, readyDMA', D) /\ \A i \in call.placed : IsCompute(i)
  BY <1>1, <1>2, <1>3, <1>7 DEF CallOK, Trying
<1>16. users' \in [Buffers -> SUBSET Ops] /\ outputOps' \subseteq Ops /\ failed' \in BOOLEAN
  BY <1>1 DEF IInv, TypeInv
<1>17. pc' \in {"prefetch", "prefetchDMA"} /\ readyDMA' \in SUBSET OtherDMAs
  BY <1>1, <1>3
<1>19. todo \in Seq(CandidateOps) /\ fragmented \in SUBSET Buffers
  BY <1>13
<1>18. call' = CallRec(todo, call.placed, bufs, alive, fragmented, call.saved)
  BY <1>13
<1> QED BY <1>1, <1>2, <1>14, <1>15, <1>16, <1>17, <1>18, <1>19, PrefetchStep

\* Adding to the ready lists is a change as in SameButReady.
LEMMA ReadyAddedKeeps ==
  ASSUME NEW s, NEW t, NEW ready, NEW others, ReadyAdded(s, t, ready, others)
  PROVE  SameButReady(s, t)
<1>1. /\ t.gaps = s.gaps /\ t.addr = s.addr /\ t.alive = s.alive /\ t.spilled = s.spilled
      /\ t.beginHeap = s.beginHeap
      /\ t.producer = s.producer /\ t.lastUse = s.lastUse /\ t.opEnd = s.opEnd /\ t.deltas = s.deltas
  BY DEF ReadyAdded
<1>2. \A j : IsScheduled(s, j) <=> IsScheduled(t, j)
  BY <1>1 DEF IsScheduled
<1>3. Consistent(s) => Consistent(t)
  BY <1>1, <1>2 DEF Consistent
<1>4. Written(s) => Written(t)
  BY <1>1 DEF Written
<1>5. \A held : Memory(s, held) => Memory(t, held)
  BY <1>1, SameMemory
<1>6. \A bs : CanAlloc(s, bs) => CanAlloc(t, bs)
  BY <1>1, SameMemory
<1>7. \A cs : Candidates(s, cs) => Candidates(t, cs)
  BY <1>1, <1>2 DEF Candidates
<1>8. \A saved : DeltasFit(saved, s) => DeltasFit(saved, t)
  BY <1>1 DEF DeltasFit
<1> QED BY <1>1, <1>2, <1>3, <1>4, <1>5, <1>6, <1>7, <1>8 DEF SameButReady

\* An operation that is not in the heaps may count as done.
LEMMA MoreDone ==
  ASSUME NEW heap, NEW D, NEW E, OneOriginal(heap, D),
         \A i \in E \ D : ~\E e \in heap : IsOriginal(e) /\ IsCompute(e.op) /\ e.op = i
  PROVE  OneOriginal(heap, E)
BY DEF OneOriginal

\* PrefetchForDMA keeps the invariant: the DMAs scheduled count as done from now on.
LEMMA PrefetchForDMAKeeps ==
  ASSUME IInv, PrefetchForDMA
  PROVE  IInv'
<1>1. /\ pc = "dma" /\ call.todo = <<>> /\ StartPrefetch(m') /\ pc' = "prefetchDMA" /\ UNCHANGED tables
      /\ \E dma \in {{i \in call.placed : ~IsCompute(i)}} : Unlock(m, dma)
      /\ computeOrder' = computeOrder /\ endHeap' = endHeap /\ users' = users /\ outputOps' = outputOps
      /\ prefetchSpill' = prefetchSpill /\ candidates' = candidates
  BY DEF PrefetchForDMA
<1>2. InCall /\ ~Trying' /\ ~Trying
  BY <1>1 DEF InCall, Trying
<1>3. /\ ProgramOK /\ DataOpsOK /\ opLevel \in [Ops -> Nat] /\ CallOK /\ m \in States /\ ReadyOK(m)
      /\ readyDMA \in SUBSET OtherDMAs
  BY <1>2, InvFacts
<1>4. PICK D \in SUBSET Ops : DoneInv(D)
  BY DEF IInv
<1>5. ToCome = {}
  BY <1>1, <1>2, NothingToCome
<1>6. Settled(m, call.bufs, D)
  BY <1>2, <1>4, <1>5, SettledNow
<1>7. DoneCore(m, readyDMA, inDegree, D) /\ CallFollows(D)
  BY <1>1, <1>4 DEF DoneInv
<1>8. PICK done : done = {i \in call.placed : ~IsCompute(i)}
  OBVIOUS
<1>9. /\ done \in SUBSET Ops /\ done \cap D = {} /\ done \cap isDataOp = {} /\ done \cap readyDMA = {}
      /\ \A i \in done : IsScheduled(m, i)
  <2>1. call.placed \subseteq Ops
    BY <1>3 DEF CallOK
  <2>2. \A i \in done : ScheduledDMA(i, D)
    BY <1>7, <1>8 DEF CallFollows
  <2> QED BY <1>8, <2>1, <2>2 DEF ScheduledDMA
<1>10. Unlock(m, done)
  BY <1>1, <1>8
<1>11. PICK ready : ready = Unlocked(inDegree, done)
  OBVIOUS
<1>12. PICK others : others = ReadyWith(Reduced(inDegree, done), ready)
  OBVIOUS
<1>13. /\ m' = AddReady(m, ready, others)
       /\ readyDMA' = readyDMA \cup {i \in others : ~IsCompute(i)}
       /\ inDegree' = Reduced(Reduced(inDegree, done), ready \cap isDataOp)
       /\ failed' \in BOOLEAN
  BY <1>10, <1>11, <1>12 DEF Unlock
<1>14. PICK t : t = m'
  OBVIOUS
<1>15. /\ UnlockedWith(m, t, readyDMA', inDegree', D, done)
       /\ ReadyAdded(m, t, ready, others) /\ ReadyOK(t) /\ readyDMA' \in SUBSET OtherDMAs
  <2>1. Unlocks(m, readyDMA, inDegree, done, ready, others, t, readyDMA', inDegree')
    BY <1>11, <1>12, <1>13, <1>14 DEF Unlocks
  <2>2. MayUnlock(m, readyDMA, inDegree, D, done)
    BY <1>3, <1>7, <1>9 DEF MayUnlock
  <2> QED BY <1>3, <2>1, <2>2, OthersUnlocked
<1>16. PICK E \in SUBSET Ops :
         /\ D \cup done \subseteq E /\ E \ (D \cup done) \subseteq isDataOp
         /\ DoneCore(t, readyDMA', inDegree', E)
  BY <1>15 DEF UnlockedWith
<1>17. SameButReady(m, t)
  BY <1>15, ReadyAddedKeeps
<1>18. OneOriginal(t.beginHeap \cup endHeap, E)
  <2>1. \A i \in E \ D : ~IsCompute(i)
    BY <1>3, <1>8, <1>16, DataOpsAreDMAs
  <2>2. OneOriginal(m.beginHeap \cup endHeap, D) /\ t.beginHeap = m.beginHeap
    BY <1>6, <1>17 DEF Settled, SameButReady
  <2>3. OneOriginal(m.beginHeap \cup endHeap, E)
    BY <2>1, <2>2, MoreDone
  <2> QED BY <2>2, <2>3
<1>19. Settled(t, call.bufs, E)
  <2>1. /\ Consistent(m) /\ Written(m) /\ Memory(m, m.alive \ call.bufs)
        /\ \A e \in endHeap : IsOriginal(e) => IsScheduled(m, e.op)
        /\ \A e \in m.beginHeap : e.type # "write"
        /\ Candidates(m, candidates)
        /\ CanAlloc(m, call.bufs)
        /\ call.bufs \in SUBSET Buffers /\ call.bufs \subseteq m.alive
    BY <1>6 DEF Settled
  <2>2. Memory(t, m.alive \ call.bufs) /\ t.alive = m.alive
    BY <1>17, <2>1 DEF SameButReady
  <2>3. Memory(t, t.alive \ call.bufs)
    BY <2>2
  <2>4. \A e \in t.beginHeap : e.type # "write"
    BY <1>17, <2>1 DEF SameButReady
  <2>5. \A e \in endHeap : IsOriginal(e) => IsScheduled(t, e.op)
    BY <1>17, <2>1 DEF SameButReady
  <2>6. Consistent(t) /\ Written(t) /\ Candidates(t, candidates) /\ CanAlloc(t, call.bufs)
        /\ \A saved : DeltasFit(saved, m) => DeltasFit(saved, t)
    BY <1>17, <2>1 DEF SameButReady
  <2> QED BY <1>15, <1>18, <2>3, <2>4, <2>5, <2>6, <2>1, <2>2 DEF Settled
<1>20. Settled(m', call.bufs, E) /\ DoneCore(m', readyDMA', inDegree', E)
  BY <1>14, <1>16, <1>19
<1>21. PICK alive : \E todo \in Seq(CandidateOps) :
         call' = CallRec(todo, call.placed, call.bufs, alive, call.fragmented, call.saved)
  <2>1. t \in States /\ StartPrefetch(t)
    BY <1>1, <1>14, <1>15 DEF ReadyOK
  <2> QED BY <1>3, <2>1, PrefetchStarted
<1>22. PICK todo \in Seq(CandidateOps) :
         call' = CallRec(todo, call.placed, call.bufs, alive, call.fragmented, call.saved)
  BY <1>21
<1>23. call.fragmented \in SUBSET Buffers
  BY <1>3 DEF CallOK
<1>24. users' \in [Buffers -> SUBSET Ops] /\ outputOps' \subseteq Ops
  BY <1>1 DEF IInv, TypeInv
<1>25. pc' \in {"prefetch", "prefetchDMA"}
  BY <1>1
<1> QED BY <1>1, <1>2, <1>13, <1>15, <1>20, <1>22, <1>23, <1>24, <1>25, PrefetchStep

\* Only what is alive and scheduled decides what an operation needs.
LEMMA SameNeeds ==
  ASSUME NEW s, NEW t, t.alive = s.alive, t.opEnd = s.opEnd
  PROVE  \A i : BuffersFor(t, i) = BuffersFor(s, i)
BY DEF BuffersFor, NonAlive, NeededDeps, IsScheduled

\* SelectComputeOps begins a call.
LEMMA CallStarted ==
  ASSUME IInv, SelectComputeOps
  PROVE  \E chosen : Started(chosen)
<1>1. ProgramOK /\ ReadyOK(m) /\ OrderOK(computeOrder)
  BY InvFacts
<1>2. PICK chosen : chosen = SelectMore(StartableOps(FALSE), StartableOps(TRUE),
                                        Select(StartableOps(FALSE), [ops |-> <<>>, bufs |-> {}]))
  OBVIOUS
<1>3. Selected(chosen, m.readyCompute, {})
  BY <1>1, <1>2, ComputeOpsSelected
<1>4. /\ call' = [NoCall EXCEPT !.todo = chosen.ops, !.bufs = chosen.bufs, !.saved = m]
      /\ pc' = IF chosen.ops = <<>> THEN "selectDMA" ELSE "compute"
  BY <1>2 DEF SelectComputeOps
<1>5. call' = CallRec(chosen.ops, {}, chosen.bufs, 0, {}, m)
  BY <1>4 DEF NoCall, CallRec
<1> QED BY <1>3, <1>4, <1>5 DEF Started

\* SelectComputeOps keeps the invariant.
LEMMA SelectComputeOpsKeeps ==
  ASSUME IInv, SelectComputeOps
  PROVE  IInv'
<1>1. /\ pc = "select" /\ m' = ResetDeltas(m) /\ UNCHANGED tables
      /\ prefetchSpill' = NoCandidate /\ readyDMA' = readyDMA /\ inDegree' = inDegree
      /\ computeOrder' = computeOrder /\ endHeap' = endHeap /\ users' = users /\ outputOps' = outputOps
      /\ candidates' = candidates /\ failed' \in BOOLEAN
  BY DEF SelectComputeOps
<1>2. ~InCall
  BY <1>1 DEF InCall
<1>3. /\ ProgramOK /\ DataOpsOK /\ OrderOK(computeOrder) /\ ReadyOK(m) /\ m \in States /\ Consistent(m)
      /\ Written(m) /\ Memory(m, Held) /\ readyDMA \in SUBSET OtherDMAs /\ endHeap \in Heaps
  BY InvFacts
<1>4. Memory(m, m.alive) /\ m.beginHeap = {} /\ m.readyCompute \in SUBSET Ops
  BY <1>1, <1>2, <1>3 DEF Held, IInv, WritesInv, ReadyOK
<1>5. PICK chosen : Started(chosen)
  BY CallStarted
<1>6. PICK todo : todo = chosen.ops
  OBVIOUS
<1>7. PICK bufs : bufs = chosen.bufs
  OBVIOUS
<1>8. /\ todo \in Seq(m.readyCompute) /\ Distinct(todo) /\ bufs \in SUBSET Buffers /\ CanAlloc(m, bufs)
      /\ bufs = Coming(m, todo)
  BY <1>5, <1>6, <1>7 DEF Started, Selected, Coming
<1>9. call' = CallRec(todo, {}, bufs, 0, {}, m) /\ (pc' = IF todo = <<>> THEN "selectDMA" ELSE "compute")
  BY <1>5, <1>6, <1>7 DEF Started
<1>10. /\ call'.todo = todo /\ call'.placed = {} /\ call'.bufs = bufs /\ call'.saved = m
       /\ call'.fragmented = {}
  BY <1>9 DEF CallRec
<1>11. InCall' /\ (Trying' <=> pc' = "compute") /\ (Scheduling' <=> pc' = "compute")
       /\ pc' \in {"selectDMA", "compute"}
  BY <1>9 DEF InCall, Trying, Scheduling
<1>12. PICK t : t = m'
  OBVIOUS
<1>13. DeltasReset(m, t)
  BY <1>1, <1>3, <1>12, DeltasAreReset
<1>14. /\ t \in States
       /\ t.gaps = m.gaps /\ t.addr = m.addr /\ t.alive = m.alive /\ t.spilled = m.spilled
       /\ t.beginHeap = m.beginHeap
       /\ t.readyCompute = m.readyCompute /\ t.readyData = m.readyData
       /\ t.producer = m.producer /\ t.opEnd = m.opEnd
       /\ DeltasFit(m, t)
  BY <1>13 DEF DeltasReset
<1>15. \A j : IsScheduled(t, j) <=> IsScheduled(m, j)
  BY <1>14 DEF IsScheduled
<1>16. PICK D \in SUBSET Ops : DoneInv(D)
  BY DEF IInv
<1>17. DoneCore(m, readyDMA, inDegree, D) /\ OneOriginal(m.beginHeap \cup endHeap, D)
  BY <1>16 DEF DoneInv
<1>18. ReadyFollow(m, readyDMA, D)
  BY <1>17 DEF DoneCore
<1>19. /\ ReadyOK(m') /\ Consistent(m') /\ Written(m') /\ Memory(m', m.alive) /\ CanAlloc(m', bufs)
       /\ DoneCore(m', readyDMA, inDegree, D) /\ Candidates(m', candidates)
       /\ OneOriginal(m'.beginHeap \cup endHeap, D)
  <2>1. ReadyOK(t)
    BY <1>3, <1>14 DEF ReadyOK
  <2>2. Consistent(t)
    BY <1>3, <1>14, <1>15 DEF Consistent
  <2>3. Written(t)
    BY <1>3, <1>14 DEF Written
  <2>4. Memory(t, m.alive) /\ CanAlloc(t, bufs)
    BY <1>4, <1>8, <1>14, SameMemory
  <2>5. DoneCore(t, readyDMA, inDegree, D)
    BY <1>14, <1>15, <1>17 DEF DoneCore, ReadyFollow
  <2>6. Candidates(t, candidates)
    BY <1>14, <1>15 DEF IInv, CandidatesInv, Candidates
  <2>7. OneOriginal(t.beginHeap \cup endHeap, D)
    BY <1>14, <1>17
  <2> QED BY <1>12, <2>3, <2>4, <2>5, <2>6, <2>7, <2>1, <2>2
<1>20. bufs \cap m.alive = {}
  <2>1. \A k \in DOMAIN todo : todo[k] \in Ops
    BY <1>4, <1>8
  <2>2. \A k \in DOMAIN todo : BuffersFor(m, todo[k]) \cap m.alive = {}
    BY <1>3, <2>1, BuffersForTyped
  <2> QED BY <1>8, <2>2 DEF Coming
<1>21. TablesInv'
  BY <1>1, <1>3, TablesStay DEF IInv
<1>22. TypeInv'
  <2>1. CallOK'
    <3>1. todo \in Seq(Ops)
      BY <1>4, <1>8, SeqWidens
    <3>2. call'.bufs \subseteq Buffers' /\ call'.fragmented \subseteq Buffers' /\ call'.placed \subseteq Ops'
          /\ call'.todo \in Seq(Ops)'
      BY <1>1, <1>8, <1>10, <3>1, ProgramKept
    <3>3. call' = [todo |-> call'.todo, placed |-> call'.placed, bufs |-> call'.bufs, alive |-> call'.alive,
                   fragmented |-> call'.fragmented, saved |-> call'.saved]
      BY <1>9 DEF CallRec
    <3>4. \A i \in call'.placed : IsCompute(i)'
      BY <1>10
    <3> QED BY <1>11, <3>2, <3>3, <3>4 DEF CallOK
  <2>2. ReadyOK(m)'
    BY <1>1, <1>19, FormulasKept
  <2> QED BY <1>1, <1>11, <2>1, <2>2, ProgramKept DEF IInv, TypeInv
<1>23. (\E E \in SUBSET Ops : DoneInv(E))'
  <2>1. DoneInv(D)'
    <3>1. DoneCore(m, readyDMA, inDegree, D)'
      BY <1>1, <1>19, FormulasKept
    <3>2. OneOriginal(m.beginHeap \cup endHeap, D)'
      BY <1>1, <1>19, FormulasKept
    <3>3. ReadyFollow(call.saved, readyDMA, D)'
      BY <1>1, <1>10, <1>18, FormulasKept
    <3> QED BY <1>11, <3>1, <3>2, <3>3 DEF DoneInv
  <2> QED BY <1>1, <2>1, ProgramKept
<1>24. RunningInv'
  <2>1. \A e \in endHeap : IsOriginal(e) => IsScheduled(m, e.op) /\ IsScheduled(m', e.op)
    BY <1>12, <1>15 DEF IInv, RunningInv
  <2> QED BY <1>1, <1>10, <2>1 DEF RunningInv, IsScheduled, IsOriginal
<1>25. CandidatesInv'
  <2>1. Candidates(m, candidates)' /\ Candidates(call.saved, candidates)'
    BY <1>1, <1>10, <1>19, FormulasKept DEF IInv, CandidatesInv
  <2> QED BY <1>1, <1>11, <2>1, ProgramKept DEF IInv, CandidatesInv, NoCandidate
<1>26. WritesInv'
  BY <1>4, <1>11, <1>12, <1>14 DEF WritesInv
<1>27. StateInv'
  <2>1. Held' = m'.alive \ bufs
    BY <1>10, <1>11 DEF Held
  <2>2. Held' = m.alive
    BY <1>12, <1>14, <1>20, <2>1
  <2>3. Memory(m, Held)'
    BY <1>1, <1>19, <2>2, FormulasKept
  <2> QED BY <1>1, <1>19, <2>3, FormulasKept DEF StateInv
<1>28. CallInv'
  <2>1. ToCome' = bufs
    <3>1. \A i : BuffersFor(t, i) = BuffersFor(m, i)
      BY <1>14, SameNeeds
    <3>2. Coming(m', todo) = bufs
      BY <1>8, <1>12, <3>1 DEF Coming
    <3>3. \A k : BuffersFor(m, call.todo[k])' = BuffersFor(m', todo[k])
      BY <1>1, <1>10, FormulasKept
    <3>4. CASE pc' = "compute"
      BY <1>10, <1>11, <3>2, <3>3, <3>4 DEF ToCome, Coming
    <3>5. CASE pc' # "compute"
      <4>1. todo = <<>>
        BY <1>9, <3>5
      <4>2. bufs = {}
        BY <1>8, <4>1 DEF Coming
      <4> QED BY <1>11, <3>5, <4>2 DEF ToCome
    <3> QED BY <3>4, <3>5
  <2>2. CanAlloc(m, call.bufs)'
    BY <1>1, <1>10, <1>19, FormulasKept
  <2>3. \A k \in DOMAIN todo : todo[k] \in m'.readyCompute
    BY <1>8, <1>12, <1>14
  <2> QED BY <1>8, <1>10, <2>1, <2>2, <2>3 DEF CallInv, Distinct
<1>29. SavedInv'
  <2>2. ReadyOK(call.saved)' /\ Consistent(call.saved)' /\ Written(call.saved)' /\ Memory(call.saved, call.saved.alive)'
    BY <1>1, <1>3, <1>4, <1>10, FormulasKept
  <2>3. DeltasFit(call.saved, m)'
    <3>1. DeltasFit(m, m')
      BY <1>12, <1>14
    <3> QED BY <1>10, <3>1 DEF DeltasFit, MapFits
  <2> QED BY <1>4, <1>10, <2>2, <2>3 DEF SavedInv
<1> QED BY <1>21, <1>22, <1>23, <1>24, <1>25, <1>26, <1>27, <1>28, <1>29 DEF IInv

\* Taking the operations placed off the compute order leaves it typed.
LEMMA OrderShortened ==
  ASSUME OrderOK(computeOrder), NEW placed,
         NEW order, order = [q \in ComputeQueues |->
           IF computeOrder[q] # <<>> /\ Head(computeOrder[q]) \in placed
           THEN Tail(computeOrder[q]) ELSE computeOrder[q]]
  PROVE  OrderOK(order)
<1>1. \A q \in ComputeQueues : computeOrder[q] \in Seq(Ops)
                               /\ \A k \in DOMAIN computeOrder[q] : prog.queue[computeOrder[q][k]] = q
  BY DEF OrderOK
<1> SUFFICES ASSUME NEW q \in ComputeQueues
             PROVE  order[q] \in Seq(Ops) /\ \A k \in DOMAIN order[q] : prog.queue[order[q][k]] = q
  BY DEF OrderOK
<1>2. CASE computeOrder[q] # <<>> /\ Head(computeOrder[q]) \in placed
  <2>1. PICK w \in Seq(Ops) : w = computeOrder[q]
    BY <1>1
  <2>2. order[q] = Tail(w)
    BY <1>2, <2>1
  <2>3. w # <<>> /\ \A k \in DOMAIN w : prog.queue[w[k]] = q
    BY <1>1, <1>2, <2>1
  <2>4. Tail(w) \in Seq(Ops) /\ \A k \in DOMAIN Tail(w) : k + 1 \in DOMAIN w /\ Tail(w)[k] = w[k + 1]
    BY <2>1, <2>3, HeadAndTail
  <2>5. PICK u : u = Tail(w)
    OBVIOUS
  <2>6. u \in Seq(Ops) /\ \A k \in DOMAIN u : prog.queue[u[k]] = q
    BY <2>3, <2>4, <2>5
  <2>7. order[q] = u
    BY <2>2, <2>5
  <2> QED BY <2>6, <2>7
<1>3. CASE ~(computeOrder[q] # <<>> /\ Head(computeOrder[q]) \in placed)
  BY <1>1, <1>3
<1> QED BY <1>2, <1>3

\* The operations just scheduled are given up for an eviction.
LEMMA GiveUpKeeps ==
  ASSUME IInv, EndPrefetch, NEW victim,
         victim = IF call.fragmented = {} THEN NoCandidate
                  ELSE ChooseForPrefetch(RestoreState(call.saved, m), endHeap, call.fragmented),
         GiveUpPrefetch(RestoreState(call.saved, m), victim)
  PROVE  IInv'
<1>1. /\ pc = "prefetch" /\ UNCHANGED tables /\ readyDMA' = readyDMA /\ inDegree' = inDegree
      /\ endHeap' = endHeap /\ users' = users /\ outputOps' = outputOps /\ candidates' = candidates
      /\ failed' = failed
  BY DEF EndPrefetch
<1>2. /\ victim # NoCandidate /\ m' = RestoreState(call.saved, m) /\ prefetchSpill' = victim /\ pc' = "evict"
      /\ computeOrder' = computeOrder
  BY DEF GiveUpPrefetch
<1>3. InCall /\ Trying /\ ~InCall' /\ ~Trying' /\ pc' # "dma" /\ pc' # "select"
  BY <1>1, <1>2 DEF InCall, Trying
<1>4. /\ ProgramOK /\ DataOpsOK /\ OrderOK(computeOrder) /\ m \in States
      /\ readyDMA \in SUBSET OtherDMAs /\ endHeap \in Heaps
  BY InvFacts
<1>5. PICK saved : saved = call.saved
  OBVIOUS
<1>6. /\ ReadyOK(saved) /\ Consistent(saved) /\ Written(saved) /\ Memory(saved, saved.alive)
      /\ saved.beginHeap = {} /\ DeltasFit(saved, m)
  BY <1>3, <1>5 DEF IInv, SavedInv
<1>7. PICK t : t = m'
  OBVIOUS
<1>8. RolledBack(saved, t)
  BY <1>2, <1>4, <1>5, <1>6, <1>7, StateRestored DEF ReadyOK
<1>9. /\ t \in States
      /\ t.gaps = saved.gaps /\ t.addr = saved.addr /\ t.alive = saved.alive /\ t.spilled = saved.spilled
      /\ t.beginHeap = saved.beginHeap
      /\ t.readyCompute = saved.readyCompute /\ t.readyData = saved.readyData
      /\ t.producer = saved.producer /\ t.opEnd = saved.opEnd
  BY <1>8 DEF RolledBack
<1>10. \A j : IsScheduled(t, j) <=> IsScheduled(saved, j)
  BY <1>9 DEF IsScheduled
<1>11. PICK D \in SUBSET Ops : DoneInv(D)
  BY DEF IInv
<1>12. /\ DoneCore(m, readyDMA, inDegree, D) /\ ReadyFollow(saved, readyDMA, D)
       /\ OneOriginal(m.beginHeap \cup endHeap, D)
  BY <1>3, <1>5, <1>11 DEF DoneInv
<1>13. ReadyOK(t)
  BY <1>6, <1>9 DEF ReadyOK
<1>14. Consistent(t) /\ Written(t)
  BY <1>6, <1>9, <1>10 DEF Consistent, Written
<1>15. Memory(t, t.alive)
  BY <1>6, <1>9, SameMemory
<1>16. DoneCore(t, readyDMA, inDegree, D)
  <2>1. ReadyFollow(t, readyDMA, D)
    BY <1>9, <1>10, <1>12 DEF ReadyFollow
  <2> QED BY <1>12, <2>1 DEF DoneCore
<1>17. OneOriginal(t.beginHeap \cup endHeap, D)
  BY <1>6, <1>9, <1>12 DEF OneOriginal
<1>18. Candidates(t, candidates)
  <2>1. Candidates(saved, candidates)
    BY <1>3, <1>5 DEF IInv, CandidatesInv
  <2> QED BY <1>9, <1>10, <2>1 DEF Candidates
<1>19. Candidates(t, {victim})
  <2>1. victim = ChooseForPrefetch(t, endHeap, call.fragmented)
    BY <1>2, <1>7
  <2> QED BY <1>2, <1>4, <1>9, <1>14, <2>1, PrefetchVictim
<1>20. /\ ReadyOK(m') /\ Consistent(m') /\ Written(m') /\ Memory(m', m'.alive)
       /\ DoneCore(m', readyDMA, inDegree, D)
       /\ OneOriginal(m'.beginHeap \cup endHeap, D)
       /\ Candidates(m', candidates) /\ Candidates(m', {victim}) /\ m'.beginHeap = {}
  BY <1>6, <1>7, <1>9, <1>13, <1>14, <1>15, <1>16, <1>17, <1>18, <1>19
<1>21. TablesInv'
  BY <1>1, <1>2, <1>4, TablesStay DEF IInv
<1>22. TypeInv'
  <2>2. ReadyOK(m)'
    BY <1>1, <1>20, FormulasKept
  <2> QED BY <1>1, <1>2, <1>3, <2>2, ProgramKept DEF IInv, TypeInv
<1>23. (\E E \in SUBSET Ops : DoneInv(E))'
  <2>1. DoneInv(D)'
    <3>1. DoneCore(m, readyDMA, inDegree, D)'
      BY <1>1, <1>20, FormulasKept
    <3>2. OneOriginal(m.beginHeap \cup endHeap, D)'
      BY <1>1, <1>20, FormulasKept
    <3> QED BY <1>3, <3>1, <3>2 DEF DoneInv
  <2> QED BY <1>1, <2>1, ProgramKept
<1>24. RunningInv'
  <2>1. \A e \in endHeap : IsOriginal(e) => IsScheduled(m', e.op)
    BY <1>3, <1>5, <1>7, <1>10 DEF IInv, RunningInv
  <2> QED BY <1>1, <1>3, <2>1 DEF RunningInv, IsScheduled, IsOriginal
<1>25. CandidatesInv'
  <2>1. Candidates(m, candidates)' /\ Candidates(m, {prefetchSpill})'
    BY <1>1, <1>2, <1>20, FormulasKept
  <2> QED BY <1>1, <1>3, <2>1, ProgramKept DEF IInv, CandidatesInv
<1>26. WritesInv'
  BY <1>3, <1>20 DEF WritesInv
<1>27. StateInv'
  <2>1. Held' = m'.alive
    BY <1>3 DEF Held
  <2>2. Memory(m, Held)'
    BY <1>1, <1>20, <2>1, FormulasKept
  <2> QED BY <1>1, <1>20, <2>2, FormulasKept DEF StateInv
<1>28. CallInv' /\ SavedInv'
  BY <1>3 DEF CallInv, SavedInv
<1> QED BY <1>21, <1>22, <1>23, <1>24, <1>25, <1>26, <1>27, <1>28 DEF IInv

\* The operations just scheduled are kept.
LEMMA KeepKeeps ==
  ASSUME IInv, EndPrefetch, NEW victim, KeepComputeOps(victim)
  PROVE  IInv'
<1>1. /\ pc = "prefetch" /\ UNCHANGED tables /\ readyDMA' = readyDMA /\ inDegree' = inDegree
      /\ endHeap' = endHeap /\ users' = users /\ outputOps' = outputOps /\ candidates' = candidates
      /\ failed' = failed /\ call' = call
  BY DEF EndPrefetch
<1>2. /\ m' = [m EXCEPT !.alive = @ \cup call.bufs] /\ prefetchSpill' = prefetchSpill /\ pc' = "selectDMA"
      /\ computeOrder' = [q \in ComputeQueues |->
           IF computeOrder[q] # <<>> /\ Head(computeOrder[q]) \in call.placed
           THEN Tail(computeOrder[q]) ELSE computeOrder[q]]
  BY DEF KeepComputeOps
<1>3. InCall /\ Trying /\ ~Scheduling /\ InCall' /\ ~Trying' /\ ~Scheduling'
  BY <1>1, <1>2 DEF InCall, Trying, Scheduling
<1>4. /\ OrderOK(computeOrder) /\ ReadyOK(m) /\ m \in States /\ Consistent(m) /\ Written(m)
      /\ Memory(m, Held) /\ CallOK
  BY <1>3, InvFacts
<1>5. ToCome = {} /\ ToCome' = {}
  BY <1>3 DEF ToCome
<1>6. call.bufs \subseteq m.alive /\ CanAlloc(m, call.bufs)
  BY <1>3, <1>5 DEF IInv, CallInv
<1>7. m' = m
  <2>1. PICK t : t = m'
    OBVIOUS
  <2>2. t = m
    BY <1>2, <1>4, <1>6, <2>1, NothingAllocated
  <2> QED BY <2>1, <2>2
<1>8. OrderOK(computeOrder')
  BY <1>2, <1>4, OrderShortened
<1>9. PICK D \in SUBSET Ops : DoneInv(D)
  BY DEF IInv
<1>21. TablesInv'
  BY <1>1, <1>8, TablesStay DEF IInv
<1>22. TypeInv'
  <2>1. CallOK'
    BY <1>1, <1>2, <1>3, <1>4, ProgramKept DEF CallOK
  <2>2. ReadyOK(m)'
    BY <1>1, <1>4, <1>7, FormulasKept
  <2> QED BY <1>1, <1>2, <2>1, <2>2, ProgramKept DEF IInv, TypeInv
<1>23. (\E E \in SUBSET Ops : DoneInv(E))'
  <2>1. DoneInv(D)'
    <3>1. DoneCore(m, readyDMA, inDegree, D)'
      BY <1>1, <1>7, <1>9, FormulasKept DEF DoneInv
    <3>2. OneOriginal(m.beginHeap \cup endHeap, D)'
      BY <1>1, <1>7, <1>9, FormulasKept DEF DoneInv
    <3> QED BY <1>2, <1>3, <3>1, <3>2 DEF DoneInv
  <2> QED BY <1>1, <2>1, ProgramKept
<1>24. RunningInv'
  BY <1>1, <1>3, <1>7 DEF IInv, RunningInv, IsScheduled, IsOriginal
<1>25. CandidatesInv'
  <2>1. Candidates(m, candidates)'
    BY <1>1, <1>7, FormulasKept DEF IInv, CandidatesInv
  <2> QED BY <1>1, <1>2, <1>3, <2>1, ProgramKept DEF IInv, CandidatesInv
<1>26. WritesInv'
  BY <1>1, <1>2, <1>7 DEF IInv, WritesInv
<1>27. StateInv'
  <2>1. Held' = Held
    BY <1>1, <1>3, <1>7 DEF Held
  <2>2. Memory(m, Held)'
    BY <1>1, <1>4, <1>7, <2>1, FormulasKept
  <2> QED BY <1>1, <1>4, <1>7, <2>2, FormulasKept DEF StateInv
<1>28. CallInv'
  <2>1. CanAlloc(m, call.bufs)'
    BY <1>1, <1>6, <1>7, FormulasKept
  <2> QED BY <1>1, <1>2, <1>5, <1>6, <1>7, <2>1 DEF CallInv
<1>29. SavedInv'
  BY <1>3 DEF SavedInv
<1> QED BY <1>21, <1>22, <1>23, <1>24, <1>25, <1>26, <1>27, <1>28, <1>29 DEF IInv

\* EndPrefetch keeps the invariant, whether it gives up or not.
LEMMA EndPrefetchKeeps ==
  ASSUME IInv, EndPrefetch
  PROVE  IInv'
<1>1. PICK victim :
        /\ victim = IF call.fragmented = {} THEN NoCandidate
                    ELSE ChooseForPrefetch(RestoreState(call.saved, m), endHeap, call.fragmented)
        /\ GiveUpPrefetch(RestoreState(call.saved, m), victim) \/ KeepComputeOps(victim)
  BY DEF EndPrefetch
<1> QED BY <1>1, GiveUpKeeps, KeepKeeps

\* The DMA operations chosen wait for nothing that is not done.
LEMMA ChosenDMAsWait ==
  ASSUME readyDMA \in SUBSET OtherDMAs, NEW s, NEW degree, NEW D, DoneCore(s, readyDMA, degree, D),
         NEW i \in readyDMA
  PROVE  WaitingDMA(i, D)
BY DEF OtherDMAs, DoneCore, ReadyFollow, WaitingDMA

\* SelectDMAOps keeps the invariant.
LEMMA SelectDMAOpsKeeps ==
  ASSUME IInv, SelectDMAOps
  PROVE  IInv'
<1>1. /\ pc = "selectDMA" /\ UNCHANGED tables /\ m' = m
      /\ prefetchSpill' = prefetchSpill /\ readyDMA' = readyDMA /\ inDegree' = inDegree
      /\ computeOrder' = computeOrder /\ endHeap' = endHeap /\ users' = users /\ outputOps' = outputOps
      /\ candidates' = candidates /\ failed' \in BOOLEAN
  BY DEF SelectDMAOps
<1>2. InCall /\ ~Scheduling
  BY <1>1 DEF InCall, Scheduling
<1>3. /\ ProgramOK /\ DataOpsOK /\ OrderOK(computeOrder) /\ ReadyOK(m) /\ m \in States /\ Consistent(m)
      /\ Written(m) /\ Memory(m, Held) /\ readyDMA \in SUBSET OtherDMAs /\ endHeap \in Heaps /\ CallOK
  BY <1>2, InvFacts
<1>4. ToCome = {}
  BY <1>2 DEF ToCome
<1>5. call.bufs \subseteq m.alive /\ CanAlloc(m, call.bufs) /\ call.bufs \in SUBSET Buffers
  BY <1>2, <1>3, <1>4 DEF IInv, CallInv, CallOK
<1>6. PICK chosen : /\ chosen = Select(Ascending(readyDMA), [ops |-> <<>>, bufs |-> call.bufs])
                    /\ call' = [call EXCEPT !.todo = chosen.ops, !.bufs = chosen.bufs]
                    /\ pc' = IF chosen.ops = <<>> THEN "allocate" ELSE "dma"
  BY DEF SelectDMAOps
<1>7. readyDMA \in SUBSET Ops
  BY <1>3 DEF OtherDMAs
<1>8. Selected(chosen, readyDMA, call.bufs)
  BY <1>3, <1>5, <1>6, <1>7, DMAsSelected
<1>9. PICK todo : todo = chosen.ops
  OBVIOUS
<1>10. PICK bufs : bufs = chosen.bufs
  OBVIOUS
<1>11. /\ todo \in Seq(readyDMA) /\ bufs \in SUBSET Buffers /\ CanAlloc(m, bufs)
       /\ bufs = call.bufs \cup Coming(m, todo)
  BY <1>8, <1>9, <1>10 DEF Selected, Coming
<1>12. pc' = IF todo = <<>> THEN "allocate" ELSE "dma"
  BY <1>6, <1>9
<1>13. call' = CallRec(todo, call.placed, bufs, call.alive, call.fragmented, call.saved)
  <2> DEFINE r == CallRec(call.todo, call.placed, call.bufs, call.alive, call.fragmented, call.saved)
  <2>1. call = r
    BY <1>3, CallIsRecord
  <2>2. call' = [r EXCEPT !.todo = todo, !.bufs = bufs]
    BY <1>6, <1>9, <1>10, <2>1
  <2> QED BY <2>2 DEF CallRec
<1>14. /\ call'.todo = todo /\ call'.placed = call.placed /\ call'.bufs = bufs
       /\ call'.fragmented = call.fragmented
  BY <1>13 DEF CallRec
<1>15. InCall' /\ ~Trying' /\ (Scheduling' <=> pc' = "dma") /\ pc' \in {"allocate", "dma"}
  BY <1>12 DEF InCall, Trying, Scheduling
<1>16. PICK D \in SUBSET Ops : DoneInv(D)
  BY DEF IInv
<1>17. DoneCore(m, readyDMA, inDegree, D) /\ OneOriginal(m.beginHeap \cup endHeap, D)
  BY <1>16 DEF DoneInv
<1>18. Coming(m, todo) \cap m.alive = {}
  <2>1. \A k \in DOMAIN todo : todo[k] \in Ops
    BY <1>7, <1>11
  <2>2. \A k \in DOMAIN todo : BuffersFor(m, todo[k]) \cap m.alive = {}
    BY <1>3, <2>1, BuffersForTyped
  <2> QED BY <2>2 DEF Coming
<1>21. TablesInv'
  BY <1>1, <1>3, TablesStay DEF IInv
<1>22. TypeInv'
  <2>1. CallOK'
    <3>1. todo \in Seq(Ops)
      BY <1>7, <1>11, SeqWidens
    <3>2. call'.bufs \subseteq Buffers' /\ call'.fragmented \subseteq Buffers' /\ call'.placed \subseteq Ops'
          /\ call'.todo \in Seq(Ops)'
      BY <1>1, <1>3, <1>11, <1>14, <3>1, ProgramKept DEF CallOK
    <3>3. call' = [todo |-> call'.todo, placed |-> call'.placed, bufs |-> call'.bufs, alive |-> call'.alive,
                   fragmented |-> call'.fragmented, saved |-> call'.saved]
      BY <1>13 DEF CallRec
    <3> QED BY <1>15, <3>2, <3>3 DEF CallOK
  <2>2. ReadyOK(m)'
    BY <1>1, <1>3, FormulasKept
  <2> QED BY <1>1, <1>15, <2>1, <2>2, ProgramKept DEF IInv, TypeInv
<1>23. (\E E \in SUBSET Ops : DoneInv(E))'
  <2>1. DoneInv(D)'
    <3>1. DoneCore(m, readyDMA, inDegree, D)'
      BY <1>1, <1>17, FormulasKept
    <3>2. OneOriginal(m.beginHeap \cup endHeap, D)'
      BY <1>1, <1>17, FormulasKept
    <3>3. CallFollows(D)'
      <4>1. \A j \in call.placed : IsCompute(j)
        BY <1>1, <1>3 DEF CallOK
      <4>2. \A k \in DOMAIN todo : WaitingDMA(todo[k], D)
        BY <1>3, <1>11, <1>17, ChosenDMAsWait
      <4>3. \A j : WaitingDMA(j, D)' <=> WaitingDMA(j, D)
        BY <1>1, ProgramKept DEF WaitingDMA
      <4>4. \A j \in call'.placed : IsCompute(j)'
        BY <1>1, <1>14, <4>1, ProgramKept
      <4>5. (\A k \in DOMAIN call.todo : WaitingDMA(call.todo[k], D))'
        BY <1>14, <4>2, <4>3
      <4> QED BY <4>4, <4>5 DEF CallFollows
    <3> QED BY <1>15, <3>1, <3>2, <3>3 DEF DoneInv
  <2> QED BY <1>1, <2>1, ProgramKept
<1>24. RunningInv'
  BY <1>1, <1>15 DEF IInv, RunningInv, IsScheduled, IsOriginal
<1>25. CandidatesInv'
  <2>1. Candidates(m, candidates)'
    BY <1>1, FormulasKept DEF IInv, CandidatesInv
  <2> QED BY <1>1, <1>2, <1>15, <2>1, ProgramKept DEF IInv, CandidatesInv
<1>26. WritesInv'
  BY <1>1, <1>15 DEF IInv, WritesInv
<1>27. StateInv'
  <2>1. Held' = m.alive \ bufs
    BY <1>1, <1>14, <1>15 DEF Held
  <2>2. Held' = Held
    BY <1>2, <1>11, <1>18, <2>1 DEF Held
  <2>3. Memory(m, Held)'
    BY <1>1, <1>3, <2>2, FormulasKept
  <2> QED BY <1>1, <1>3, <2>3, FormulasKept DEF StateInv
<1>28. CallInv'
  <2>1. ToCome' = Coming(m, todo)
    <3>3. \A k : BuffersFor(m, call.todo[k])' = BuffersFor(m, todo[k])
      BY <1>1, <1>14, FormulasKept
    <3>4. CASE pc' = "dma"
      BY <1>14, <1>15, <3>3, <3>4 DEF ToCome, Coming
    <3>5. CASE pc' # "dma"
      <4>1. todo = <<>>
        BY <1>12, <3>5
      <4>2. Coming(m, todo) = {}
        BY <4>1 DEF Coming
      <4> QED BY <1>15, <3>5, <4>2 DEF ToCome
    <3> QED BY <3>4, <3>5
  <2>2. CanAlloc(m, call.bufs)'
    BY <1>1, <1>11, <1>14, FormulasKept
  <2> QED BY <1>1, <1>5, <1>11, <1>14, <1>15, <2>1, <2>2 DEF CallInv
<1>29. SavedInv'
  BY <1>15 DEF SavedInv
<1> QED BY <1>21, <1>22, <1>23, <1>24, <1>25, <1>26, <1>27, <1>28, <1>29 DEF IInv

\* A step to a state as in Outside keeps the invariant.
LEMMA OutsideStep ==
  ASSUME IInv, UNCHANGED tables, pc' \in {"loop", "select", "evict", "done", "failed"},
         computeOrder' = computeOrder, users' \in [Buffers -> SUBSET Ops],
         outputOps' \subseteq Ops, failed' \in BOOLEAN, readyDMA' \in SUBSET OtherDMAs,
         NEW D \in SUBSET Ops, DoneCore(m', readyDMA', inDegree', D),
         Outside(m', endHeap', IF pc' = "evict" THEN prefetchSpill' ELSE NoCandidate, candidates', D),
         \A e \in m'.beginHeap : e.type = "write" => pc' \in {"loop", "done"} /\ e.buf \notin m'.alive,
         pc' = "select" => m'.beginHeap = {}
  PROVE  IInv'
<1>1. ~InCall' /\ ~Trying' /\ ~Scheduling' /\ pc' # "dma"
  BY DEF InCall, Trying, Scheduling
<1>2. PICK spills : spills = IF pc' = "evict" THEN prefetchSpill' ELSE NoCandidate
  OBVIOUS
<1>3. Outside(m', endHeap', spills, candidates', D)
  BY <1>2
<1>4. /\ ReadyOK(m') /\ Consistent(m') /\ Written(m') /\ Memory(m', m'.alive)
      /\ OneOriginal(m'.beginHeap \cup endHeap', D)
      /\ endHeap' \in Heaps
      /\ \A e \in endHeap' : IsOriginal(e) => IsScheduled(m', e.op)
      /\ candidates' \subseteq EvictionCandidates /\ IsFiniteSet(candidates') /\ Candidates(m', candidates')
      /\ spills # NoCandidate => Candidates(m', {spills})
  BY <1>3 DEF Outside
<1>5. OrderOK(computeOrder)
  BY InvFacts
<1>21. TablesInv'
  BY <1>5, TablesStay DEF IInv
<1>22. TypeInv'
  <2>1. ReadyOK(m)'
    BY <1>4, FormulasKept
  <2>2. readyDMA' \subseteq {i \in Ops \ isDataOp : ~IsCompute(i)}'
    BY ProgramKept DEF OtherDMAs
  <2>3. endHeap' \in Heaps' /\ users' \in [Buffers -> SUBSET Ops]' /\ outputOps' \subseteq Ops'
    BY <1>4, ProgramKept
  <2> QED BY <1>1, <2>1, <2>2, <2>3 DEF TypeInv
<1>23. (\E E \in SUBSET Ops : DoneInv(E))'
  <2>1. DoneInv(D)'
    <3>1. DoneCore(m, readyDMA, inDegree, D)'
      BY FormulasKept
    <3>2. OneOriginal(m.beginHeap \cup endHeap, D)'
      BY <1>4, FormulasKept
    <3> QED BY <1>1, <3>1, <3>2 DEF DoneInv
  <2> QED BY <2>1, ProgramKept
<1>24. RunningInv'
  BY <1>1, <1>4 DEF RunningInv, IsScheduled, IsOriginal
<1>25. CandidatesInv'
  <2>1. Candidates(m, candidates)'
    BY <1>4, FormulasKept
  <2>2. (pc = "evict" /\ prefetchSpill # NoCandidate => Candidates(m, {prefetchSpill}))'
    <3> SUFFICES ASSUME pc' = "evict", prefetchSpill' # NoCandidate
                 PROVE  Candidates(m, {prefetchSpill})'
      BY DEF NoCandidate, NoBuffer
    <3>1. spills = prefetchSpill'
      BY <1>2
    <3>2. Candidates(m', {prefetchSpill'})
      BY <1>4, <3>1
    <3> QED BY <3>2, FormulasKept
  <2>3. candidates' \subseteq EvictionCandidates' /\ IsFiniteSet(candidates')
    BY <1>4, ProgramKept
  <2>4. InCall' => prefetchSpill' = NoCandidate'
    BY <1>1
  <2> QED BY <1>1, <2>1, <2>2, <2>3, <2>4 DEF CandidatesInv
<1>26. WritesInv'
  BY DEF WritesInv
<1>27. StateInv'
  <2>1. Held' = m'.alive
    BY <1>1 DEF Held
  <2>2. Memory(m, Held)'
    BY <1>4, <2>1, FormulasKept
  <2> QED BY <1>4, <2>2, FormulasKept DEF StateInv
<1>28. CallInv' /\ SavedInv'
  BY <1>1 DEF CallInv, SavedInv
<1> QED BY <1>21, <1>22, <1>23, <1>24, <1>25, <1>26, <1>27, <1>28 DEF IInv

\* The facts of SameFacts follow from SameSchedule.
LEMMA SameScheduleKeeps ==
  ASSUME NEW s, NEW t, SameSchedule(s, t)
  PROVE  SameFacts(s, t)
<1>1. \A j : IsScheduled(s, j) <=> IsScheduled(t, j)
  BY DEF SameSchedule, IsScheduled
<1>2. ReadyOK(s) => ReadyOK(t)
  BY DEF SameSchedule, ReadyOK
<1>3. Consistent(s) => Consistent(t)
  BY <1>1 DEF SameSchedule, Consistent
<1>4. Written(s) => Written(t)
  BY DEF SameSchedule, Written
<1>5. \A dmas, degree, D : DoneCore(s, dmas, degree, D) => DoneCore(t, dmas, degree, D)
  BY <1>1 DEF SameSchedule, DoneCore, ReadyFollow
<1>6. \A cs : Candidates(s, cs) => Candidates(t, cs)
  BY <1>1 DEF SameSchedule, Candidates
<1> QED BY <1>1, <1>2, <1>3, <1>4, <1>5, <1>6 DEF SameFacts

\* AllocateBuffers keeps the invariant: the buffers of the call have memory now.
LEMMA AllocateBuffersKeeps ==
  ASSUME IInv, AllocateBuffers
  PROVE  IInv'
<1>1. /\ pc = "allocate" \/ (pc = "prefetchDMA" /\ call.todo = <<>>)
      /\ UNCHANGED tables /\ pc' = "evict" /\ readyDMA' = readyDMA /\ inDegree' = inDegree
      /\ computeOrder' = computeOrder /\ endHeap' = endHeap /\ users' = users /\ outputOps' = outputOps
      /\ prefetchSpill' = prefetchSpill /\ candidates' = candidates
  BY DEF AllocateBuffers
<1>2. InCall /\ ~Scheduling
  BY <1>1 DEF InCall, Scheduling
<1>3. ProgramOK /\ m \in States /\ readyDMA \in SUBSET OtherDMAs /\ endHeap \in Heaps
  BY <1>2, InvFacts
<1>4. ToCome = {}
  BY <1>2, NothingToCome
<1>5. PICK D \in SUBSET Ops : DoneInv(D)
  BY DEF IInv
<1>6. DoneCore(m, readyDMA, inDegree, D)
  BY <1>5 DEF DoneInv
<1>7. Settled(m, call.bufs, D)
  BY <1>2, <1>4, <1>5, SettledNow
<1>8. /\ ReadyOK(m) /\ Consistent(m) /\ Written(m) /\ Memory(m, m.alive \ call.bufs)
      /\ OneOriginal(m.beginHeap \cup endHeap, D)
      /\ \A e \in endHeap : IsOriginal(e) => IsScheduled(m, e.op)
      /\ \A e \in m.beginHeap : e.type # "write"
      /\ Candidates(m, candidates)
      /\ CanAlloc(m, call.bufs)
      /\ call.bufs \in SUBSET Buffers /\ call.bufs \subseteq m.alive
  BY <1>7 DEF Settled
<1>9. PICK r : r = PlaceBuffers(m.gaps, m.addr, call.bufs)
  OBVIOUS
<1>10. PICK t : t = m'
  OBVIOUS
<1>11. failed' \in BOOLEAN /\ t = [m EXCEPT !.gaps = r.gaps, !.addr = r.addr, !.alive = @ \cup call.bufs]
  BY <1>9, <1>10 DEF AllocateBuffers
<1>12. Allocated(m, t)
  BY <1>3, <1>8, <1>9, <1>11, BuffersAllocated
<1>13. SameSchedule(m, t) /\ Memory(t, t.alive) /\ t.beginHeap = m.beginHeap
  BY <1>12 DEF Allocated, SameSchedule
<1>14. /\ ReadyOK(t) /\ Consistent(t) /\ Written(t) /\ DoneCore(t, readyDMA, inDegree, D) /\ Candidates(t, candidates)
       /\ \A j : IsScheduled(m, j) <=> IsScheduled(t, j)
  BY <1>6, <1>8, <1>13, SameScheduleKeeps DEF SameFacts
<1>15. candidates \subseteq EvictionCandidates /\ IsFiniteSet(candidates) /\ prefetchSpill = NoCandidate
  BY <1>2 DEF IInv, CandidatesInv
<1>16. Outside(t, endHeap, NoCandidate, candidates, D)
  BY <1>3, <1>8, <1>13, <1>14, <1>15 DEF Outside
<1>17. Outside(m', endHeap', IF pc' = "evict" THEN prefetchSpill' ELSE NoCandidate, candidates', D)
  BY <1>1, <1>10, <1>15, <1>16
<1>18. /\ \A e \in m'.beginHeap : e.type = "write" => pc' \in {"loop", "done"} /\ e.buf \notin m'.alive
       /\ pc' = "select" => m'.beginHeap = {}
  BY <1>1, <1>8, <1>10, <1>13
<1>19. DoneCore(m', readyDMA', inDegree', D)
  BY <1>1, <1>10, <1>14
<1>20. users' \in [Buffers -> SUBSET Ops] /\ outputOps' \subseteq Ops
  BY <1>1 DEF IInv, TypeInv
<1>21. pc' \in {"loop", "select", "evict", "done", "failed"} /\ readyDMA' \in SUBSET OtherDMAs
  BY <1>1, <1>3
<1> QED BY <1>1, <1>11, <1>17, <1>18, <1>19, <1>20, <1>21, OutsideStep

\* So it is outside a call.
LEMMA OutsideNow ==
  ASSUME IInv, ~InCall, NEW D \in SUBSET Ops, DoneInv(D)
  PROVE  /\ Outside(m, endHeap, IF pc = "evict" THEN prefetchSpill ELSE NoCandidate, candidates, D)
         /\ DoneCore(m, readyDMA, inDegree, D)
<1>1. /\ ReadyOK(m) /\ Consistent(m) /\ Written(m) /\ Memory(m, Held) /\ endHeap \in Heaps
  BY InvFacts
<1>2. Memory(m, m.alive)
  BY <1>1 DEF Held
<1>3. OneOriginal(m.beginHeap \cup endHeap, D) /\ DoneCore(m, readyDMA, inDegree, D)
  BY DEF DoneInv
<1>4. \A e \in endHeap : IsOriginal(e) => IsScheduled(m, e.op)
  BY DEF IInv, RunningInv
<1>5. /\ candidates \subseteq EvictionCandidates /\ IsFiniteSet(candidates) /\ Candidates(m, candidates)
      /\ pc = "evict" /\ prefetchSpill # NoCandidate => Candidates(m, {prefetchSpill})
  BY DEF IInv, CandidatesInv
<1>6. PICK spills : spills = IF pc = "evict" THEN prefetchSpill ELSE NoCandidate
  OBVIOUS
<1>7. spills # NoCandidate => Candidates(m, {spills})
  BY <1>5, <1>6
<1>8. Outside(m, endHeap, spills, candidates, D)
  BY <1>1, <1>2, <1>3, <1>4, <1>5, <1>7 DEF Outside
<1> QED BY <1>3, <1>6, <1>8

\* MoveFromCycleBeginToCycleEndHeap keeps the invariant.
LEMMA MoveKeeps ==
  ASSUME IInv, MoveFromCycleBeginToCycleEndHeap
  PROVE  IInv'
<1>1. /\ pc = "loop" /\ pc' = "loop" /\ UNCHANGED tables /\ readyDMA' = readyDMA /\ inDegree' = inDegree
      /\ computeOrder' = computeOrder /\ endHeap' = endHeap \cup m.beginHeap /\ users' = users
      /\ outputOps' \subseteq outputOps /\ candidates' = candidates /\ failed' \in BOOLEAN
      /\ m' = [m EXCEPT !.beginHeap = {}, !.addr = AddressesLeft(m)]
  BY DEF MoveFromCycleBeginToCycleEndHeap, AddressesLeft
<1>2. ~InCall
  BY <1>1 DEF InCall
<1>3. ProgramOK /\ m \in States /\ readyDMA \in SUBSET OtherDMAs
  BY InvFacts
<1>4. PICK D \in SUBSET Ops : DoneInv(D)
  BY DEF IInv
<1>5. Outside(m, endHeap, NoCandidate, candidates, D) /\ DoneCore(m, readyDMA, inDegree, D)
  BY <1>1, <1>2, <1>4, OutsideNow
<1>6. /\ ReadyOK(m) /\ Consistent(m) /\ Written(m) /\ Memory(m, m.alive)
      /\ OneOriginal(m.beginHeap \cup endHeap, D)
      /\ endHeap \in Heaps
      /\ \A e \in endHeap : IsOriginal(e) => IsScheduled(m, e.op)
      /\ candidates \subseteq EvictionCandidates /\ IsFiniteSet(candidates) /\ Candidates(m, candidates)
  BY <1>5 DEF Outside
<1>7. \A e \in m.beginHeap : e.type = "write" => e.buf \notin m.alive
  BY DEF IInv, WritesInv
<1>8. PICK t : t = m'
  OBVIOUS
<1>9. Moved(m, t)
  <2>1. PICK addr : addr = AddressesLeft(m)
    OBVIOUS
  <2> QED BY <1>1, <1>3, <1>6, <1>7, <1>8, <2>1, HeapMoved
<1>10. SameSchedule(m, t) /\ Memory(t, t.alive) /\ t.beginHeap = {}
  BY <1>9 DEF Moved, SameSchedule
<1>11. /\ ReadyOK(t) /\ Consistent(t) /\ Written(t) /\ DoneCore(t, readyDMA, inDegree, D) /\ Candidates(t, candidates)
       /\ \A j : IsScheduled(m, j) <=> IsScheduled(t, j)
  BY <1>5, <1>6, <1>10, SameScheduleKeeps DEF SameFacts
<1>12. endHeap \cup m.beginHeap \in Heaps
  <2>1. m.beginHeap \in Heaps
    BY <1>3 DEF States
  <2> QED BY <1>6, <2>1, FS_Union DEF Heaps
<1>13. \A e \in endHeap \cup m.beginHeap : IsOriginal(e) => IsScheduled(t, e.op)
  BY <1>6, <1>11 DEF Consistent
<1>14. OneOriginal(t.beginHeap \cup (endHeap \cup m.beginHeap), D)
  <2>1. t.beginHeap \cup (endHeap \cup m.beginHeap) = m.beginHeap \cup endHeap
    BY <1>10
  <2> QED BY <1>6, <2>1
<1>15. Outside(t, endHeap \cup m.beginHeap, NoCandidate, candidates, D)
  BY <1>6, <1>10, <1>11, <1>12, <1>13, <1>14 DEF Outside
<1>17. Outside(m', endHeap', IF pc' = "evict" THEN prefetchSpill' ELSE NoCandidate, candidates', D)
  BY <1>1, <1>8, <1>15
<1>18. /\ \A e \in m'.beginHeap : e.type = "write" => pc' \in {"loop", "done"} /\ e.buf \notin m'.alive
       /\ pc' = "select" => m'.beginHeap = {}
  BY <1>8, <1>10
<1>19. DoneCore(m', readyDMA', inDegree', D)
  BY <1>1, <1>8, <1>11
<1>20. users' \in [Buffers -> SUBSET Ops] /\ outputOps' \subseteq Ops
  BY <1>1 DEF IInv, TypeInv
<1>21. pc' \in {"loop", "select", "evict", "done", "failed"} /\ readyDMA' \in SUBSET OtherDMAs
  BY <1>1, <1>3
<1> QED BY <1>1, <1>17, <1>18, <1>19, <1>20, <1>21, OutsideStep

\* A step that changes neither the scheduler's memory nor its heaps.
LEMMA QuietStep ==
  ASSUME IInv, ~InCall, UNCHANGED tables, m' = m, readyDMA' = readyDMA, inDegree' = inDegree,
         computeOrder' = computeOrder, endHeap' = endHeap, users' = users, outputOps' = outputOps,
         candidates' = candidates, failed' \in BOOLEAN, pc' \in {"loop", "done", "failed"},
         pc' = "failed" => m.beginHeap = {}
  PROVE  IInv'
<1>1. readyDMA \in SUBSET OtherDMAs
  BY InvFacts
<1>2. PICK D \in SUBSET Ops : DoneInv(D)
  BY DEF IInv
<1>3. Outside(m, endHeap, IF pc = "evict" THEN prefetchSpill ELSE NoCandidate, candidates, D)
      /\ DoneCore(m, readyDMA, inDegree, D)
  BY <1>2, OutsideNow
<1>4. Outside(m, endHeap, NoCandidate, candidates, D)
  BY <1>3 DEF Outside
<1>5. Outside(m', endHeap', IF pc' = "evict" THEN prefetchSpill' ELSE NoCandidate, candidates', D)
  BY <1>4
<1>6. /\ \A e \in m'.beginHeap : e.type = "write" => pc' \in {"loop", "done"} /\ e.buf \notin m'.alive
      /\ pc' = "select" => m'.beginHeap = {}
  BY DEF IInv, WritesInv
<1>7. users' \in [Buffers -> SUBSET Ops] /\ outputOps' \subseteq Ops
  BY DEF IInv, TypeInv
<1>8. pc' \in {"loop", "select", "evict", "done", "failed"} /\ readyDMA' \in SUBSET OtherDMAs
      /\ DoneCore(m', readyDMA', inDegree', D)
  BY <1>1, <1>3
<1> QED BY <1>5, <1>6, <1>7, <1>8, OutsideStep

\* The steps that only move schedulingLoop on keep the invariant.
LEMMA QuietStepsKeep ==
  ASSUME IInv, NothingToSpill \/ NoEviction \/ Finish
  PROVE  IInv'
<1>1. CASE NothingToSpill
  BY <1>1, QuietStep DEF NothingToSpill, InCall
<1>2. CASE NoEviction
  <2>1. failed' \in BOOLEAN
    BY <1>2 DEF NoEviction, IInv, TypeInv
  <2> QED BY <1>2, <2>1, QuietStep DEF NoEviction, InCall
<1>3. CASE Finish
  <2>1. failed' \in BOOLEAN
    BY <1>3 DEF Finish, IInv, TypeInv
  <2> QED BY <1>3, <2>1, QuietStep DEF Finish, InCall
<1> QED BY <1>1, <1>2, <1>3

\* Evicting outside a call: nothing runs that was not there before but the spill write.
LEMMA EvictionOutside ==
  ASSUME IInv, pc = "evict", NEW D \in SUBSET Ops, DoneInv(D), NEW c, Candidates(m, {c}),
         NEW cs, cs \subseteq EvictionCandidates, IsFiniteSet(cs), Candidates(m, cs),
         NEW t, t = Evict(m, c)
  PROVE  /\ Outside(t, endHeap, NoCandidate, cs, D) /\ DoneCore(t, readyDMA, inDegree, D)
         /\ \A e \in t.beginHeap : e.type = "write" => e.buf \notin t.alive
<1>1. ~InCall
  BY DEF InCall
<1>2. /\ ProgramOK /\ ReadyOK(m) /\ m \in States /\ Consistent(m) /\ Written(m) /\ Memory(m, Held)
      /\ endHeap \in Heaps
  BY InvFacts
<1>3. Memory(m, m.alive)
  BY <1>1, <1>2 DEF Held
<1>4. Evicted(m, t, c)
  BY <1>2, <1>3, BufferEvicted
<1>5. /\ t \in States /\ Consistent(t) /\ Written(t) /\ Memory(t, t.alive)
      /\ t.alive = m.alive \ {c.buf}
      /\ t.readyCompute = m.readyCompute /\ t.readyData = m.readyData
      /\ \A b \in Buffers : t.producer[b] = m.producer[b]
      /\ \A i \in Ops : IsScheduled(t, i) <=> IsScheduled(m, i)
      /\ \A e \in t.beginHeap : e \in m.beginHeap \/ (e.type = "write" /\ e.buf = c.buf)
  BY <1>4 DEF Evicted
<1>6. DoneCore(m, readyDMA, inDegree, D) /\ OneOriginal(m.beginHeap \cup endHeap, D)
  BY DEF DoneInv
<1>7. \A e \in m.beginHeap : e.type # "write"
  BY DEF IInv, WritesInv
<1>8. \A e \in t.beginHeap : IsOriginal(e) => e \in m.beginHeap
  BY <1>5 DEF IsOriginal
<1>9. OneOriginal(t.beginHeap \cup endHeap, D)
  BY <1>6, <1>8 DEF OneOriginal
<1>10. DoneCore(t, readyDMA, inDegree, D)
  <2>1. m.readyCompute \subseteq Ops
    BY <1>2 DEF ReadyOK
  <2>2. ReadyFollow(t, readyDMA, D)
    BY <1>5, <1>6, <2>1 DEF DoneCore, ReadyFollow
  <2> QED BY <1>6, <2>2 DEF DoneCore
<1>11. ReadyOK(t)
  BY <1>2, <1>5 DEF ReadyOK
<1>12. Candidates(t, cs)
  BY <1>5 DEF Candidates
<1>13. \A e \in endHeap : IsOriginal(e) => IsScheduled(t, e.op)
  <2>1. \A e \in endHeap : e.op \in Ops
    BY <1>2 DEF Heaps, Elements
  <2> QED BY <1>5, <2>1 DEF IInv, RunningInv
<1>14. Outside(t, endHeap, NoCandidate, cs, D)
  BY <1>2, <1>5, <1>9, <1>11, <1>12, <1>13 DEF Outside
<1>15. \A e \in t.beginHeap : e.type = "write" => e.buf \notin t.alive
  BY <1>5, <1>7
<1> QED BY <1>10, <1>14, <1>15

\* An eviction keeps the invariant.
LEMMA EvictionStep ==
  ASSUME IInv, pc = "evict", pc' = "loop", UNCHANGED tables, readyDMA' = readyDMA, inDegree' = inDegree,
         computeOrder' = computeOrder, endHeap' = endHeap, users' = users, outputOps' = outputOps,
         failed' \in BOOLEAN, NEW c, Candidates(m, {c}), m' = Evict(m, c),
         candidates' \subseteq EvictionCandidates, IsFiniteSet(candidates'), Candidates(m, candidates')
  PROVE  IInv'
<1>1. readyDMA \in SUBSET OtherDMAs
  BY InvFacts
<1>2. PICK D \in SUBSET Ops : DoneInv(D)
  BY DEF IInv
<1>3. PICK t : t = m'
  OBVIOUS
<1>4. PICK cs : cs = candidates'
  OBVIOUS
<1>5. /\ Outside(t, endHeap, NoCandidate, cs, D) /\ DoneCore(t, readyDMA, inDegree, D)
      /\ \A e \in t.beginHeap : e.type = "write" => e.buf \notin t.alive
  BY <1>2, <1>3, <1>4, EvictionOutside
<1>6. Outside(m', endHeap', IF pc' = "evict" THEN prefetchSpill' ELSE NoCandidate, candidates', D)
  BY <1>3, <1>4, <1>5
<1>7. /\ \A e \in m'.beginHeap : e.type = "write" => pc' \in {"loop", "done"} /\ e.buf \notin m'.alive
      /\ pc' = "select" => m'.beginHeap = {}
  BY <1>3, <1>5
<1>8. DoneCore(m', readyDMA', inDegree', D)
  BY <1>3, <1>5
<1>9. users' \in [Buffers -> SUBSET Ops] /\ outputOps' \subseteq Ops
  BY DEF IInv, TypeInv
<1>10. pc' \in {"loop", "select", "evict", "done", "failed"} /\ readyDMA' \in SUBSET OtherDMAs
  BY <1>1
<1> QED BY <1>6, <1>7, <1>8, <1>9, <1>10, OutsideStep

\* ForceSpillingForPrefetch keeps the invariant.
LEMMA ForceSpillingKeeps ==
  ASSUME IInv, ForceSpillingForPrefetch
  PROVE  IInv'
<1>1. /\ pc = "evict" /\ prefetchSpill # NoCandidate /\ m' = Evict(m, prefetchSpill) /\ pc' = "loop"
      /\ UNCHANGED tables /\ readyDMA' = readyDMA /\ inDegree' = inDegree
      /\ computeOrder' = computeOrder /\ endHeap' = endHeap /\ users' = users /\ outputOps' = outputOps
      /\ candidates' = candidates /\ failed' = failed
  BY DEF ForceSpillingForPrefetch
<1>2. Candidates(m, {prefetchSpill}) /\ candidates \subseteq EvictionCandidates /\ IsFiniteSet(candidates)
      /\ Candidates(m, candidates)
  BY <1>1 DEF IInv, CandidatesInv
<1>3. failed' \in BOOLEAN
  BY <1>1 DEF IInv, TypeInv
<1> QED BY <1>1, <1>2, <1>3, EvictionStep

\* ForceScheduleActiveOpEviction keeps the invariant.
LEMMA ForceEvictionKeeps ==
  ASSUME IInv, ForceScheduleActiveOpEviction
  PROVE  IInv'
<1>1. /\ pc = "evict" /\ m.alive # {} /\ pc' = "loop"
      /\ UNCHANGED tables /\ readyDMA' = readyDMA /\ inDegree' = inDegree
      /\ computeOrder' = computeOrder /\ endHeap' = endHeap /\ users' = users /\ outputOps' = outputOps
      /\ failed' \in BOOLEAN
  BY DEF ForceScheduleActiveOpEviction
<1>2. ProgramOK /\ m \in States /\ Consistent(m) /\ Written(m)
  BY InvFacts
<1>3. PICK cached : cached = (candidates # {} /\ Last(scheduled).type = "write")
  OBVIOUS
<1>4. PICK all : all = IF cached THEN candidates ELSE {Candidate(m, b) : b \in m.alive}
  OBVIOUS
<1>5. PICK victim : victim = CHOOSE c \in all : \A d \in all \ {c} : EvictedBefore(c, d)
  OBVIOUS
<1>6. candidates' = all \ {victim} /\ m' = Evict(m, victim)
  BY <1>3, <1>4, <1>5 DEF ForceScheduleActiveOpEviction
<1>7. candidates \subseteq EvictionCandidates /\ IsFiniteSet(candidates) /\ Candidates(m, candidates)
  BY DEF IInv, CandidatesInv
<1>8. all \subseteq EvictionCandidates /\ IsFiniteSet(all) /\ Candidates(m, all) /\ all # {}
  <2>1. CASE cached
    BY <1>3, <1>4, <1>7, <2>1
  <2>2. CASE ~cached
    <3>1. all = {Candidate(m, b) : b \in m.alive}
      BY <1>4, <2>2
    <3>2. all # {}
      BY <1>1, <3>1
    <3> QED BY <1>2, <3>1, <3>2, AliveAreCandidates
  <2> QED BY <2>1, <2>2
<1>9. victim \in all
  BY <1>2, <1>5, <1>8, VictimChosen
<1>10. Candidates(m, {victim}) /\ Candidates(m, all \ {victim})
  BY <1>8, <1>9 DEF Candidates
<1>11. all \ {victim} \subseteq EvictionCandidates /\ IsFiniteSet(all \ {victim})
  BY <1>8, FS_Subset
<1>12. candidates' \subseteq EvictionCandidates /\ IsFiniteSet(candidates') /\ Candidates(m, candidates')
  BY <1>6, <1>10, <1>11
<1> QED BY <1>1, <1>6, <1>10, <1>12, EvictionStep

\* What depends on the compute operations that end may be unlocked.
LEMMA EndedMayUnlock ==
  ASSUME IInv, pc = "loop", m.beginHeap = {}, NEW ended \in SUBSET endHeap, NEW D \in SUBSET Ops, DoneInv(D),
         NEW t, MemoryFreed(m, t), NEW done, done = EndedOps(ended)
  PROVE  /\ MayUnlock(t, readyDMA, inDegree, D, done)
         /\ \A i \in done : IsCompute(i) /\ ~\E e \in endHeap \ ended : IsOriginal(e) /\ IsCompute(e.op) /\ e.op = i
         /\ \A e \in endHeap : IsOriginal(e) => IsScheduled(t, e.op)
         /\ Candidates(t, candidates)
<1>1. ProgramOK /\ DataOpsOK /\ ReadyOK(m) /\ readyDMA \in SUBSET OtherDMAs /\ endHeap \in Heaps
  BY InvFacts
<1>2. /\ t \in States /\ Consistent(t) /\ Written(t) /\ Memory(t, t.alive)
      /\ t.readyCompute = m.readyCompute /\ t.readyData = m.readyData
      /\ t.producer = m.producer /\ t.opEnd = m.opEnd
  BY DEF MemoryFreed
<1>3. \A j : IsScheduled(t, j) <=> IsScheduled(m, j)
  BY <1>2 DEF IsScheduled
<1>4. DoneCore(m, readyDMA, inDegree, D) /\ OneOriginal(m.beginHeap \cup endHeap, D)
  BY DEF DoneInv
<1>5. ReadyOK(t) /\ DoneCore(t, readyDMA, inDegree, D)
  <2>1. ReadyOK(t)
    BY <1>1, <1>2 DEF ReadyOK
  <2>2. DoneCore(t, readyDMA, inDegree, D)
    BY <1>2, <1>3, <1>4 DEF DoneCore, ReadyFollow
  <2> QED BY <2>1, <2>2
<1>6. \A i \in done : \E e \in ended : e.op = i /\ IsOriginal(e) /\ IsCompute(e.op)
  BY DEF EndedOps
<1>7. \A e \in endHeap : e.op \in Ops
  BY <1>1 DEF Heaps, Elements
<1>8. \A i \in done : i \in Ops /\ IsCompute(i)
  BY <1>6, <1>7
<1>9. done \cap D = {}
  BY <1>4, <1>6 DEF OneOriginal
<1>10. done \cap isDataOp = {}
  BY <1>1, <1>8, DataOpsAreDMAs
<1>11. done \cap readyDMA = {}
  BY <1>1, <1>8 DEF OtherDMAs
<1>12. \A e \in endHeap : IsOriginal(e) => IsScheduled(t, e.op)
  BY <1>3 DEF IInv, RunningInv
<1>13. \A i \in done : IsScheduled(t, i)
  BY <1>6, <1>12
<1>14. MayUnlock(t, readyDMA, inDegree, D, done)
  BY <1>1, <1>5, <1>8, <1>9, <1>10, <1>11, <1>13 DEF MayUnlock
<1>15. \A i \in done : ~\E e \in endHeap \ ended : IsOriginal(e) /\ IsCompute(e.op) /\ e.op = i
  BY <1>4, <1>6 DEF OneOriginal
<1>16. Candidates(t, candidates)
  BY <1>2, <1>3 DEF IInv, CandidatesInv, Candidates
<1> QED BY <1>8, <1>12, <1>14, <1>15, <1>16

\* UnscheduleAllCompletingOps keeps the invariant.
LEMMA UnscheduleKeeps ==
  ASSUME IInv, UnscheduleAllCompletingOps
  PROVE  IInv'
<1>1. /\ pc = "loop" /\ m.beginHeap = {} /\ pc' = "select" /\ UNCHANGED tables
      /\ users' = [b \in Buffers |-> users[b] \ {e.op : e \in Ended}]
      /\ Unlock(FreeMemory(Ended, users'), EndedOps(Ended))
      /\ endHeap' = endHeap \ Ended
      /\ computeOrder' = computeOrder /\ outputOps' = outputOps /\ candidates' = candidates
  BY DEF UnscheduleAllCompletingOps, EndedOps
<1>2. ~InCall
  BY <1>1 DEF InCall
<1>3. /\ ProgramOK /\ DataOpsOK /\ m \in States /\ ReadyOK(m) /\ Consistent(m) /\ Written(m) /\ Memory(m, Held)
      /\ readyDMA \in SUBSET OtherDMAs /\ endHeap \in Heaps
  BY InvFacts
<1>4. Memory(m, m.alive)
  BY <1>2, <1>3 DEF Held
<1>5. PICK D \in SUBSET Ops : DoneInv(D)
  BY DEF IInv
<1>6. PICK ended : ended = Ended
  OBVIOUS
<1>7. ended \in SUBSET endHeap
  BY <1>6 DEF Ended
<1>8. PICK s : s = FreeMemory(ended, users')
  OBVIOUS
<1>9. MemoryFreed(m, s)
  <2>1. PICK left : left = users'
    OBVIOUS
  <2>2. \A b \in Buffers : left[b] = users[b] \ {e.op : e \in ended}
    BY <1>1, <1>6, <2>1
  <2>3. s = FreeMemory(ended, left)
    BY <1>8, <2>1
  <2> QED BY <1>3, <1>4, <1>7, <2>2, <2>3, MemoryIsFreed
<1>10. PICK done : done = EndedOps(ended)
  OBVIOUS
<1>11. /\ MayUnlock(s, readyDMA, inDegree, D, done)
       /\ \A i \in done : IsCompute(i) /\ ~\E e \in endHeap \ ended : IsOriginal(e) /\ IsCompute(e.op) /\ e.op = i
       /\ \A e \in endHeap : IsOriginal(e) => IsScheduled(s, e.op)
       /\ Candidates(s, candidates)
  BY <1>1, <1>5, <1>7, <1>9, <1>10, EndedMayUnlock
<1>12. Unlock(s, done)
  BY <1>1, <1>6, <1>8, <1>10
<1>13. PICK ready : ready = Unlocked(inDegree, done)
  OBVIOUS
<1>14. PICK others : others = ReadyWith(Reduced(inDegree, done), ready)
  OBVIOUS
<1>15. PICK t : t = m'
  OBVIOUS
<1>16. Unlocks(s, readyDMA, inDegree, done, ready, others, t, readyDMA', inDegree') /\ failed' \in BOOLEAN
  BY <1>12, <1>13, <1>14, <1>15 DEF Unlock, Unlocks
<1>17. /\ UnlockedWith(s, t, readyDMA', inDegree', D, done)
       /\ ReadyAdded(s, t, ready, others) /\ ReadyOK(t) /\ readyDMA' \in SUBSET OtherDMAs
  BY <1>3, <1>11, <1>16, OthersUnlocked
<1>18. PICK E \in SUBSET Ops :
         /\ D \cup done \subseteq E /\ E \ (D \cup done) \subseteq isDataOp
         /\ DoneCore(t, readyDMA', inDegree', E)
  BY <1>17 DEF UnlockedWith
<1>19. SameButReady(s, t)
  BY <1>17, ReadyAddedKeeps
<1>20. /\ Consistent(s) /\ Written(s) /\ Memory(s, s.alive) /\ s.beginHeap = {}
  BY <1>1, <1>9 DEF MemoryFreed
<1>21. /\ Consistent(t) /\ Written(t) /\ Memory(t, s.alive) /\ t.alive = s.alive /\ t.beginHeap = {}
       /\ Candidates(t, candidates) /\ \A e \in endHeap : IsOriginal(e) => IsScheduled(t, e.op)
  BY <1>11, <1>19, <1>20 DEF SameButReady
<1>22. Memory(t, t.alive)
  BY <1>21
<1>23. OneOriginal(t.beginHeap \cup (endHeap \ ended), E)
  <2>1. OneOriginal(endHeap \ ended, D)
    BY <1>5 DEF DoneInv, OneOriginal
  <2>2. \A i \in E \ D : ~\E e \in endHeap \ ended : IsOriginal(e) /\ IsCompute(e.op) /\ e.op = i
    BY <1>3, <1>11, <1>18, DataOpsAreDMAs
  <2>3. OneOriginal(endHeap \ ended, E)
    BY <2>1, <2>2, MoreDone
  <2>4. t.beginHeap \cup (endHeap \ ended) = endHeap \ ended
    BY <1>21
  <2> QED BY <2>3, <2>4
<1>24. endHeap \ ended \in Heaps
  BY <1>3, FS_Subset DEF Heaps
<1>25. candidates \subseteq EvictionCandidates /\ IsFiniteSet(candidates)
  BY DEF IInv, CandidatesInv
<1>26. Outside(t, endHeap \ ended, NoCandidate, candidates, E)
  BY <1>17, <1>21, <1>22, <1>23, <1>24, <1>25 DEF Outside
<1>27. Outside(m', endHeap', IF pc' = "evict" THEN prefetchSpill' ELSE NoCandidate, candidates', E)
  BY <1>1, <1>6, <1>15, <1>26
<1>28. /\ \A e \in m'.beginHeap : e.type = "write" => pc' \in {"loop", "done"} /\ e.buf \notin m'.alive
       /\ pc' = "select" => m'.beginHeap = {}
  BY <1>15, <1>21
<1>29. DoneCore(m', readyDMA', inDegree', E)
  BY <1>15, <1>18
<1>30. users' \in [Buffers -> SUBSET Ops] /\ outputOps' \subseteq Ops
  <2>1. users \in [Buffers -> SUBSET Ops] /\ outputOps \subseteq Ops
    BY DEF IInv, TypeInv
  <2>2. PICK gone : gone = {e.op : e \in Ended}
    OBVIOUS
  <2>3. users' = [b \in Buffers |-> users[b] \ gone]
    BY <1>1, <2>2
  <2> QED BY <1>1, <2>1, <2>3
<1>31. pc' \in {"loop", "select", "evict", "done", "failed"}
  BY <1>1
<1> QED BY <1>1, <1>16, <1>17, <1>27, <1>28, <1>29, <1>30, <1>31, OutsideStep

\* The degrees that init leaves are those of operations that wait for the rest.
LEMMA InitDegrees ==
  ASSUME ProgramOK, DataOpsOK, NEW degree, degree = [i \in Ops |-> Cardinality(Deps(i))],
         NEW ready, ready = {i \in Ops : Deps(i) = {}}, NEW D, D = ready \cap isDataOp,
         NEW others, others = ReadyWith(degree, ready)
  PROVE  InitReady(D, ready, others) /\ D \in SUBSET Ops /\ Degrees(Reduced(degree, D), D)
<1>1. D \in SUBSET Ops
  OBVIOUS
<1>2. Degrees(degree, {})
  <2>1. \A c : Deps(c) \ {} = Deps(c)
    OBVIOUS
  <2> QED BY <2>1 DEF Degrees
<1>3. /\ Degrees(Reduced(degree, D), {} \cup D)
      /\ Unlocked(degree, D) = WaitingOnly(D, {} \cup D)
  <2>1. PICK none \in SUBSET Ops : none = {}
    OBVIOUS
  <2>2. Degrees(degree, none) /\ D \cap none = {}
    BY <1>2, <2>1
  <2>3. /\ Degrees(Reduced(degree, D), none \cup D)
        /\ Unlocked(degree, D) = WaitingOnly(D, none \cup D)
    BY <1>1, <2>2, DegreesReduced
  <2> QED BY <2>1, <2>3
<1>4. {} \cup D = D
  OBVIOUS
<1>5. Degrees(Reduced(degree, D), D) /\ Unlocked(degree, D) = WaitingOnly(D, D)
  BY <1>3, <1>4
<1>6. others = (ready \ isDataOp) \cup WaitingOnly(D, D)
  BY <1>5 DEF ReadyWith
<1> QED BY <1>1, <1>5, <1>6 DEF InitReady

\* The ready lists of init follow from the data operations that count as done.
LEMMA InitDone ==
  ASSUME ProgramOK, DataOpsOK, NEW s, FreshOK(s), NEW D \in SUBSET Ops, NEW ready, NEW others,
         InitReady(D, ready, others), NEW t, NEW dmas, InitLists(s, ready, others, t, dmas),
         NEW degree, Degrees(degree, D)
  PROVE  /\ DoneCore(t, dmas, degree, D) /\ dmas \in SUBSET OtherDMAs
         /\ ReadyOK(t) /\ Consistent(t) /\ Written(t) /\ Memory(t, t.alive) /\ t.beginHeap = {}
<1> USE DEF InitLists
<1>1. /\ ready = {i \in Ops : Deps(i) = {}} /\ D = ready \cap isDataOp
      /\ others = (ready \ isDataOp) \cup {c \in Ops : Deps(c) \cap D # {} /\ Deps(c) \subseteq D}
  BY DEF InitReady, WaitingOnly
<1>2. isDataOp \subseteq Ops /\ \A i \in isDataOp : Deps(i) \cap isDataOp = {} /\ ~IsCompute(i)
  BY DataOpsAreDMAs DEF DataOpsOK
<1>3. ready \in SUBSET Ops /\ others \in SUBSET Ops
  BY <1>1
<1>4. others \cap isDataOp = {} /\ others \cap D = {} /\ \A i \in others : Deps(i) \subseteq D
  BY <1>1, <1>2
<1>5. /\ s \in States /\ Consistent(s) /\ Written(s) /\ Memory(s, s.alive)
      /\ s.alive = {} /\ s.beginHeap = {} /\ s.readyCompute = {} /\ s.readyData = {}
      /\ \A i \in Ops : ~IsScheduled(s, i)
  BY DEF FreshOK
<1>6. ReadyAdded(s, t, ready, others)
  BY <1>3, <1>5, ReadyListsGrow
<1>7. SameButReady(s, t)
  BY <1>6, ReadyAddedKeeps
<1>8. /\ Consistent(t) /\ Written(t) /\ Memory(t, s.alive) /\ t.alive = s.alive /\ t.beginHeap = {}
      /\ \A i \in Ops : ~IsScheduled(t, i)
  BY <1>5, <1>7 DEF SameButReady
<1>9. /\ t \in States /\ t.readyData = D /\ t.readyCompute = {i \in others : IsCompute(i)}
  BY <1>1, <1>5, <1>6 DEF ReadyAdded
<1>10. ReadyOK(t)
  BY <1>1, <1>3, <1>9 DEF ReadyOK
<1>11. dmas \in SUBSET OtherDMAs
  BY <1>3, <1>4 DEF OtherDMAs
<1>12. ReadyFollow(t, dmas, D)
  <2>1. \A i \in t.readyCompute \cup t.readyData \cup dmas : Deps(i) \subseteq D
    BY <1>1, <1>4, <1>9
  <2>2. \A i \in D \ isDataOp : IsScheduled(t, i)
    BY <1>1
  <2>3. \A i \in t.readyCompute : ~IsScheduled(t, i)
    BY <1>3, <1>8, <1>9
  <2>4. \A i \in Ops \ isDataOp : IsScheduled(t, i) => Deps(i) \subseteq D
    BY <1>8
  <2> QED BY <2>3, <2>4, <2>1, <2>2 DEF ReadyFollow
<1>13. DoneCore(t, dmas, degree, D)
  <2>1. \A i \in D \cap isDataOp : Deps(i) \subseteq D
    BY <1>1
  <2>2. dmas \cap D = {}
    BY <1>4
  <2> QED BY <1>12, <2>1, <2>2 DEF DoneCore
<1> QED BY <1>8, <1>10, <1>11, <1>13

\* The initial states satisfy the invariant.
LEMMA InitEstablishes ==
  ASSUME Init
  PROVE  IInv
<1>1. /\ prog \in Programs /\ isDataOp = IdentifyDataOps /\ opLevel = Levels
      /\ computeOrder = [q \in ComputeQueues |-> Ascending({i \in Ops : prog.queue[i] = q})]
      /\ users = [b \in Buffers |-> {i \in Ops : b \in UsedBuffers(i)}]
      /\ outputOps = {i \in Ops : Consumers(i) = {}}
      /\ pc = "loop" /\ endHeap = {} /\ candidates = {} /\ failed = FALSE
  BY DEF Init
<1>2. ProgramOK
  BY <1>1, ProgramFacts
<1>3. DataOpsOK /\ opLevel \in [Ops -> Nat] /\ OrderOK(computeOrder)
  BY <1>1, <1>2, DataOpsIdentified, LevelsTyped, OrderMade
<1>4. ~InCall /\ ~Trying /\ ~Scheduling
  BY <1>1 DEF InCall, Trying, Scheduling
<1>5. PICK degree : degree = [i \in Ops |-> Cardinality(Deps(i))]
  OBVIOUS
<1>6. PICK ready : ready = {i \in Ops : Deps(i) = {}}
  OBVIOUS
<1>7. PICK others : others = ReadyWith(degree, ready)
  OBVIOUS
<1>8. PICK D : D = ready \cap isDataOp
  OBVIOUS
<1>9. /\ m = AddReady(Fresh, ready, others)
      /\ readyDMA = {i \in others : ~IsCompute(i)}
      /\ inDegree = Reduced(degree, D)
  BY <1>5, <1>6, <1>7, <1>8 DEF Init
<1>10. InitReady(D, ready, others) /\ D \in SUBSET Ops /\ Degrees(inDegree, D)
  BY <1>2, <1>3, <1>5, <1>6, <1>7, <1>8, <1>9, InitDegrees
<1>11. /\ DoneCore(m, readyDMA, inDegree, D) /\ readyDMA \in SUBSET OtherDMAs
       /\ ReadyOK(m) /\ Consistent(m) /\ Written(m) /\ Memory(m, m.alive) /\ m.beginHeap = {}
  <2>1. PICK s : s = Fresh
    OBVIOUS
  <2>2. FreshOK(s)
    BY <1>2, <2>1, FreshState
  <2>3. InitLists(s, ready, others, m, readyDMA)
    BY <1>9, <2>1 DEF InitLists
  <2> QED BY <1>2, <1>3, <1>10, <2>2, <2>3, InitDone
<1>12. TablesInv
  BY <1>1, <1>3 DEF TablesInv
<1>13. TypeInv
  <2>1. endHeap \in Heaps
    BY <1>1, FS_EmptySet DEF Heaps
  <2>2. users \in [Buffers -> SUBSET Ops] /\ outputOps \subseteq Ops
    BY <1>1
  <2>3. readyDMA \subseteq {i \in Ops \ isDataOp : ~IsCompute(i)}
    BY <1>11 DEF OtherDMAs
  <2> QED BY <1>1, <1>4, <1>11, <2>1, <2>2, <2>3 DEF TypeInv
<1>14. \E E \in SUBSET Ops : DoneInv(E)
  <2>1. OneOriginal(m.beginHeap \cup endHeap, D)
    BY <1>1, <1>11 DEF OneOriginal
  <2>2. DoneInv(D)
    BY <1>1, <1>4, <1>11, <2>1 DEF DoneInv
  <2> QED BY <1>10, <2>2
<1>15. RunningInv
  BY <1>1, <1>4 DEF RunningInv
<1>16. CandidatesInv
  BY <1>1, <1>4, FS_EmptySet DEF CandidatesInv, Candidates
<1>17. WritesInv
  BY <1>11 DEF WritesInv
<1>18. StateInv
  <2>1. Held = m.alive
    BY <1>4 DEF Held
  <2> QED BY <1>11, <2>1 DEF StateInv
<1>19. CallInv /\ SavedInv
  BY <1>4 DEF CallInv, SavedInv
<1> QED BY <1>12, <1>13, <1>14, <1>15, <1>16, <1>17, <1>18, <1>19 DEF IInv

\* Stuttering keeps the invariant.
LEMMA SameFormulas ==
  ASSUME UNCHANGED vars, IInv
  PROVE  IInv'
<1>1. UNCHANGED tables /\ m' = m /\ pc' = pc /\ call' = call /\ candidates' = candidates
      /\ prefetchSpill' = prefetchSpill /\ endHeap' = endHeap /\ readyDMA' = readyDMA
      /\ inDegree' = inDegree /\ computeOrder' = computeOrder /\ users' = users
      /\ outputOps' = outputOps /\ failed' = failed
  BY DEF vars, tables
<1>2. PICK D \in SUBSET Ops : DoneInv(D)
  BY DEF IInv
<1>3. /\ OrderOK(computeOrder) /\ ReadyOK(m) /\ Consistent(m) /\ Written(m) /\ Memory(m, Held)
  BY InvFacts
<1>4. (InCall' <=> InCall) /\ (Trying' <=> Trying) /\ (Scheduling' <=> Scheduling)
  BY <1>1 DEF InCall, Trying, Scheduling
<1>21. TablesInv'
  BY <1>1, <1>3, TablesStay DEF IInv
<1>22. TypeInv'
  <2>1. InCall => CallOK'
    <3>1. InCall => CallOK
      BY DEF IInv, TypeInv
    <3> QED BY <1>1, <1>4, <3>1, ProgramKept DEF CallOK
  <2>2. ReadyOK(m)'
    BY <1>1, <1>3, FormulasKept
  <2> QED BY <1>1, <1>4, <2>1, <2>2, ProgramKept DEF IInv, TypeInv
<1>23. (\E E \in SUBSET Ops : DoneInv(E))'
  <2>1. DoneInv(D)'
    <3>1. DoneCore(m, readyDMA, inDegree, D)'
      BY <1>1, <1>2, FormulasKept DEF DoneInv
    <3>2. OneOriginal(m.beginHeap \cup endHeap, D)'
      BY <1>1, <1>2, FormulasKept DEF DoneInv
    <3>3. Trying => ReadyFollow(call.saved, readyDMA, D)'
      BY <1>1, <1>2, FormulasKept DEF DoneInv
    <3>4. pc = "dma" => CallFollows(D)'
      <4>1. \A j : WaitingDMA(j, D)' <=> WaitingDMA(j, D)
        BY <1>1, ProgramKept DEF WaitingDMA
      <4>2. \A j : ScheduledDMA(j, D)' <=> ScheduledDMA(j, D)
        BY <1>1, ProgramKept DEF ScheduledDMA, IsScheduled
      <4>3. pc = "dma" => CallFollows(D)
        BY <1>2 DEF DoneInv
      <4> QED BY <1>1, <4>1, <4>2, <4>3, ProgramKept DEF CallFollows
    <3> QED BY <1>1, <1>4, <3>1, <3>2, <3>3, <3>4 DEF DoneInv
  <2> QED BY <1>1, <2>1, ProgramKept
<1>24. RunningInv'
  BY <1>1, <1>4 DEF IInv, RunningInv, IsScheduled, IsOriginal
<1>25. CandidatesInv'
  <2>1. Candidates(m, candidates)'
    BY <1>1, FormulasKept DEF IInv, CandidatesInv
  <2>2. Trying => Candidates(call.saved, candidates)'
    BY <1>1, FormulasKept DEF IInv, CandidatesInv
  <2>3. pc = "evict" /\ prefetchSpill # NoCandidate => Candidates(m, {prefetchSpill})'
    BY <1>1, FormulasKept DEF IInv, CandidatesInv
  <2> QED BY <1>1, <1>4, <2>1, <2>2, <2>3, ProgramKept DEF IInv, CandidatesInv
<1>26. WritesInv'
  BY <1>1 DEF IInv, WritesInv
<1>27. StateInv'
  <2>1. Held' = Held
    BY <1>1, <1>4 DEF Held
  <2>2. Memory(m, Held)'
    BY <1>1, <1>3, <2>1, FormulasKept
  <2> QED BY <1>1, <1>3, <2>2, FormulasKept DEF StateInv
<1>28. CallInv'
  <2>1. \A k : BuffersFor(m, call.todo[k])' = BuffersFor(m, call.todo[k])
    BY <1>1, FormulasKept
  <2>2. ToCome' = ToCome
    BY <1>1, <1>4, <2>1 DEF ToCome
  <2>3. CanAlloc(m, call.bufs)' <=> CanAlloc(m, call.bufs)
    BY <1>1, FormulasKept
  <2> QED BY <1>1, <1>4, <2>2, <2>3 DEF IInv, CallInv
<1>29. SavedInv'
  <2> SUFFICES ASSUME Trying
               PROVE  /\ ReadyOK(call.saved)' /\ Consistent(call.saved)' /\ Written(call.saved)'
                      /\ Memory(call.saved, call.saved.alive)'
                      /\ call'.saved.beginHeap = {} /\ DeltasFit(call.saved, m)'
    BY <1>4 DEF SavedInv
  <2>1. /\ ReadyOK(call.saved) /\ Consistent(call.saved) /\ Written(call.saved)
        /\ Memory(call.saved, call.saved.alive)
        /\ call.saved.beginHeap = {} /\ DeltasFit(call.saved, m)
    BY DEF IInv, SavedInv
  <2>2. ReadyOK(call.saved)' /\ Consistent(call.saved)' /\ Written(call.saved)' /\ Memory(call.saved, call.saved.alive)'
    BY <1>1, <2>1, FormulasKept
  <2>3. DeltasFit(call.saved, m)'
    BY <1>1, <2>1 DEF DeltasFit, MapFits
  <2> QED BY <1>1, <2>1, <2>2, <2>3
<1> QED BY <1>21, <1>22, <1>23, <1>24, <1>25, <1>26, <1>27, <1>28, <1>29 DEF IInv

\* Every step keeps the invariant.
LEMMA StepKeeps ==
  ASSUME IInv, [Next]_vars
  PROVE  IInv'
<1>1. CASE UNCHANGED vars
  BY <1>1, SameFormulas
<1>2. CASE MoveFromCycleBeginToCycleEndHeap
  BY <1>2, MoveKeeps
<1>3. CASE UnscheduleAllCompletingOps
  BY <1>3, UnscheduleKeeps
<1>4. CASE SelectComputeOps
  BY <1>4, SelectComputeOpsKeeps
<1>5. CASE ScheduleComputeOp
  BY <1>5, ComputeOpKeeps
<1>6. CASE PrefetchForCompute
  BY <1>6, PrefetchForComputeKeeps
<1>7. CASE PrefetchOp
  BY <1>7, PrefetchOpKeeps
<1>8. CASE EndPrefetch
  BY <1>8, EndPrefetchKeeps
<1>9. CASE SelectDMAOps
  BY <1>9, SelectDMAOpsKeeps
<1>10. CASE ScheduleDMAOp
  BY <1>10, DMAOpKeeps
<1>11. CASE PrefetchForDMA
  BY <1>11, PrefetchForDMAKeeps
<1>12. CASE AllocateBuffers
  BY <1>12, AllocateBuffersKeeps
<1>13. CASE ForceSpillingForPrefetch
  BY <1>13, ForceSpillingKeeps
<1>14. CASE ForceScheduleActiveOpEviction
  BY <1>14, ForceEvictionKeeps
<1>15. CASE NothingToSpill \/ NoEviction \/ Finish
  BY <1>15, QuietStepsKeep
<1> QED BY <1>1, <1>2, <1>3, <1>4, <1>5, <1>6, <1>7, <1>8, <1>9, <1>10, <1>11, <1>12, <1>13, <1>14, <1>15 DEF Next

\* The inductive invariant of the scheduler.
THEOREM SchedulerInvariant == Spec => []IInv
<1>1. Init => IInv
  BY InitEstablishes
<1>2. IInv /\ [Next]_vars => IInv'
  BY StepKeeps
<1> QED BY <1>1, <1>2, PTL DEF Spec

\* The invariant has the types in it.
LEMMA TypesFollow ==
  ASSUME IInv
  PROVE  TypeOK
<1>1. /\ m \in States /\ m.readyData \subseteq isDataOp /\ m.readyCompute \subseteq {i \in Ops : IsCompute(i)}
  BY DEF IInv, TypeInv, ReadyOK
<1>2. m.beginHeap \subseteq Elements /\ endHeap \subseteq Elements
  <2>1. m.beginHeap \in Heaps /\ endHeap \in Heaps
    BY <1>1 DEF IInv, TypeInv, States
  <2> QED BY <2>1 DEF Heaps
<1>3. /\ m.alive \subseteq Buffers
      /\ m.addr \in [Buffers -> {Unallocated} \cup 0 .. prog.memory]
      /\ m.spilled \in [Buffers -> Ops \cup {0}] /\ m.producer \in [Buffers -> Ops \cup {0}]
      /\ m.lastUse \in [Buffers -> Nat] /\ m.opEnd \in [Ops -> Nat]
  BY <1>1 DEF States
<1>4. isDataOp \subseteq Ops /\ opLevel \in [Ops -> Nat]
  BY DEF IInv, TablesInv, DataOpsOK
<1>5. /\ pc \in {"loop", "select", "compute", "prefetch", "selectDMA", "dma", "prefetchDMA", "allocate",
                "evict", "done", "failed"}
      /\ readyDMA \subseteq {i \in Ops \ isDataOp : ~IsCompute(i)}
      /\ outputOps \subseteq Ops /\ users \in [Buffers -> SUBSET Ops] /\ failed \in BOOLEAN
  BY DEF IInv, TypeInv
<1> QED BY <1>1, <1>2, <1>3, <1>4, <1>5 DEF TypeOK

\* The values of the scheduler's state are the ones its tables and lists are made for.
THEOREM TypesCorrect == Spec => []TypeOK
<1>1. IInv => TypeOK
  BY TypesFollow
<1> QED BY <1>1, SchedulerInvariant, PTL

-----------------------------------------------------------------------------
\* Only a failed prefetch leads from prefetching to an eviction.
LEMMA OnlyGiveUp ==
  ASSUME [Next]_vars, pc = "prefetch", pc' = "evict"
  PROVE  /\ EndPrefetch
         /\ m' = RestoreState(call.saved, m)
<1>1. pc' # pc
  OBVIOUS
<1>2. ~UNCHANGED vars
  BY <1>1 DEF vars
<1>3. /\ ~MoveFromCycleBeginToCycleEndHeap /\ ~UnscheduleAllCompletingOps /\ ~SelectComputeOps
      /\ ~ScheduleComputeOp /\ ~PrefetchForCompute
  BY DEF MoveFromCycleBeginToCycleEndHeap, UnscheduleAllCompletingOps, SelectComputeOps,
         ScheduleComputeOp, PrefetchForCompute
<1>4. ~PrefetchOp
  BY <1>1 DEF PrefetchOp
<1>5. ~SelectDMAOps /\ ~ScheduleDMAOp /\ ~PrefetchForDMA /\ ~AllocateBuffers
  BY DEF SelectDMAOps, ScheduleDMAOp, PrefetchForDMA, AllocateBuffers
<1>6. /\ ~ForceSpillingForPrefetch /\ ~ForceScheduleActiveOpEviction /\ ~NothingToSpill
      /\ ~NoEviction /\ ~Finish
  BY DEF ForceSpillingForPrefetch, ForceScheduleActiveOpEviction, NothingToSpill, NoEviction, Finish
<1>7. EndPrefetch
  BY <1>2, <1>3, <1>4, <1>5, <1>6 DEF Next
<1>8. PICK victim : GiveUpPrefetch(RestoreState(call.saved, m), victim) \/ KeepComputeOps(victim)
  BY <1>7 DEF EndPrefetch
<1>9. ~KeepComputeOps(victim)
  BY DEF KeepComputeOps
<1>10. m' = RestoreState(call.saved, m)
  BY <1>8, <1>9 DEF GiveUpPrefetch
<1> QED BY <1>7, <1>10

\* The state a failed prefetch goes back to is the state before the operations.
LEMMA GivenUpExactly ==
  ASSUME IInv, [Next]_vars, pc = "prefetch", pc' = "evict"
  PROVE  ResetDeltas(m') = ResetDeltas(call.saved)
<1>1. m' = RestoreState(call.saved, m)
  BY OnlyGiveUp
<1>2. m \in States
  BY InvFacts
<1>3. PICK saved : saved = call.saved
  OBVIOUS
<1>4. ReadyOK(saved) /\ DeltasFit(saved, m)
  BY <1>3 DEF IInv, SavedInv, Trying
<1>5. PICK t : t = m'
  OBVIOUS
<1>6. RolledBack(saved, t)
  BY <1>1, <1>2, <1>3, <1>4, <1>5, StateRestored DEF ReadyOK
<1>7. ResetDeltas(t) = ResetDeltas(saved)
  BY <1>6 DEF RolledBack
<1> QED BY <1>3, <1>5, <1>7

\* The maps that restoreStateBeforeScheduling puts back entry by entry are exactly
\* what they were, and so is all it puts back from a snapshot.
THEOREM RollbackCorrect == Spec => RollbackIsExact
<1>1. IInv /\ [Next]_vars =>
        [(pc = "prefetch" /\ pc' = "evict") => ResetDeltas(m') = ResetDeltas(call.saved)]_vars
  BY GivenUpExactly
<1> QED BY <1>1, SchedulerInvariant, PTL DEF Spec, RollbackIsExact

-----------------------------------------------------------------------------
(***************************************************************************)
(* Nothing is lost: the sizes of the gaps and of the buffers that are      *)
(* alive count the addresses.                                              *)
(***************************************************************************)
\* One more buffer adds its size.
LEMMA BlockCounted ==
  ASSUME ProgramOK, NEW s, NEW bs \in SUBSET Buffers, Apart(s, bs), NEW c \in bs
  PROVE  Cardinality(BlockAddresses(s, bs)) = Cardinality(BlockAddresses(s, bs \ {c})) + prog.size[c]
<1> DEFINE A == BlockAddresses(s, bs \ {c})
<1>1. /\ prog.memory \in Nat
      /\ \A b \in bs : s.addr[b] \in Nat /\ s.addr[b] + prog.size[b] <= prog.memory /\ prog.size[b] \in Nat
      /\ \A b, d \in bs : b # d => ~Overlap(b, s.addr[b], d, s.addr[d])
  BY DEF Apart, ProgramOK
<1>2. PICK a \in Nat : a = s.addr[c]
  BY <1>1
<1>3. PICK n \in Nat : n = prog.size[c]
  BY <1>1
<1>4. a .. a + n - 1 = {x \in 0 .. prog.memory - 1 : InBlock(s, c, x)}
  <2>1. a + n <= prog.memory
    BY <1>1, <1>2, <1>3
  <2> QED BY <1>1, <1>2, <1>3, <2>1 DEF InBlock
<1>5. A \cap (a .. a + n - 1) = {}
  <2> SUFFICES ASSUME NEW x \in 0 .. prog.memory - 1, NEW b \in bs \ {c}, InBlock(s, b, x), InBlock(s, c, x)
               PROVE FALSE
    BY <1>4 DEF BlockAddresses
  <2>1. ~Overlap(b, s.addr[b], c, s.addr[c])
    BY <1>1
  <2> QED BY <1>1, <2>1 DEF InBlock, Overlap
<1>6. IsFiniteSet(A)
  <2>1. A \in SUBSET (0 .. prog.memory - 1)
    BY DEF BlockAddresses
  <2>2. IsFiniteSet(0 .. prog.memory - 1)
    BY <1>1, FS_Interval
  <2> HIDE DEF A
  <2> QED BY <2>1, <2>2, FS_Subset
<1>7. BlockAddresses(s, bs) = A \cup (a .. a + n - 1)
  BY <1>4 DEF BlockAddresses
<1> HIDE DEF A
<1>8. Cardinality(A \cup (a .. a + n - 1)) = Cardinality(A) + n
  BY <1>5, <1>6, BlockAdded
<1> QED BY <1>3, <1>7, <1>8 DEF A

\* Buffers with memory of their own take as many addresses as their sizes say.
LEMMA SizesCountAddresses ==
  ASSUME ProgramOK, NEW s, NEW bs \in SUBSET Buffers, Apart(s, bs)
  PROVE  TotalBuffersSize(bs) = Cardinality(BlockAddresses(s, bs))
<1> DEFINE Count(U) == Cardinality(BlockAddresses(s, U))
           F == {U \in SUBSET bs : Sum(prog.size, U) # Count(U)}
<1>1. IsFiniteSet(bs) /\ \A b \in bs : prog.size[b] \in Int
  <2>1. IsFiniteSet(Buffers) /\ \A b \in Buffers : prog.size[b] \in Int
    BY DEF ProgramOK
  <2> QED BY <2>1, FS_Subset
<1>2. TotalBuffersSize(bs) = Sum(prog.size, bs)
  BY DEF TotalBuffersSize, Sum
<1>3. ASSUME NEW U \in SUBSET bs, NEW c \in U PROVE Count(U) = Count(U \ {c}) + prog.size[c]
  <2>1. U \in SUBSET Buffers /\ Apart(s, U)
    BY DEF Apart
  <2> QED BY <2>1, BlockCounted
<1>4. Count({}) = 0
  <2>1. BlockAddresses(s, {}) = {}
    BY DEF BlockAddresses
  <2> QED BY <2>1, FS_EmptySet
<1>5. ASSUME F # {} PROVE FALSE
  <2>1. F \in SUBSET (SUBSET bs)
    OBVIOUS
  <2> HIDE DEF Count
  <2>2. PICK U \in F : \A V \in F : V \subseteq U => V = U
    <3> HIDE DEF F
    <3> QED BY <1>1, <1>5, <2>1, MinimalSubset
  <2>3. U # {}
    BY <1>4, SumEmpty
  <2>4. PICK c \in U : TRUE
    BY <2>3
  <2>5. Sum(prog.size, U \ {c}) = Count(U \ {c})
    BY <2>2, <2>4
  <2>6. IsFiniteSet(U) /\ \A b \in U : prog.size[b] \in Int
    BY <1>1, FS_Subset
  <2>7. Sum(prog.size, U) = prog.size[c] + Sum(prog.size, U \ {c})
    BY <2>4, <2>6, SumRemove
  <2>8. Count(U) = Count(U \ {c}) + prog.size[c]
    BY <1>3
  <2>9. Sum(prog.size, U \ {c}) \in Int /\ prog.size[c] \in Int
    BY <2>6, FS_Subset, SumIsInt
  <2> QED BY <2>5, <2>7, <2>8, <2>9
<1> QED BY <1>2, <1>5

\* The sizes of the gaps count the addresses they cover.
LEMMA GapsCountAddresses ==
  ASSUME NEW total \in Nat, NEW gs, IsGapList(gs, total)
  PROVE  TotalFreeSize(gs) = Cardinality(GapAddresses(gs, DOMAIN gs, total))
<1> DEFINE D == DOMAIN gs
           Op(sum, g) == sum + GapSize(g)
           step == [p \in Int \X GapRec |-> Op(p[1], p[2])]
           Count(p) == Cardinality(GapAddresses(gs, p, total))
           W == [p \in SUBSET D |-> {v \in Int : v = Count(p)}]
           P(jt) == jt = [p \in SUBSET D |-> IF p = {} THEN 0 ELSE Op(jt[p \ {Max(p)}], gs[Max(p)])]
<1>1. gs \in Seq(GapRec) /\ (\A k \in D : gs[k] \in GapRec) /\ D = 1 .. Len(gs) /\ Len(gs) \in Nat
  BY GapListFacts
<1>2. ASSUME NEW v \in Int, NEW g \in GapRec PROVE Op(v, g) \in Int
  BY DEF GapRec, GapSize
<1>3. \A p \in SUBSET D : p # {} => Max(p) \in p /\ p \ {Max(p)} \in SUBSET D
  BY <1>1, MaxOfPositions
<1>4. step \in [Int \X GapRec -> Int]
  BY <1>2
<1>5. \A p \in SUBSET D : \A k \in p : Count(p) = Count(p \ {k}) + GapSize(gs[k])
  BY GapCounted
<1>6. Count({}) = 0
  <2>1. GapAddresses(gs, {}, total) = {}
    BY DEF GapAddresses
  <2> QED BY <2>1, FS_EmptySet
<1> HIDE DEF Count
<1>7. \A p \in SUBSET D : W[p] = {v \in Int : v = Count(p)}
  OBVIOUS
<1>8. FoldStays(Int, W, step, 0, gs)
  <2>1. 0 \in Int /\ 0 \in W[{}]
    BY <1>6
  <2>2. ASSUME NEW p \in SUBSET D, p # {}, NEW v \in Int, v \in W[p \ {Max(p)}]
        PROVE  step[<<v, gs[Max(p)]>>] \in W[p]
    <3>1. Max(p) \in p /\ p \ {Max(p)} \in SUBSET D /\ gs[Max(p)] \in GapRec
      BY <2>2, <1>1, <1>3
    <3>2. v = Count(p \ {Max(p)})
      BY <2>2, <3>1
    <3>3. step[<<v, gs[Max(p)]>>] = v + GapSize(gs[Max(p)])
      BY <3>1
    <3>4. step[<<v, gs[Max(p)]>>] \in Int
      BY <3>1, <3>3, <1>2
    <3>5. Count(p) = v + GapSize(gs[Max(p)])
      BY <3>1, <3>2, <1>5
    <3> HIDE DEF step
    <3> QED BY <3>3, <3>4, <3>5
  <2> HIDE DEF step, W
  <2> QED BY <2>1, <2>2 DEF FoldStays
<1>9. PICK r : r = TotalFreeSize(gs)
  OBVIOUS
<1>10. PICK it \in [SUBSET D -> Int] : FoldSolution(W, step, 0, gs, it)
  <2> HIDE DEF step, W
  <2> QED BY <1>1, <1>4, <1>8, FoldWithin
<1>11. r = (CHOOSE jt : P(jt))[D]
  BY <1>9 DEF TotalFreeSize, FoldLeft, MapThenFoldSet
<1>12. P(it)
  <2>1. ASSUME NEW p \in SUBSET D
        PROVE  it[p] = IF p = {} THEN 0 ELSE Op(it[p \ {Max(p)}], gs[Max(p)])
    <3>1. CASE p = {}
      BY <1>10, <3>1 DEF FoldSolution, FoldEquation
    <3>2. CASE p # {}
      <4>1. it[p] = step[<<it[p \ {Max(p)}], gs[Max(p)]>>]
        BY <1>10, <3>2 DEF FoldSolution, FoldEquation
      <4>2. it[p \ {Max(p)}] \in Int /\ gs[Max(p)] \in GapRec
        BY <1>1, <1>3, <3>2
      <4> QED BY <3>2, <4>1, <4>2
    <3> QED BY <3>1, <3>2
  <2> HIDE DEF step, W, Op
  <2> QED BY <2>1
<1>13. \A jt : P(jt) => jt[D] = it[D]
  <2> SUFFICES ASSUME NEW jt, P(jt) PROVE jt[D] = it[D]
    OBVIOUS
  <2>1. jt[{}] = 0
    OBVIOUS
  <2>2. ASSUME NEW p \in SUBSET D, p # {}, jt[p \ {Max(p)}] = it[p \ {Max(p)}]
        PROVE  FoldEquation(step, 0, gs, jt, p)
    <3>1. it[p \ {Max(p)}] \in Int /\ gs[Max(p)] \in GapRec
      BY <1>1, <1>3, <2>2
    <3>2. jt[p] = Op(jt[p \ {Max(p)}], gs[Max(p)])
      BY <2>2
    <3> QED BY <2>2, <3>1, <3>2 DEF FoldEquation
  <2> HIDE DEF step, W, P
  <2> QED BY <1>10, <2>1, <2>2 DEF FoldSolution
<1>14. it[D] \in W[D] /\ r = it[D]
  <2>1. it[D] \in W[D]
    BY <1>10 DEF FoldSolution
  <2> HIDE DEF P, W
  <2> QED BY <1>11, <1>12, <1>13, <2>1
<1>15. r = Count(D)
  BY <1>7, <1>14
<1> QED BY <1>9, <1>15 DEF Count

\* What the gaps cover and what the buffers take are all the addresses.
LEMMA MemoryCounted ==
  ASSUME ProgramOK, NEW s, NEW bs \in SUBSET Buffers, Memory(s, bs)
  PROVE  TotalFreeSize(s.gaps) + TotalBuffersSize(bs) = prog.memory
<1> DEFINE M == 0 .. prog.memory - 1
           G == GapAddresses(s.gaps, DOMAIN s.gaps, prog.memory)
           B == BlockAddresses(s, bs)
<1>1. prog.memory \in Nat /\ IsGapList(s.gaps, prog.memory) /\ Apart(s, bs)
  BY DEF Memory, Apart, ProgramOK
<1>2. \A x \in M : Covers(s.gaps, x) <=> ~\E b \in bs : InBlock(s, b, x)
  BY DEF Memory
<1>3. G = M \ B
  BY <1>2 DEF GapAddresses, BlockAddresses, Covers
<1>4. B \in SUBSET M
  BY DEF BlockAddresses
<1>5. TotalFreeSize(s.gaps) = Cardinality(G)
  BY <1>1, GapsCountAddresses
<1>6. TotalBuffersSize(bs) = Cardinality(B)
  BY <1>1, SizesCountAddresses
<1> HIDE DEF G, B
<1>7. IsFiniteSet(M) /\ Cardinality(M) = prog.memory
  BY <1>1, AddressesBelow
<1> HIDE DEF M
<1>8. M \cap B = B
  BY <1>4
<1>9. Cardinality(M \ B) = Cardinality(M) - Cardinality(M \cap B)
  BY <1>7, FS_Difference
<1>10. Cardinality(B) \in Nat /\ prog.memory \in Nat
  BY <1>1, <1>4, <1>7, FS_Subset, FS_CardinalityType
<1> QED BY <1>3, <1>5, <1>6, <1>7, <1>8, <1>9, <1>10

\* Outside a call the memory is that of the buffers that are alive.
LEMMA MemoryFollows ==
  ASSUME IInv
  PROVE  MemoryMatchesAlive
<1> SUFFICES ASSUME pc \in {"loop", "select", "evict"} PROVE Memory(m, m.alive) => MemoryMatchesAlive
  <2>1. ~InCall => Memory(m, m.alive)
    BY DEF IInv, StateInv, Held
  <2> QED BY <2>1 DEF InCall, MemoryMatchesAlive
<1> SUFFICES ASSUME Memory(m, m.alive) PROVE MemoryMatchesAlive
  OBVIOUS
<1>1. ProgramOK /\ m.alive \in SUBSET Buffers
  BY InvFacts DEF States
<1>2. TotalFreeSize(m.gaps) + TotalBuffersSize(m.alive) = prog.memory
  BY <1>1, MemoryCounted
<1>3. \A b \in m.alive : m.addr[b] # Unallocated
  <2>1. \A b \in m.alive : m.addr[b] \in Nat
    BY DEF Memory
  <2> QED BY <2>1 DEF Unallocated
<1>4. \A b, c \in m.alive : b # c => ~Overlap(b, m.addr[b], c, m.addr[c])
  BY DEF Memory
<1> QED BY <1>2, <1>3, <1>4 DEF MemoryMatchesAlive

\* Between calls the buffers that are alive have their own memory and the gaps are
\* the rest of it, whatever was evicted, freed, prefetched and rolled back.
THEOREM MemoryCorrect == Spec => []MemoryMatchesAlive
<1>1. IInv => MemoryMatchesAlive
  BY MemoryFollows
<1> QED BY <1>1, SchedulerInvariant, PTL

\* The buffers that a call of scheduleComputeOps has gathered, one operation at a time,
\* still fit together when the call ends: nothing since the last canAlloc has taken
\* memory, so the VPUX_THROW_UNLESS on the allocation in sortAndAllocateBuffers
\* (feasible_memory_scheduler.cpp:2837) never fires.
THEOREM AllocationSucceeds == Spec => [](InCall => CanAlloc(m, call.bufs))
<1>1. IInv => (InCall => CanAlloc(m, call.bufs))
  BY DEF IInv, CallInv
<1> QED BY <1>1, SchedulerInvariant, PTL

-----------------------------------------------------------------------------
(***************************************************************************)
(* The schedule.                                                           *)
(***************************************************************************)
\* The predicates of the schedule do not change with the variables they do not mention.
LEMMA LogKept ==
  ASSUME UNCHANGED tables
  PROVE  /\ \A s, P : Logged(s, P)' <=> Logged(s, P)
         /\ \A s, dmas, degree : Unscheduled(s, dmas, degree)' <=> Unscheduled(s, dmas, degree)
         /\ \A cs : OutsWritten(cs)' <=> OutsWritten(cs)
         /\ \A i : Consumers(i)' = Consumers(i)
<1>1. prog' = prog /\ Ops' = Ops /\ Buffers' = Buffers
  BY ProgramKept
<1>2. \A i : Deps(i)' = Deps(i) /\ UsedBuffers(i)' = UsedBuffers(i) /\ SpillCost(i)' = SpillCost(i)
  BY <1>1 DEF Deps, UsedBuffers, SpillCost
<1>3. \A q : Instances(q)' = Instances(q)
  BY <1>1 DEF Instances
<1>4. \A e : EntryOf(e)' = EntryOf(e)
  BY <1>2 DEF EntryOf, IsOriginal
<1>5. ASSUME NEW s, NEW P PROVE Log(s, P)' = Log(s, P)
  BY <1>4 DEF Log
<1>6. ASSUME NEW s, NEW P PROVE EntriesOK(s, P)' <=> EntriesOK(s, P)
  <2>1. Log(s, P)' = Log(s, P)
    BY <1>5
  <2> QED BY <1>1, <1>2, <2>1 DEF EntriesOK, IsScheduled
<1>7. ASSUME NEW s, NEW P PROVE UsesOK(s, P)' <=> UsesOK(s, P)
  <2>1. Log(s, P)' = Log(s, P)
    BY <1>5
  <2> QED BY <1>1, <1>3, <2>1 DEF UsesOK
<1>8. ASSUME NEW s, NEW P PROVE HeapOK(s, P)' <=> HeapOK(s, P)
  BY <1>1, <1>2, <1>4 DEF HeapOK, IsOriginal
<1>9. ASSUME NEW s, NEW P PROVE Logged(s, P)' <=> Logged(s, P)
  BY <1>6, <1>7, <1>8 DEF Logged
<1>10. ASSUME NEW s, NEW dmas, NEW degree
       PROVE  Unscheduled(s, dmas, degree)' <=> Unscheduled(s, dmas, degree)
  BY <1>1 DEF Unscheduled, IsScheduled
<1>11. ASSUME NEW cs PROVE OutsWritten(cs)' <=> OutsWritten(cs)
  BY <1>1 DEF OutsWritten
<1>12. ASSUME NEW i PROVE Consumers(i)' = Consumers(i)
  BY <1>1, <1>2 DEF Consumers
<1> QED BY <1>9, <1>10, <1>11, <1>12

\* The invariant of the schedule in the next state.
LEMMA LogStep ==
  ASSUME UNCHANGED tables, NEW P, P = Past', Logged(m', P), Unscheduled(m', readyDMA', inDegree'),
         Trying' => Logged(call'.saved, P) /\ Unscheduled(call'.saved, readyDMA', inDegree'),
         pc' = "dma" => Waiting(call'.todo, readyDMA'),
         OutsWritten(candidates'), prefetchSpill' # NoCandidate => OutsWritten({prefetchSpill'}),
         EventsOK', OutputsInv'
  PROVE  LogInv'
<1>1. Logged(m, Past)' /\ Unscheduled(m, readyDMA, inDegree)'
  BY LogKept
<1>2. Trying' => Logged(call.saved, Past)' /\ Unscheduled(call.saved, readyDMA, inDegree)'
  BY LogKept
<1>3. OutsWritten(candidates)' /\ (prefetchSpill' # NoCandidate => OutsWritten({prefetchSpill})')
  BY LogKept
<1>4. NoCandidate' = NoCandidate
  BY DEF NoCandidate, NoBuffer
<1>5. pc' = "dma" => Waiting(call.todo, readyDMA)'
  BY DEF Waiting
<1> QED BY <1>1, <1>2, <1>3, <1>4, <1>5 DEF LogInv

\* A step that records nothing.
LEMMA UnrecordedStep ==
  ASSUME LogInv, UNCHANGED tables, scheduled' = scheduled, outputOps' = outputOps, outputOps # {}, pc' # "done",
         Logged(m', Past), Unscheduled(m', readyDMA', inDegree'),
         Trying' => Logged(call'.saved, Past) /\ Unscheduled(call'.saved, readyDMA', inDegree'),
         pc' = "dma" => Waiting(call'.todo, readyDMA'),
         OutsWritten(candidates'), prefetchSpill' # NoCandidate => OutsWritten({prefetchSpill'})
  PROVE  LogInv'
<1>1. Events' = Events /\ \A e : EventEntry(e)' = EventEntry(e)
  BY DEF Events, EventEntry, IsOriginal, BuffersOf, Accesses
<1>2. Past' = Past
  BY <1>1 DEF Past
<1>3. EventsOK'
  BY <1>1 DEF LogInv, EventsOK
<1>4. OutputsInv'
  <2>1. Ops' = Ops /\ \A i : Consumers(i)' = Consumers(i)
    BY ProgramKept, LogKept
  <2> QED BY <1>2, <2>1 DEF LogInv, OutputsInv
<1> QED BY <1>2, <1>3, <1>4, LogStep

\* States as in SameRecord have the same log, and the same operations wait.
LEMMA RecordKept ==
  ASSUME NEW s, NEW t, SameRecord(s, t)
  PROVE  /\ \A P : Logged(s, P) => Logged(t, P)
         /\ \A dmas, degree : Unscheduled(s, dmas, degree) => Unscheduled(t, dmas, degree)
<1>1. \A P : Logged(s, P) => Logged(t, P)
  BY SameLogged DEF SameRecord
<1>2. \A dmas, degree : Unscheduled(s, dmas, degree) => Unscheduled(t, dmas, degree)
  BY DEF SameRecord, Unscheduled, IsScheduled
<1> QED BY <1>1, <1>2

\* A step that schedules nothing and makes nothing ready.
LEMMA QuietlyLogged ==
  ASSUME LogInv, UNCHANGED tables, scheduled' = scheduled, outputOps' = outputOps,
         pc \notin {"loop", "done"}, pc' # "done",
         NEW s, s = m \/ (Trying /\ s = call.saved), SameRecord(s, m'),
         readyDMA' = readyDMA, inDegree' = inDegree,
         Trying' => call'.saved = m \/ (Trying /\ call'.saved = call.saved),
         pc' = "dma" => Waiting(call'.todo, readyDMA),
         candidates' = candidates, prefetchSpill' # NoCandidate => OutsWritten({prefetchSpill'})
  PROVE  LogInv'
<1>1. outputOps # {}
  BY DEF LogInv, OutputsInv
<1>2. Logged(m, Past) /\ Unscheduled(m, readyDMA, inDegree)
  BY DEF LogInv
<1>3. Trying => Logged(call.saved, Past) /\ Unscheduled(call.saved, readyDMA, inDegree)
  BY DEF LogInv
<1>4. Logged(m', Past) /\ Unscheduled(m', readyDMA', inDegree')
  <2>1. PICK t : t = m'
    OBVIOUS
  <2>2. Logged(t, Past) /\ Unscheduled(t, readyDMA, inDegree)
    BY <1>2, <1>3, <2>1, RecordKept
  <2> QED BY <2>1, <2>2
<1>5. Trying' => Logged(call'.saved, Past) /\ Unscheduled(call'.saved, readyDMA', inDegree')
  BY <1>2, <1>3
<1>6. OutsWritten(candidates')
  BY DEF LogInv
<1> QED BY <1>1, <1>4, <1>5, <1>6, UnrecordedStep

\* NothingToSpill and NoEviction are such steps.
LEMMA NoEvictionLogged ==
  ASSUME LogInv, NothingToSpill \/ NoEviction
  PROVE  LogInv'
<1>1. /\ pc = "evict" /\ prefetchSpill = NoCandidate /\ pc' \in {"loop", "failed"} /\ UNCHANGED tables
      /\ m' = m /\ scheduled' = scheduled /\ outputOps' = outputOps /\ readyDMA' = readyDMA
      /\ inDegree' = inDegree /\ candidates' = candidates /\ prefetchSpill' = prefetchSpill
  BY DEF NothingToSpill, NoEviction
<1>2. ~Trying' /\ SameRecord(m, m')
  BY <1>1 DEF Trying, SameRecord
<1> QED BY <1>1, <1>2, QuietlyLogged

\* PrefetchForCompute is one.
LEMMA PrefetchForComputeLogged ==
  ASSUME IInv, LogInv, PrefetchForCompute
  PROVE  LogInv'
<1>1. /\ pc = "compute" /\ StartPrefetch(m) /\ pc' = "prefetch" /\ UNCHANGED tables
      /\ m' = m /\ scheduled' = scheduled /\ outputOps' = outputOps /\ readyDMA' = readyDMA
      /\ inDegree' = inDegree /\ candidates' = candidates /\ prefetchSpill' = prefetchSpill
  BY DEF PrefetchForCompute
<1>2. InCall /\ Trying /\ SameRecord(m, m')
  BY <1>1 DEF InCall, Trying, SameRecord
<1>3. ProgramOK /\ opLevel \in [Ops -> Nat] /\ CallOK /\ m \in States
  BY <1>2, InvFacts
<1>4. call'.saved = call.saved
  BY <1>1, <1>3, PrefetchStarted DEF CallRec
<1>5. prefetchSpill = NoCandidate
  BY <1>2 DEF IInv, CandidatesInv
<1> QED BY <1>1, <1>2, <1>4, <1>5, QuietlyLogged

\* SelectComputeOps saves the state.
LEMMA SelectComputeOpsLogged ==
  ASSUME IInv, LogInv, SelectComputeOps
  PROVE  LogInv'
<1>1. /\ pc = "select" /\ m' = ResetDeltas(m) /\ UNCHANGED tables /\ prefetchSpill' = NoCandidate
      /\ scheduled' = scheduled /\ outputOps' = outputOps /\ readyDMA' = readyDMA
      /\ inDegree' = inDegree /\ candidates' = candidates
  BY DEF SelectComputeOps
<1>2. m \in States
  BY InvFacts
<1>3. PICK chosen : Started(chosen)
  BY CallStarted
<1>4. call'.saved = m /\ pc' \in {"selectDMA", "compute"}
  BY <1>3 DEF Started, CallRec
<1>5. SameRecord(m, m')
  <2>1. PICK t : t = m'
    OBVIOUS
  <2>2. DeltasReset(m, t)
    BY <1>1, <1>2, <2>1, DeltasAreReset
  <2> QED BY <2>1, <2>2 DEF DeltasReset, SameRecord
<1> QED BY <1>1, <1>4, <1>5, QuietlyLogged

\* SelectDMAOps chooses among the operations that wait.
LEMMA SelectDMAOpsLogged ==
  ASSUME IInv, LogInv, SelectDMAOps
  PROVE  LogInv'
<1>1. /\ pc = "selectDMA" /\ UNCHANGED tables /\ m' = m /\ prefetchSpill' = prefetchSpill
      /\ scheduled' = scheduled /\ outputOps' = outputOps /\ readyDMA' = readyDMA
      /\ inDegree' = inDegree /\ candidates' = candidates
  BY DEF SelectDMAOps
<1>2. InCall /\ ~Scheduling
  BY <1>1 DEF InCall, Scheduling
<1>3. ProgramOK /\ m \in States /\ readyDMA \in SUBSET OtherDMAs /\ CallOK
  BY <1>2, InvFacts
<1>4. ToCome = {}
  BY <1>2 DEF ToCome
<1>5. call.bufs \subseteq m.alive /\ CanAlloc(m, call.bufs) /\ call.bufs \in SUBSET Buffers
  BY <1>2, <1>3, <1>4 DEF IInv, CallInv, CallOK
<1>6. PICK chosen : /\ chosen = Select(Ascending(readyDMA), [ops |-> <<>>, bufs |-> call.bufs])
                    /\ call' = [call EXCEPT !.todo = chosen.ops, !.bufs = chosen.bufs]
                    /\ pc' = IF chosen.ops = <<>> THEN "allocate" ELSE "dma"
  BY DEF SelectDMAOps
<1>7. readyDMA \in SUBSET Ops
  BY <1>3 DEF OtherDMAs
<1>8. Selected(chosen, readyDMA, call.bufs)
  BY <1>3, <1>5, <1>6, <1>7, DMAsSelected
<1>9. PICK todo : todo = chosen.ops
  OBVIOUS
<1>10. todo \in Seq(readyDMA) /\ Distinct(todo)
  BY <1>8, <1>9 DEF Selected
<1>11. call'.todo = todo
  <2> DEFINE r == CallRec(call.todo, call.placed, call.bufs, call.alive, call.fragmented, call.saved)
  <2>1. call = r
    BY <1>3, CallIsRecord
  <2>2. call' = [r EXCEPT !.todo = todo, !.bufs = chosen.bufs]
    BY <1>6, <1>9, <2>1
  <2> QED BY <2>2 DEF CallRec
<1>12. Waiting(call'.todo, readyDMA)
  <2>1. \A k \in DOMAIN todo : todo[k] \in readyDMA
    BY <1>10
  <2> QED BY <1>10, <1>11, <2>1 DEF Waiting, Distinct
<1>13. ~Trying' /\ pc' # "done" /\ SameRecord(m, m')
  BY <1>1, <1>6 DEF Trying, SameRecord
<1>14. prefetchSpill = NoCandidate
  BY <1>2 DEF IInv, CandidatesInv
<1> QED BY <1>1, <1>12, <1>13, <1>14, QuietlyLogged

\* AllocateBuffers gives the buffers their addresses.
LEMMA AllocateBuffersLogged ==
  ASSUME IInv, LogInv, AllocateBuffers
  PROVE  LogInv'
<1>1. /\ pc = "allocate" \/ (pc = "prefetchDMA" /\ call.todo = <<>>)
      /\ UNCHANGED tables /\ pc' = "evict" /\ readyDMA' = readyDMA /\ inDegree' = inDegree
      /\ scheduled' = scheduled /\ outputOps' = outputOps
      /\ prefetchSpill' = prefetchSpill /\ candidates' = candidates
  BY DEF AllocateBuffers
<1>2. InCall /\ ~Scheduling /\ ~Trying'
  BY <1>1 DEF InCall, Scheduling, Trying
<1>3. ProgramOK /\ m \in States
  BY InvFacts
<1>4. ToCome = {}
  BY <1>2, NothingToCome
<1>5. PICK D \in SUBSET Ops : DoneInv(D)
  BY DEF IInv
<1>7. Settled(m, call.bufs, D)
  BY <1>2, <1>4, <1>5, SettledNow
<1>8. /\ Memory(m, m.alive \ call.bufs) /\ CanAlloc(m, call.bufs)
      /\ call.bufs \in SUBSET Buffers /\ call.bufs \subseteq m.alive
  BY <1>7 DEF Settled
<1>9. PICK r : r = PlaceBuffers(m.gaps, m.addr, call.bufs)
  OBVIOUS
<1>10. PICK t : t = m'
  OBVIOUS
<1>11. t = [m EXCEPT !.gaps = r.gaps, !.addr = r.addr, !.alive = @ \cup call.bufs]
  BY <1>9, <1>10 DEF AllocateBuffers
<1>12. Allocated(m, t)
  BY <1>3, <1>8, <1>9, <1>11, BuffersAllocated
<1>13. SameRecord(m, m')
  BY <1>10, <1>12 DEF Allocated, SameRecord
<1>14. prefetchSpill = NoCandidate
  BY <1>2 DEF IInv, CandidatesInv
<1> QED BY <1>1, <1>2, <1>13, <1>14, QuietlyLogged

\* A buffer's producer writes it.
LEMMA ProducerWrites ==
  ASSUME ProgramOK, NEW s, NEW P, Logged(s, P), NEW cs, Candidates(s, cs), \A c \in cs : c.op = s.producer[c.buf]
  PROVE  OutsWritten(cs)
BY DEF Logged, UsesOK, Candidates, OutsWritten

\* EndPrefetch keeps the operations or forgets them.
LEMMA EndPrefetchLogged ==
  ASSUME IInv, LogInv, EndPrefetch
  PROVE  LogInv'
<1>1. /\ pc = "prefetch" /\ UNCHANGED tables /\ readyDMA' = readyDMA /\ inDegree' = inDegree
      /\ scheduled' = scheduled /\ outputOps' = outputOps /\ candidates' = candidates
  BY DEF EndPrefetch
<1>2. PICK victim :
        /\ victim = IF call.fragmented = {} THEN NoCandidate
                    ELSE ChooseForPrefetch(RestoreState(call.saved, m), endHeap, call.fragmented)
        /\ GiveUpPrefetch(RestoreState(call.saved, m), victim) \/ KeepComputeOps(victim)
  BY DEF EndPrefetch
<1>3. InCall /\ Trying /\ ~Scheduling
  BY <1>1 DEF InCall, Trying, Scheduling
<1>4. ProgramOK /\ DataOpsOK /\ m \in States
  BY InvFacts
<1>5. prefetchSpill = NoCandidate
  BY <1>3 DEF IInv, CandidatesInv
<1>6. CASE KeepComputeOps(victim)
  <2>1. /\ m' = [m EXCEPT !.alive = @ \cup call.bufs] /\ prefetchSpill' = prefetchSpill /\ pc' = "selectDMA"
    BY <1>6 DEF KeepComputeOps
  <2>2. ToCome = {}
    BY <1>3 DEF ToCome
  <2>3. call.bufs \subseteq m.alive
    BY <1>3, <2>2 DEF IInv, CallInv
  <2>4. PICK t : t = m'
    OBVIOUS
  <2>5. t = m
    BY <1>4, <2>1, <2>3, <2>4, NothingAllocated
  <2>6. ~Trying' /\ SameRecord(m, m')
    BY <2>1, <2>4, <2>5 DEF Trying, SameRecord
  <2> QED BY <1>1, <1>5, <2>1, <2>6, QuietlyLogged
<1>7. CASE GiveUpPrefetch(RestoreState(call.saved, m), victim)
  <2>1. victim # NoCandidate /\ m' = RestoreState(call.saved, m) /\ prefetchSpill' = victim /\ pc' = "evict"
    BY <1>7 DEF GiveUpPrefetch
  <2>2. PICK saved : saved = call.saved
    OBVIOUS
  <2>3. ReadyOK(saved) /\ Consistent(saved) /\ Written(saved) /\ DeltasFit(saved, m)
    BY <1>3, <2>2 DEF IInv, SavedInv
  <2>4. PICK t : t = m'
    OBVIOUS
  <2>5. RolledBack(saved, t)
    BY <1>4, <2>3, <2>4, <2>1, <2>2, StateRestored DEF ReadyOK
  <2>6. SameRecord(saved, t) /\ t \in States /\ t.alive = saved.alive
    BY <2>5 DEF RolledBack, SameRecord
  <2>7. Consistent(t) /\ Written(t)
    BY <2>3, <2>6 DEF SameRecord, Consistent, Written, IsScheduled
  <2>8. victim = ChooseForPrefetch(t, endHeap, call.fragmented)
    BY <1>2, <2>1, <2>4
  <2>9. Candidates(t, {victim}) /\ victim.op = t.producer[victim.buf]
    BY <1>4, <2>1, <2>6, <2>7, <2>8, PrefetchVictim
  <2>10. Logged(t, Past)
    <3>1. Logged(saved, Past)
      BY <1>3, <2>2 DEF LogInv
    <3> QED BY <2>6, <3>1, RecordKept
  <2>11. OutsWritten({victim})
    BY <1>4, <2>9, <2>10, ProducerWrites
  <2>12. ~Trying' /\ pc' # "done" /\ pc' # "dma" /\ SameRecord(saved, m')
    BY <2>1, <2>4, <2>6 DEF Trying
  <2> QED BY <1>1, <1>3, <2>1, <2>2, <2>11, <2>12, QuietlyLogged
<1> QED BY <1>2, <1>6, <1>7

\* An eviction writes a buffer of its operation to DDR.
LEMMA EvictionLogged ==
  ASSUME IInv, LogInv, pc = "evict", pc' = "loop", UNCHANGED tables, readyDMA' = readyDMA,
         inDegree' = inDegree, outputOps' = outputOps, scheduled' = scheduled, prefetchSpill' = prefetchSpill,
         NEW c, Candidates(m, {c}), OutsWritten({c}), m' = Evict(m, c), OutsWritten(candidates')
  PROVE  LogInv'
<1>1. ~InCall /\ ~Trying' /\ outputOps # {}
  BY DEF InCall, Trying, LogInv, OutputsInv
<1>2. /\ ProgramOK /\ ReadyOK(m) /\ m \in States /\ Consistent(m) /\ Written(m) /\ Memory(m, Held)
      /\ readyDMA \in SUBSET OtherDMAs
  BY InvFacts
<1>3. Memory(m, m.alive)
  BY <1>1, <1>2 DEF Held
<1>4. PICK t : t = m'
  OBVIOUS
<1>5. Evicted(m, t, c)
  BY <1>2, <1>3, <1>4, BufferEvicted
<1>6. /\ t.readyData = m.readyData /\ KeepsLog(m, t, {})
      /\ \A i \in Ops : IsScheduled(t, i) <=> IsScheduled(m, i)
  BY <1>5 DEF Evicted, OutsWritten
<1>7. Logged(t, Past)
  <2>1. Schedulable(m, {})
    BY DEF Schedulable
  <2> QED BY <1>6, <2>1 DEF KeepsLog, LogInv
<1>8. Unscheduled(t, readyDMA, inDegree)
  <2>1. m.readyData \subseteq Ops /\ readyDMA \subseteq Ops
    BY <1>2 DEF States, OtherDMAs
  <2> QED BY <1>6, <2>1 DEF LogInv, Unscheduled
<1>9. Logged(m', Past) /\ Unscheduled(m', readyDMA', inDegree')
  BY <1>4, <1>7, <1>8
<1>10. prefetchSpill' # NoCandidate => OutsWritten({prefetchSpill'})
  BY DEF LogInv
<1> QED BY <1>1, <1>9, <1>10, UnrecordedStep

\* ForceSpillingForPrefetch evicts the buffer that was chosen.
LEMMA ForceSpillingLogged ==
  ASSUME IInv, LogInv, ForceSpillingForPrefetch
  PROVE  LogInv'
<1>1. /\ pc = "evict" /\ prefetchSpill # NoCandidate /\ m' = Evict(m, prefetchSpill) /\ pc' = "loop"
      /\ UNCHANGED tables /\ readyDMA' = readyDMA /\ inDegree' = inDegree /\ outputOps' = outputOps
      /\ scheduled' = scheduled /\ candidates' = candidates /\ prefetchSpill' = prefetchSpill
  BY DEF ForceSpillingForPrefetch
<1>2. Candidates(m, {prefetchSpill})
  BY <1>1 DEF IInv, CandidatesInv
<1>3. OutsWritten({prefetchSpill}) /\ OutsWritten(candidates')
  BY <1>1 DEF LogInv
<1> QED BY <1>1, <1>2, <1>3, EvictionLogged

\* ForceScheduleActiveOpEviction evicts a buffer that is alive or was.
LEMMA ForceEvictionLogged ==
  ASSUME IInv, LogInv, ForceScheduleActiveOpEviction
  PROVE  LogInv'
<1>1. /\ pc = "evict" /\ m.alive # {} /\ pc' = "loop"
      /\ UNCHANGED tables /\ readyDMA' = readyDMA /\ inDegree' = inDegree /\ outputOps' = outputOps
      /\ scheduled' = scheduled /\ prefetchSpill' = prefetchSpill
  BY DEF ForceScheduleActiveOpEviction
<1>2. ProgramOK /\ m \in States /\ Consistent(m) /\ Written(m)
  BY InvFacts
<1>3. PICK cached : cached = (candidates # {} /\ Last(scheduled).type = "write")
  OBVIOUS
<1>4. PICK all : all = IF cached THEN candidates ELSE {Candidate(m, b) : b \in m.alive}
  OBVIOUS
<1>5. PICK victim : victim = CHOOSE c \in all : \A d \in all \ {c} : EvictedBefore(c, d)
  OBVIOUS
<1>6. candidates' = all \ {victim} /\ m' = Evict(m, victim)
  BY <1>3, <1>4, <1>5 DEF ForceScheduleActiveOpEviction
<1>7. candidates \subseteq EvictionCandidates /\ IsFiniteSet(candidates) /\ Candidates(m, candidates)
  BY DEF IInv, CandidatesInv
<1>8. all \subseteq EvictionCandidates /\ IsFiniteSet(all) /\ Candidates(m, all) /\ all # {} /\ OutsWritten(all)
  <2>1. CASE cached
    <3>1. OutsWritten(candidates)
      BY DEF LogInv
    <3> QED BY <1>3, <1>4, <1>7, <2>1, <3>1
  <2>2. CASE ~cached
    <3>1. all = {Candidate(m, b) : b \in m.alive}
      BY <1>4, <2>2
    <3>2. all # {}
      BY <1>1, <3>1
    <3>3. /\ all \subseteq EvictionCandidates /\ IsFiniteSet(all) /\ Candidates(m, all)
          /\ \A c \in all : c.op = m.producer[c.buf]
      BY <1>2, <3>1, AliveAreCandidates
    <3>4. OutsWritten(all)
      <4>1. Logged(m, Past)
        BY DEF LogInv
      <4> QED BY <1>2, <3>3, <4>1, ProducerWrites
    <3> QED BY <3>2, <3>3, <3>4
  <2> QED BY <2>1, <2>2
<1>9. victim \in all
  BY <1>2, <1>5, <1>8, VictimChosen
<1>10. Candidates(m, {victim}) /\ OutsWritten({victim}) /\ OutsWritten(candidates')
  BY <1>6, <1>8, <1>9 DEF Candidates, OutsWritten
<1> QED BY <1>1, <1>6, <1>10, EvictionLogged

\* What scheduleOp does to the log, with the operation taken off its ready list or not.
LEMMA OpLogged ==
  ASSUME ProgramOK, NEW s \in States, Consistent(s), NEW i \in Ops, NEW t, t = ScheduleOp(s, i),
         NEW u, u = t \/ u = [t EXCEPT !.readyCompute = @ \ {i}]
  PROVE  /\ OpKeepsLog(s, u, i) /\ u.readyData = s.readyData \ NeededDeps(s, i)
         /\ \A j \in Ops : IsScheduled(u, j) => IsScheduled(s, j) \/ j \in NeededDeps(s, i) \cup {i}
<1>1. OpDone(s, t, i)
  BY OpGrows
<1>2. t \in States
  BY <1>1 DEF OpDone, Grows
<1>3. PICK left : left = t.readyCompute \ {i}
  OBVIOUS
<1>4. left \in SUBSET Ops
  BY <1>2, <1>3 DEF States
<1>5. SameRecord(t, u)
  <2>1. CASE u = t
    BY <2>1 DEF SameRecord
  <2>2. CASE u = [t EXCEPT !.readyCompute = @ \ {i}]
    <3>1. u = [t EXCEPT !.readyCompute = left]
      BY <1>3, <2>2
    <3>2. u = [gaps |-> t.gaps, addr |-> t.addr, alive |-> t.alive, spilled |-> t.spilled,
               pipelines |-> t.pipelines, beginHeap |-> t.beginHeap, readyCompute |-> left,
               readyData |-> t.readyData, producer |-> t.producer, lastUse |-> t.lastUse,
               opEnd |-> t.opEnd, deltas |-> t.deltas]
      BY <1>2, <1>4, <3>1, ReadyComputeSet
    <3> QED BY <3>2 DEF SameRecord
  <2> QED BY <2>1, <2>2
<1>6. OpKeepsLog(s, u, i)
  BY <1>1, <1>5, RecordKept DEF OpDone, OpKeepsLog
<1>7. u.readyData = s.readyData \ NeededDeps(s, i)
  BY <1>1, <1>5 DEF OpDone, SameRecord
<1>8. \A j \in Ops : IsScheduled(u, j) => IsScheduled(s, j) \/ j \in NeededDeps(s, i) \cup {i}
  BY <1>1, <1>5 DEF OpDone, Grows, SameRecord, IsScheduled
<1> QED BY <1>6, <1>7, <1>8

\* An operation of which all dependencies are done may be scheduled.
LEMMA OpFollowsLog ==
  ASSUME ProgramOK, DataOpsOK, NEW s, ReadyOK(s), Consistent(s), NEW dmas \in SUBSET OtherDMAs, NEW degree,
         NEW D \in SUBSET Ops, DoneCore(s, dmas, degree, D), NEW P, Logged(s, P), Unscheduled(s, dmas, degree),
         NEW i \in Ops \ isDataOp, ~IsScheduled(s, i), Deps(i) \subseteq D,
         NEW t, t = ScheduleOp(s, i), NEW u, u = t \/ u = [t EXCEPT !.readyCompute = @ \ {i}]
  PROVE  Logged(u, P) /\ Unscheduled(u, dmas \ {i}, degree)
<1>1. s \in States /\ s.readyData \subseteq isDataOp /\ isDataOp \subseteq Ops
  BY DEF ReadyOK, DataOpsOK
<1>2. PICK needed : needed = NeededDeps(s, i)
  OBVIOUS
<1>3. /\ OpKeepsLog(s, u, i) /\ u.readyData = s.readyData \ needed
      /\ \A j \in Ops : IsScheduled(u, j) => IsScheduled(s, j) \/ j \in needed \cup {i}
  BY <1>1, <1>2, OpLogged
<1>4. needed \subseteq isDataOp /\ needed \subseteq D /\ \A j \in needed : ~IsScheduled(s, j)
  BY <1>2, NeededAreData DEF NeededDeps
<1>5. \A j \in needed : Deps(j) \subseteq D
  BY <1>4 DEF DoneCore
<1>6. Schedulable(s, needed)
  <2>1. \A j \in needed : Deps(j) \cap isDataOp = {}
    BY <1>4 DEF DataOpsOK
  <2>2. \A d \in D \ isDataOp : IsScheduled(s, d)
    BY DEF DoneCore, ReadyFollow
  <2> QED BY <1>4, <1>5, <2>1, <2>2 DEF Schedulable
<1>7. Logged(u, P)
  BY <1>2, <1>3, <1>6 DEF OpKeepsLog
<1>8. \A j \in u.readyData \cup (dmas \ {i}) : ~IsScheduled(u, j)
  <2> SUFFICES ASSUME NEW j \in u.readyData \cup (dmas \ {i}) PROVE ~IsScheduled(u, j)
    OBVIOUS
  <2>1. j \in Ops /\ ~IsScheduled(s, j)
    BY <1>1, <1>3 DEF Unscheduled, OtherDMAs
  <2>2. j # i
    BY <1>1, <1>3
  <2>3. j \notin needed
    BY <1>3, <1>4 DEF OtherDMAs
  <2> QED BY <1>3, <2>1, <2>2, <2>3
<1>9. \A j \in Ops : IsScheduled(u, j) => degree[j] = 0
  <2> SUFFICES ASSUME NEW j \in Ops, IsScheduled(u, j) PROVE degree[j] = 0
    OBVIOUS
  <2>1. CASE IsScheduled(s, j)
    BY <2>1 DEF Unscheduled
  <2>2. CASE j \in needed \cup {i}
    <3>1. Deps(j) \ D = {}
      BY <1>5, <2>2
    <3>2. degree[j] = Cardinality(Deps(j) \ D)
      BY DEF DoneCore, Degrees
    <3> QED BY <3>1, <3>2, FS_EmptySet
  <2> QED BY <1>3, <2>1, <2>2
<1> QED BY <1>7, <1>8, <1>9 DEF Unscheduled

\* ScheduleComputeOp schedules one that was ready.
LEMMA ComputeOpLogged ==
  ASSUME IInv, LogInv, ScheduleComputeOp
  PROVE  LogInv'
<1>1. /\ pc = "compute" /\ call.todo # <<>>
      /\ m' = [ScheduleOp(m, Head(call.todo)) EXCEPT !.readyCompute = @ \ {Head(call.todo)}]
      /\ call' = [call EXCEPT !.todo = Tail(@), !.placed = @ \cup {Head(call.todo)}]
      /\ UNCHANGED tables /\ pc' = pc /\ readyDMA' = readyDMA /\ inDegree' = inDegree
      /\ outputOps' = outputOps /\ scheduled' = scheduled /\ prefetchSpill' = prefetchSpill
      /\ candidates' = candidates
  BY DEF ScheduleComputeOp
<1>2. /\ ProgramOK /\ DataOpsOK /\ ReadyOK(m) /\ m \in States /\ Consistent(m)
      /\ readyDMA \in SUBSET OtherDMAs
  BY InvFacts
<1>3. InCall /\ Trying /\ Scheduling /\ outputOps # {}
  BY <1>1 DEF InCall, Trying, Scheduling, LogInv, OutputsInv
<1>4. CallOK
  BY <1>3, InvFacts
<1>5. call.todo \in Seq(Ops)
  BY <1>3, <1>4 DEF CallOK
<1>6. PICK i : i = Head(call.todo)
  OBVIOUS
<1>7. 1 \in DOMAIN call.todo /\ i = call.todo[1] /\ i \in Ops
  BY <1>1, <1>5, <1>6, HeadAndTail
<1>8. \A k \in DOMAIN call.todo : call.todo[k] \in m.readyCompute
  BY <1>1, <1>3 DEF IInv, CallInv
<1>9. i \in m.readyCompute /\ IsCompute(i)
  BY <1>2, <1>7, <1>8 DEF ReadyOK
<1>10. i \notin isDataOp /\ i \notin readyDMA
  BY <1>2, <1>9, DataOpsAreDMAs DEF OtherDMAs
<1>11. PICK D \in SUBSET Ops : DoneInv(D)
  BY DEF IInv
<1>12. DoneCore(m, readyDMA, inDegree, D)
  BY <1>11 DEF DoneInv
<1>13. Deps(i) \subseteq D /\ ~IsScheduled(m, i)
  BY <1>9, <1>12 DEF DoneCore, ReadyFollow
<1>14. PICK t : t = ScheduleOp(m, i)
  OBVIOUS
<1>15. PICK u : u = m'
  OBVIOUS
<1>16. u = [t EXCEPT !.readyCompute = @ \ {i}]
  BY <1>1, <1>6, <1>14, <1>15
<1>17. Logged(u, Past) /\ Unscheduled(u, readyDMA \ {i}, inDegree)
  <2>1. PICK P : P = Past
    OBVIOUS
  <2>2. Logged(m, P) /\ Unscheduled(m, readyDMA, inDegree)
    BY <2>1 DEF LogInv
  <2>3. u = t \/ u = [t EXCEPT !.readyCompute = @ \ {i}]
    BY <1>16
  <2>4. i \in Ops \ isDataOp
    BY <1>7, <1>10
  <2>5. Logged(u, P) /\ Unscheduled(u, readyDMA \ {i}, inDegree)
    BY <1>2, <1>12, <1>13, <1>14, <2>2, <2>3, <2>4, OpFollowsLog
  <2> QED BY <2>1, <2>5
<1>18. readyDMA \ {i} = readyDMA
  BY <1>10
<1>19. Logged(m', Past) /\ Unscheduled(m', readyDMA', inDegree')
  BY <1>1, <1>15, <1>17, <1>18
<1>20. call'.saved = call.saved
  <2> DEFINE r == CallRec(call.todo, call.placed, call.bufs, call.alive, call.fragmented, call.saved)
  <2>1. call = r
    BY <1>4, CallIsRecord
  <2>2. call' = [r EXCEPT !.todo = Tail(call.todo), !.placed = call.placed \cup {i}]
    BY <1>1, <1>6, <2>1
  <2> QED BY <2>2 DEF CallRec
<1>21. Trying' => Logged(call'.saved, Past) /\ Unscheduled(call'.saved, readyDMA', inDegree')
  BY <1>1, <1>3, <1>20 DEF LogInv
<1>22. OutsWritten(candidates') /\ (prefetchSpill' # NoCandidate => OutsWritten({prefetchSpill'}))
  BY <1>1 DEF LogInv
<1> QED BY <1>1, <1>3, <1>19, <1>21, <1>22, UnrecordedStep

\* ScheduleDMAOp schedules one that waited.
LEMMA DMAOpLogged ==
  ASSUME IInv, LogInv, ScheduleDMAOp
  PROVE  LogInv'
<1>1. /\ pc = "dma" /\ call.todo # <<>>
      /\ m' = ScheduleOp(m, Head(call.todo))
      /\ readyDMA' = readyDMA \ {Head(call.todo)}
      /\ call' = [call EXCEPT !.todo = Tail(@), !.placed = @ \cup {Head(call.todo)}]
      /\ UNCHANGED tables /\ pc' = pc /\ inDegree' = inDegree
      /\ outputOps' = outputOps /\ scheduled' = scheduled /\ prefetchSpill' = prefetchSpill
      /\ candidates' = candidates
  BY DEF ScheduleDMAOp
<1>2. /\ ProgramOK /\ DataOpsOK /\ ReadyOK(m) /\ m \in States /\ Consistent(m)
      /\ readyDMA \in SUBSET OtherDMAs
  BY InvFacts
<1>3. InCall /\ ~Trying' /\ Scheduling /\ outputOps # {}
  BY <1>1 DEF InCall, Trying, Scheduling, LogInv, OutputsInv
<1>4. CallOK
  BY <1>3, InvFacts
<1>5. call.todo \in Seq(Ops)
  BY <1>3, <1>4 DEF CallOK
<1>6. PICK i : i = Head(call.todo)
  OBVIOUS
<1>7. /\ 1 \in DOMAIN call.todo /\ i = call.todo[1] /\ i \in Ops /\ Tail(call.todo) \in Seq(Ops)
      /\ \A k \in DOMAIN Tail(call.todo) : k + 1 \in DOMAIN call.todo /\ Tail(call.todo)[k] = call.todo[k + 1]
  BY <1>1, <1>5, <1>6, HeadAndTail
<1>8. Waiting(call.todo, readyDMA)
  BY <1>1 DEF LogInv
<1>9. i \in readyDMA /\ i \notin isDataOp /\ ~IsScheduled(m, i)
  BY <1>2, <1>7, <1>8 DEF Waiting, OtherDMAs, LogInv, Unscheduled
<1>10. PICK D \in SUBSET Ops : DoneInv(D)
  BY DEF IInv
<1>11. DoneCore(m, readyDMA, inDegree, D)
  BY <1>10 DEF DoneInv
<1>12. Deps(i) \subseteq D
  BY <1>9, <1>11 DEF DoneCore, ReadyFollow
<1>13. PICK u : u = m'
  OBVIOUS
<1>14. u = ScheduleOp(m, i)
  BY <1>1, <1>6, <1>13
<1>15. Logged(u, Past) /\ Unscheduled(u, readyDMA \ {i}, inDegree)
  <2>1. PICK P : P = Past
    OBVIOUS
  <2>2. Logged(m, P) /\ Unscheduled(m, readyDMA, inDegree)
    BY <2>1 DEF LogInv
  <2> QED BY <1>2, <1>7, <1>9, <1>11, <1>12, <1>14, <2>1, <2>2, OpFollowsLog
<1>16. Logged(m', Past) /\ Unscheduled(m', readyDMA', inDegree')
  BY <1>1, <1>6, <1>13, <1>15
<1>17. call'.todo = Tail(call.todo)
  <2> DEFINE r == CallRec(call.todo, call.placed, call.bufs, call.alive, call.fragmented, call.saved)
  <2>1. call = r
    BY <1>4, CallIsRecord
  <2>2. call' = [r EXCEPT !.todo = Tail(call.todo), !.placed = call.placed \cup {i}]
    BY <1>1, <1>6, <2>1
  <2> QED BY <2>2 DEF CallRec
<1>18. Waiting(call'.todo, readyDMA')
  <2>1. ASSUME NEW k \in DOMAIN Tail(call.todo)
        PROVE  Tail(call.todo)[k] \in readyDMA \ {i}
    <3>1. k + 1 \in DOMAIN call.todo /\ Tail(call.todo)[k] = call.todo[k + 1]
      BY <1>7
    <3>2. k \in 1 .. Len(Tail(call.todo))
      BY <1>7
    <3>3. call.todo[k + 1] # i
      BY <1>7, <1>8, <3>1, <3>2 DEF Waiting
    <3> QED BY <1>8, <3>1, <3>3 DEF Waiting
  <2>2. ASSUME NEW j \in DOMAIN Tail(call.todo), NEW k \in DOMAIN Tail(call.todo),
               Tail(call.todo)[j] = Tail(call.todo)[k]
        PROVE  j = k
    <3>1. j + 1 = k + 1
      BY <1>7, <1>8, <2>2 DEF Waiting
    <3>2. DOMAIN Tail(call.todo) = 1 .. Len(Tail(call.todo))
      BY <1>7
    <3> QED BY <3>1, <3>2
  <2> QED BY <1>1, <1>6, <1>17, <2>1, <2>2 DEF Waiting
<1>19. OutsWritten(candidates') /\ (prefetchSpill' # NoCandidate => OutsWritten({prefetchSpill'}))
  BY <1>1 DEF LogInv
<1> QED BY <1>1, <1>3, <1>16, <1>18, <1>19, UnrecordedStep

\* Prefetching schedules a data operation that was ready, or none.
LEMMA PrefetchFollowsLog ==
  ASSUME ProgramOK, DataOpsOK, NEW s, ReadyOK(s), Consistent(s), NEW dmas \in SUBSET OtherDMAs, NEW degree,
         NEW D \in SUBSET Ops, DoneCore(s, dmas, degree, D), NEW P, Logged(s, P), Unscheduled(s, dmas, degree),
         NEW op \in Ops, NEW u, u = ExecutePrefetch(s, op)
  PROVE  Logged(u, P) /\ Unscheduled(u, dmas, degree)
<1>1. s \in States /\ s.readyData \subseteq isDataOp /\ isDataOp \subseteq Ops
  BY DEF ReadyOK, DataOpsOK
<1>2. PICK new : new = {op} \cap s.readyData
  OBVIOUS
<1>3. Grows(s, u, new) /\ op \notin u.readyData
  BY <1>1, <1>2, PrefetchGrows DEF PrefetchDone
<1>4. /\ u.readyData \subseteq s.readyData /\ KeepsLog(s, u, new)
      /\ \A j \in Ops : IsScheduled(u, j) => IsScheduled(s, j) \/ j \in new
  BY <1>3 DEF Grows
<1>5. \A j \in new : j \in s.readyData /\ Deps(j) \subseteq D /\ ~IsScheduled(s, j)
  BY <1>2 DEF DoneCore, ReadyFollow, Unscheduled
<1>6. Schedulable(s, new)
  <2>1. \A j \in new : NeededDeps(s, j) = {}
    BY <1>5, NothingNeeded
  <2> QED BY <1>5, <2>1 DEF Schedulable, NeededDeps
<1>7. Logged(u, P)
  BY <1>4, <1>6 DEF KeepsLog
<1>8. \A j \in u.readyData \cup dmas : ~IsScheduled(u, j)
  <2> SUFFICES ASSUME NEW j \in u.readyData \cup dmas PROVE ~IsScheduled(u, j)
    OBVIOUS
  <2>1. j \in Ops /\ ~IsScheduled(s, j)
    BY <1>1, <1>4 DEF Unscheduled, OtherDMAs
  <2>2. j \notin new
    BY <1>1, <1>2, <1>3 DEF OtherDMAs
  <2> QED BY <1>4, <2>1, <2>2
<1>9. \A j \in Ops : IsScheduled(u, j) => degree[j] = 0
  <2> SUFFICES ASSUME NEW j \in Ops, IsScheduled(u, j) PROVE degree[j] = 0
    OBVIOUS
  <2>1. CASE IsScheduled(s, j)
    BY <2>1 DEF Unscheduled
  <2>2. CASE j \in new
    <3>1. Deps(j) \ D = {}
      BY <1>5, <2>2
    <3>2. degree[j] = Cardinality(Deps(j) \ D)
      BY DEF DoneCore, Degrees
    <3> QED BY <3>1, <3>2, FS_EmptySet
  <2> QED BY <1>4, <2>1, <2>2
<1> QED BY <1>7, <1>8, <1>9 DEF Unscheduled

\* PrefetchOp skips a candidate, takes it or stops.
LEMMA PrefetchOpLogged ==
  ASSUME IInv, LogInv, PrefetchOp
  PROVE  LogInv'
<1>1. /\ pc \in {"prefetch", "prefetchDMA"} /\ call.todo # <<>> /\ pc' = pc /\ UNCHANGED tables
      /\ TryPrefetch(Head(call.todo).op, PrefetchBuffers(m, Head(call.todo).op))
      /\ readyDMA' = readyDMA /\ inDegree' = inDegree /\ outputOps' = outputOps /\ scheduled' = scheduled
      /\ prefetchSpill' = prefetchSpill /\ candidates' = candidates
  BY DEF PrefetchOp
<1>2. InCall /\ (Trying' <=> Trying) /\ outputOps # {}
  BY <1>1 DEF InCall, Trying, LogInv, OutputsInv
<1>3. /\ ProgramOK /\ DataOpsOK /\ CallOK /\ m \in States /\ ReadyOK(m) /\ Consistent(m) /\ Written(m)
      /\ readyDMA \in SUBSET OtherDMAs
  BY <1>2, InvFacts
<1>4. PICK D \in SUBSET Ops : DoneInv(D)
  BY DEF IInv
<1>5. DoneCore(m, readyDMA, inDegree, D)
  BY <1>4 DEF DoneInv
<1>6. call.todo \in Seq(CandidateOps)
  BY <1>1, <1>3 DEF CallOK
<1>7. PICK op \in Ops : op = Head(call.todo).op
  <2>1. Head(call.todo) \in CandidateOps
    BY <1>1, <1>6, HeadAndTail
  <2> QED BY <2>1 DEF CandidateOps
<1>8. PrefetchBuffers(m, op) \in SUBSET Buffers
  <2>1. op \in m.readyData => NeededDeps(m, op) = {}
    BY <1>3, <1>5, NothingNeeded
  <2>2. PICK t : t = ExecutePrefetch(m, op)
    OBVIOUS
  <2>3. TakesPrefetch(m, t, op)
    BY <1>3, <2>1, <2>2, PrefetchTakes
  <2> QED BY <2>3 DEF TakesPrefetch
<1>9. PrefetchOutcome(op)
  <2>1. PICK own \in SUBSET Buffers : own = PrefetchBuffers(m, op)
    BY <1>8
  <2>2. TryPrefetch(op, own)
    BY <1>1, <1>7, <2>1
  <2> QED BY <1>1, <1>3, <1>6, <2>1, <2>2, PrefetchTried
<1>10. call'.saved = call.saved /\ (m' = m \/ m' = ExecutePrefetch(m, op))
  BY <1>9 DEF PrefetchOutcome, PrefetchTo, CallRec
<1>11. PICK u : u = m'
  OBVIOUS
<1>12. PICK P : P = Past
  OBVIOUS
<1>13. Logged(m, P) /\ Unscheduled(m, readyDMA, inDegree)
  BY <1>12 DEF LogInv
<1>14. Logged(u, P) /\ Unscheduled(u, readyDMA, inDegree)
  <2>1. CASE u = m
    BY <1>13, <2>1
  <2>2. CASE u = ExecutePrefetch(m, op)
    BY <1>3, <1>5, <1>13, <2>2, PrefetchFollowsLog
  <2> QED BY <1>10, <1>11, <2>1, <2>2
<1>15. Logged(m', Past) /\ Unscheduled(m', readyDMA', inDegree')
  BY <1>1, <1>11, <1>12, <1>14
<1>16. Trying' => Logged(call'.saved, Past) /\ Unscheduled(call'.saved, readyDMA', inDegree')
  BY <1>1, <1>2, <1>10 DEF LogInv
<1>17. OutsWritten(candidates') /\ (prefetchSpill' # NoCandidate => OutsWritten({prefetchSpill'}))
  BY <1>1 DEF LogInv
<1> QED BY <1>1, <1>2, <1>15, <1>16, <1>17, UnrecordedStep

\* What becomes ready waited for an operation that was not done, so it was not scheduled.
LEMMA UnlockedWait ==
  ASSUME ProgramOK, DataOpsOK, NEW s, NEW dmas, NEW degree, NEW D \in SUBSET Ops, NEW done,
         MayUnlock(s, dmas, degree, D, done), Unscheduled(s, dmas, degree),
         NEW ready, NEW others, NEW t, NEW dmas2, NEW degree2,
         Unlocks(s, dmas, degree, done, ready, others, t, dmas2, degree2)
  PROVE  Unscheduled(t, dmas2, degree2)
<1> DEFINE C == D \cup done
           data == ready \cap isDataOp
           E == C \cup data
<1>1. /\ Degrees(degree, D) /\ \A i \in D \cap isDataOp : Deps(i) \subseteq D
      /\ done \in SUBSET Ops /\ done \cap D = {} /\ done \cap isDataOp = {}
  BY DEF MayUnlock, DoneCore
<1>2. /\ ready = Unlocked(degree, done) /\ others = ReadyWith(Reduced(degree, done), ready)
      /\ dmas2 = dmas \cup {i \in others : ~IsCompute(i)}
      /\ degree2 = Reduced(Reduced(degree, done), data)
  BY DEF Unlocks
<1>3. ReadyAdded(s, t, ready, others)
  BY OthersUnlocked
<1>4. t.opEnd = s.opEnd /\ t.readyData = s.readyData \cup data
  BY <1>3 DEF ReadyAdded
<1>5. ASSUME NEW c \in Ops PROVE degree[c] = 0 <=> Deps(c) \subseteq D
  <2>1. IsFiniteSet(Deps(c) \ D)
    BY DepsAreFinite
  <2>2. degree[c] = Cardinality(Deps(c) \ D)
    BY <1>1 DEF Degrees
  <2>3. Deps(c) \ D = {} <=> Cardinality(Deps(c) \ D) = 0
    BY <2>1, FS_EmptySet
  <2> QED BY <2>2, <2>3
<1>6. \A c \in Ops : ~(Deps(c) \subseteq D) => ~IsScheduled(s, c)
  BY <1>5 DEF Unscheduled
<1>7. Degrees(Reduced(degree, done), C) /\ ready = {c \in Ops : Deps(c) \cap done # {} /\ Deps(c) \subseteq C}
  <2>1. Degrees(Reduced(degree, done), C) /\ ready = WaitingOnly(done, C)
    BY <1>1, <1>2, DegreesReduced
  <2> QED BY <2>1 DEF WaitingOnly
<1>8. \A c \in ready : c \in Ops /\ ~(Deps(c) \subseteq D)
  BY <1>1, <1>7
<1>9. data \cap C = {} /\ data \in SUBSET Ops /\ C \in SUBSET Ops
  BY <1>1, <1>8
<1> HIDE DEF C, data
<1>10. Degrees(degree2, E) /\ Unlocked(Reduced(degree, done), data) = WaitingOnly(data, E)
  BY <1>2, <1>7, <1>9, DegreesReduced
<1>11. data \cap D = {}
  BY <1>9 DEF C
<1>12. \A c \in others : c \in Ops /\ ~(Deps(c) \subseteq D)
  <2>1. others \subseteq ready \cup WaitingOnly(data, E)
    BY <1>2, <1>10 DEF ReadyWith, data
  <2>2. \A c \in WaitingOnly(data, E) : c \in Ops /\ ~(Deps(c) \subseteq D)
    BY <1>11 DEF WaitingOnly
  <2> QED BY <1>8, <2>1, <2>2
<1>13. \A j \in t.readyData \cup dmas2 : ~IsScheduled(t, j)
  <2>1. \A j \in data : j \in ready
    BY DEF data
  <2>2. \A j \in t.readyData \cup dmas2 : ~IsScheduled(s, j)
    BY <1>2, <1>4, <1>6, <1>8, <1>12, <2>1 DEF Unscheduled
  <2> QED BY <1>4, <2>2 DEF IsScheduled
<1>14. \A j \in Ops : IsScheduled(t, j) => degree2[j] = 0
  <2> SUFFICES ASSUME NEW j \in Ops, IsScheduled(t, j) PROVE degree2[j] = 0
    OBVIOUS
  <2>1. IsScheduled(s, j)
    BY <1>4 DEF IsScheduled
  <2>2. Deps(j) \subseteq D
    BY <1>6, <2>1
  <2>3. Deps(j) \ E = {}
    BY <2>2 DEF C
  <2>4. degree2[j] = Cardinality(Deps(j) \ E)
    BY <1>10 DEF Degrees
  <2> QED BY <2>3, <2>4, FS_EmptySet
<1> QED BY <1>13, <1>14 DEF Unscheduled

\* PrefetchForDMA makes ready what waited for the operations of the call.
LEMMA PrefetchForDMALogged ==
  ASSUME IInv, LogInv, PrefetchForDMA
  PROVE  LogInv'
<1>1. /\ pc = "dma" /\ pc' = "prefetchDMA" /\ UNCHANGED tables
      /\ \E dma \in {{i \in call.placed : ~IsCompute(i)}} : Unlock(m, dma)
      /\ outputOps' = outputOps /\ scheduled' = scheduled
      /\ prefetchSpill' = prefetchSpill /\ candidates' = candidates
  BY DEF PrefetchForDMA
<1>2. InCall /\ ~Trying' /\ outputOps # {}
  BY <1>1 DEF InCall, Trying, LogInv, OutputsInv
<1>3. /\ ProgramOK /\ DataOpsOK /\ CallOK /\ m \in States /\ ReadyOK(m) /\ readyDMA \in SUBSET OtherDMAs
  BY <1>2, InvFacts
<1>4. PICK D \in SUBSET Ops : DoneInv(D)
  BY DEF IInv
<1>7. DoneCore(m, readyDMA, inDegree, D) /\ CallFollows(D)
  BY <1>1, <1>4 DEF DoneInv
<1>8. PICK done : done = {i \in call.placed : ~IsCompute(i)}
  OBVIOUS
<1>9. /\ done \in SUBSET Ops /\ done \cap D = {} /\ done \cap isDataOp = {} /\ done \cap readyDMA = {}
      /\ \A i \in done : IsScheduled(m, i)
  <2>1. call.placed \subseteq Ops
    BY <1>3 DEF CallOK
  <2>2. \A i \in done : ScheduledDMA(i, D)
    BY <1>7, <1>8 DEF CallFollows
  <2> QED BY <1>8, <2>1, <2>2 DEF ScheduledDMA
<1>10. Unlock(m, done)
  BY <1>1, <1>8
<1>11. PICK ready : ready = Unlocked(inDegree, done)
  OBVIOUS
<1>12. PICK others : others = ReadyWith(Reduced(inDegree, done), ready)
  OBVIOUS
<1>14. PICK t : t = m'
  OBVIOUS
<1>15. Unlocks(m, readyDMA, inDegree, done, ready, others, t, readyDMA', inDegree')
  BY <1>10, <1>11, <1>12, <1>14 DEF Unlock, Unlocks
<1>16. MayUnlock(m, readyDMA, inDegree, D, done)
  BY <1>3, <1>7, <1>9 DEF MayUnlock
<1>17. Unscheduled(t, readyDMA', inDegree')
  <2>1. Unscheduled(m, readyDMA, inDegree)
    BY DEF LogInv
  <2> QED BY <1>3, <1>15, <1>16, <2>1, UnlockedWait
<1>18. Logged(t, Past)
  <2>1. ReadyAdded(m, t, ready, others)
    BY <1>3, <1>15, <1>16, OthersUnlocked
  <2>2. Logged(m, Past)
    BY DEF LogInv
  <2> QED BY <2>1, <2>2, SameLogged DEF ReadyAdded
<1>19. OutsWritten(candidates') /\ (prefetchSpill' # NoCandidate => OutsWritten({prefetchSpill'}))
  BY <1>1 DEF LogInv
<1> QED BY <1>1, <1>2, <1>14, <1>17, <1>18, <1>19, UnrecordedStep

\* UnscheduleAllCompletingOps makes ready what waited for the operations that have ended.
LEMMA UnscheduleLogged ==
  ASSUME IInv, LogInv, UnscheduleAllCompletingOps
  PROVE  LogInv'
<1>1. /\ pc = "loop" /\ outputOps # {} /\ m.beginHeap = {} /\ pc' = "select" /\ UNCHANGED tables
      /\ users' = [b \in Buffers |-> users[b] \ {e.op : e \in Ended}]
      /\ Unlock(FreeMemory(Ended, users'), EndedOps(Ended))
      /\ outputOps' = outputOps /\ scheduled' = scheduled /\ prefetchSpill' = prefetchSpill
      /\ candidates' = candidates
  BY DEF UnscheduleAllCompletingOps, EndedOps
<1>2. ~InCall /\ ~Trying'
  BY <1>1 DEF InCall, Trying
<1>3. /\ ProgramOK /\ DataOpsOK /\ m \in States /\ ReadyOK(m) /\ Consistent(m) /\ Written(m) /\ Memory(m, Held)
      /\ readyDMA \in SUBSET OtherDMAs /\ endHeap \in Heaps
  BY InvFacts
<1>4. Memory(m, m.alive)
  BY <1>2, <1>3 DEF Held
<1>5. PICK D \in SUBSET Ops : DoneInv(D)
  BY DEF IInv
<1>6. PICK ended : ended = Ended
  OBVIOUS
<1>7. ended \in SUBSET endHeap
  BY <1>6 DEF Ended
<1>8. PICK s : s = FreeMemory(ended, users')
  OBVIOUS
<1>9. MemoryFreed(m, s)
  <2>1. PICK left : left = users'
    OBVIOUS
  <2>2. \A b \in Buffers : left[b] = users[b] \ {e.op : e \in ended}
    BY <1>1, <1>6, <2>1
  <2>3. s = FreeMemory(ended, left)
    BY <1>8, <2>1
  <2> QED BY <1>3, <1>4, <1>7, <2>2, <2>3, MemoryIsFreed
<1>10. PICK done : done = EndedOps(ended)
  OBVIOUS
<1>11. MayUnlock(s, readyDMA, inDegree, D, done)
  BY <1>1, <1>5, <1>7, <1>9, <1>10, EndedMayUnlock
<1>12. Unlock(s, done)
  BY <1>1, <1>6, <1>8, <1>10
<1>13. PICK ready : ready = Unlocked(inDegree, done)
  OBVIOUS
<1>14. PICK others : others = ReadyWith(Reduced(inDegree, done), ready)
  OBVIOUS
<1>15. PICK t : t = m'
  OBVIOUS
<1>16. Unlocks(s, readyDMA, inDegree, done, ready, others, t, readyDMA', inDegree')
  BY <1>12, <1>13, <1>14, <1>15 DEF Unlock, Unlocks
<1>17. Unscheduled(s, readyDMA, inDegree)
  BY <1>9 DEF MemoryFreed, LogInv, Unscheduled, IsScheduled
<1>18. Unscheduled(t, readyDMA', inDegree')
  BY <1>3, <1>11, <1>16, <1>17, UnlockedWait
<1>19. Logged(t, Past)
  <2>1. ReadyAdded(s, t, ready, others)
    BY <1>3, <1>11, <1>16, OthersUnlocked
  <2>2. Logged(s, Past)
    BY <1>9 DEF MemoryFreed, LogInv
  <2> QED BY <2>1, <2>2, SameLogged DEF ReadyAdded
<1>20. OutsWritten(candidates') /\ (prefetchSpill' # NoCandidate => OutsWritten({prefetchSpill'}))
  BY <1>1 DEF LogInv
<1> QED BY <1>1, <1>2, <1>15, <1>18, <1>19, <1>20, UnrecordedStep

\* An event keeps the entry of its element.
LEMMA EventRecorded ==
  ASSUME NEW e \in Elements
  PROVE  EventEntry(Event(e)) = EntryOf(e)
<1>1. e.type \in {"original", "prefetched", "write", "read"}
  BY DEF Elements
<1>2. ASSUME NEW U PROVE BuffersOf(Located(U)) = U
  <2>1. \A b \in U : [buf |-> b, addr |-> m.addr[b]] \in Located(U)
    BY DEF Located
  <2>2. \A r \in Located(U) : r.buf \in U
    BY DEF Located
  <2>3. \A b \in U : \E r \in Located(U) : r.buf = b
    BY <2>1
  <2> QED BY <2>2, <2>3 DEF BuffersOf
<1>3. \A U, V : BuffersOf(Located(U) \cup Located(V)) = U \cup V
  <2>1. \A R, Q : BuffersOf(R \cup Q) = BuffersOf(R) \cup BuffersOf(Q)
    BY DEF BuffersOf
  <2> QED BY <1>2, <2>1
<1> DEFINE I == IF e.type = "write" THEN {e.buf} ELSE IF IsOriginal(e) THEN prog.ins[e.op] ELSE {}
           O == IF e.type = "read" THEN {e.buf} ELSE IF IsOriginal(e) THEN prog.outs[e.op] ELSE {}
<1>4. Accesses(Event(e)) = Located(I) \cup Located(O)
  BY DEF Accesses, Event
<1>5. I \cup O = IF IsOriginal(e) THEN UsedBuffers(e.op) ELSE {e.buf}
  BY <1>1 DEF IsOriginal, UsedBuffers
<1> HIDE DEF I, O
<1>6. BuffersOf(Accesses(Event(e))) = IF IsOriginal(e) THEN UsedBuffers(e.op) ELSE {e.buf}
  BY <1>3, <1>4, <1>5
<1>7. /\ Event(e).op = e.op /\ Event(e).begin = e.begin /\ Event(e).end = e.end
      /\ IsOriginal(Event(e)) = IsOriginal(e)
  BY DEF Event, IsOriginal
<1> QED BY <1>6, <1>7 DEF EventEntry, EntryOf

\* Two elements of the heap differ in what they are sorted by.
LEMMA HeapDistinct ==
  ASSUME ProgramOK, NEW s \in States, NEW P, Logged(s, P), NEW e \in s.beginHeap, NEW f \in s.beginHeap,
         e.begin = f.begin, e.op = f.op, e.buf = f.buf
  PROVE  e = f
<1>1. EntryOf(e) \in Log(s, P) /\ EntryOf(f) \in Log(s, P)
  BY DEF Log
<1>2. HeapOK(s, P) /\ EntriesOK(s, P)
  BY DEF Logged
<1>3. IsOriginal(e) <=> IsOriginal(f)
  <2>1. NoBuffer \notin Buffers
    BY DEF ProgramOK, NoBuffer
  <2> QED BY <1>2, <2>1 DEF HeapOK
<1>4. CASE IsOriginal(e)
  <2>1. EntryOf(e).original /\ EntryOf(f).original /\ EntryOf(e).op = EntryOf(f).op
    BY <1>3, <1>4 DEF EntryOf
  <2>2. EntryOf(e) = EntryOf(f)
    BY <1>1, <1>2, <2>1 DEF EntriesOK
  <2> QED BY <1>2, <2>2 DEF HeapOK
<1>5. CASE ~IsOriginal(e)
  <2>1. e.end = f.end
    BY <1>2, <1>3, <1>5 DEF HeapOK
  <2>2. IsOriginal(e) = FALSE /\ IsOriginal(f) = FALSE
    BY <1>3, <1>5 DEF IsOriginal
  <2>3. EntryOf(e) = [op |-> e.op, original |-> FALSE, begin |-> e.begin, end |-> e.end, bufs |-> {e.buf}]
    BY <2>2 DEF EntryOf
  <2>4. EntryOf(f) = [op |-> f.op, original |-> FALSE, begin |-> f.begin, end |-> f.end, bufs |-> {f.buf}]
    BY <2>2 DEF EntryOf
  <2>5. EntryOf(e) = EntryOf(f)
    BY <2>1, <2>3, <2>4
  <2> QED BY <1>2, <2>5 DEF HeapOK
<1> QED BY <1>4, <1>5

\* The order of the heap as a set of pairs.
HeapOrder(S) == {p \in S \X S : MovedBefore(p[1], p[2])}

\* Elements that differ in what they are sorted by are sorted.
LEMMA HeapSorted ==
  ASSUME ProgramOK, NEW S, S \in Heaps,
         \A e, f \in S : e.begin = f.begin /\ e.op = f.op /\ e.buf = f.buf => e = f
  PROVE  /\ Sorted(S, MovedBefore) \in Seq(S)
         /\ \A e \in S : \E k \in DOMAIN Sorted(S, MovedBefore) : Sorted(S, MovedBefore)[k] = e
<1> DEFINE R == HeapOrder(S)
<1>1. StrictOrder(R, S)
  <2>1. \A x, y \in S : <<x, y>> \in R <=>
          \/ x.begin < y.begin
          \/ /\ x.begin = y.begin
             /\ \/ x.type = "prefetched" /\ y.type # "prefetched"
                \/ /\ (x.type = "prefetched") <=> (y.type = "prefetched")
                   /\ x.op < y.op \/ (x.op = y.op /\ x.buf < y.buf)
    BY DEF HeapOrder, MovedBefore
  <2>2. \A x \in S : x.begin \in Nat /\ x.op \in Nat /\ x.buf \in Nat
    <3>1. Ops \subseteq Nat /\ Buffers \cup {NoBuffer} \subseteq Nat
      BY DEF ProgramOK, NoBuffer
    <3>2. \A x \in S : x.begin \in Nat /\ x.op \in Ops /\ x.buf \in Buffers \cup {NoBuffer}
      BY DEF Heaps, Elements
    <3> QED BY <3>1, <3>2
  <2> HIDE DEF R
  <2>3. \A x \in S : <<x, x>> \notin R
    BY <2>1, <2>2
  <2>4. ASSUME NEW x \in S, NEW y \in S PROVE x = y \/ <<x, y>> \in R \/ <<y, x>> \in R
    <3>1. x.begin \in Nat /\ x.op \in Nat /\ x.buf \in Nat /\ y.begin \in Nat /\ y.op \in Nat /\ y.buf \in Nat
      BY <2>2
    <3>2. CASE x.begin # y.begin
      BY <2>1, <3>1, <3>2
    <3>3. CASE x.begin = y.begin /\ ~((x.type = "prefetched") <=> (y.type = "prefetched"))
      BY <2>1, <3>1, <3>3
    <3>4. CASE x.begin = y.begin /\ ((x.type = "prefetched") <=> (y.type = "prefetched"))
      <4>1. x = y \/ x.op # y.op \/ x.buf # y.buf
        BY <3>4
      <4> QED BY <2>1, <3>1, <3>4, <4>1
    <3> QED BY <3>2, <3>3, <3>4
  <2>5. \A x, y, z \in S : <<x, y>> \in R /\ <<y, z>> \in R => <<x, z>> \in R
    BY <2>1, <2>2
  <2> QED BY <2>3, <2>4, <2>5 DEF StrictOrder
<1>2. \A x \in S : {y \in S : <<y, x>> \in R} = {y \in S : MovedBefore(y, x)}
  BY DEF HeapOrder
<1> HIDE DEF R
<1>3. \A x \in S : OrderRank(R, S, x) = Cardinality({y \in S : MovedBefore(y, x)})
  BY <1>2 DEF OrderRank
<1>4. \A k \in 1 .. Cardinality(S) :
        (CHOOSE x \in S : OrderRank(R, S, x) = k - 1)
        = (CHOOSE x \in S : Cardinality({y \in S : MovedBefore(y, x)}) = k - 1)
  BY <1>3
<1>5. ByRank(R, S) = Sorted(S, MovedBefore)
  <2>1. Sorted(S, MovedBefore) =
          [k \in 1 .. Cardinality(S) |-> CHOOSE x \in S : Cardinality({y \in S : MovedBefore(y, x)}) = k - 1]
    BY DEF Sorted
  <2>2. ByRank(R, S) =
          [k \in 1 .. Cardinality(S) |-> CHOOSE x \in S : OrderRank(R, S, x) = k - 1]
    BY DEF ByRank
  <2> QED BY <1>4, <2>1, <2>2
<1>6. IsFiniteSet(S)
  BY DEF Heaps
<1> QED BY <1>1, <1>5, <1>6, ByRankIsSorted

\* What the events of a sequence that goes through a set are.
LEMMA RecordsHold ==
  ASSUME NEW S, NEW q \in Seq(S), \A e \in S : \E k \in DOMAIN q : q[k] = e,
         NEW r, r = [k \in DOMAIN q |-> Event(q[k])]
  PROVE  r \in Seq({Event(e) : e \in S}) /\ ToSet(r) = {Event(e) : e \in S}
<1>1. DOMAIN q = 1 .. Len(q) /\ Len(q) \in Nat /\ \A k \in DOMAIN q : q[k] \in S
  OBVIOUS
<1>2. \A k \in DOMAIN q : Event(q[k]) \in {Event(e) : e \in S}
  BY <1>1
<1>3. r \in Seq({Event(e) : e \in S}) /\ DOMAIN r = 1 .. Len(q) /\ Len(r) = Len(q)
  BY <1>1, <1>2
<1>4. ToSet(r) = {r[k] : k \in 1 .. Len(q)}
  BY <1>3 DEF ToSet
<1>5. \A k \in 1 .. Len(q) : r[k] = Event(q[k])
  BY <1>1
<1>6. \A e \in S : Event(e) \in ToSet(r)
  BY <1>1, <1>4, <1>5
<1>7. \A x \in ToSet(r) : x \in {Event(e) : e \in S}
  BY <1>1, <1>4, <1>5
<1> QED BY <1>3, <1>6, <1>7

\* MoveFromCycleBeginToCycleEndHeap records what is in the heap.
LEMMA MoveLogged ==
  ASSUME IInv, LogInv, MoveFromCycleBeginToCycleEndHeap
  PROVE  LogInv'
<1>1. /\ pc = "loop" /\ pc' = "loop" /\ outputOps # {} /\ UNCHANGED tables /\ readyDMA' = readyDMA
      /\ inDegree' = inDegree /\ candidates' = candidates /\ prefetchSpill' = prefetchSpill
      /\ outputOps' = outputOps \ {e.op : e \in m.beginHeap}
      /\ m' = [m EXCEPT !.beginHeap = {}, !.addr = AddressesLeft(m)]
  BY DEF MoveFromCycleBeginToCycleEndHeap, AddressesLeft
<1>2. ~InCall /\ ~Trying'
  BY <1>1 DEF InCall, Trying
<1>3. ProgramOK /\ m \in States /\ Memory(m, m.alive)
  BY <1>2, InvFacts DEF Held
<1>4. Logged(m, Past) /\ Unscheduled(m, readyDMA, inDegree) /\ EventsOK /\ OutputsInv
  BY DEF LogInv
<1>5. PICK H : H = m.beginHeap
  OBVIOUS
<1>6. H \in Heaps /\ H \subseteq Elements
  BY <1>3, <1>5 DEF States, Heaps
<1>7. PICK moved : moved = Sorted(m.beginHeap, MovedBefore)
  OBVIOUS
<1>8. moved \in Seq(H) /\ \A e \in H : \E k \in DOMAIN moved : moved[k] = e
  <2>1. \A e, f \in H : e.begin = f.begin /\ e.op = f.op /\ e.buf = f.buf => e = f
    BY <1>3, <1>4, <1>5, HeapDistinct
  <2>2. moved = Sorted(H, MovedBefore)
    BY <1>5, <1>7
  <2> QED BY <1>3, <1>6, <2>1, <2>2, HeapSorted
<1>9. PICK events : events = [k \in DOMAIN moved |-> Event(moved[k])]
  OBVIOUS
<1>10. scheduled' = scheduled \o events
  BY <1>7, <1>9 DEF MoveFromCycleBeginToCycleEndHeap
<1>11. PICK New : New = {Event(e) : e \in H}
  OBVIOUS
<1>12. events \in Seq(New) /\ ToSet(events) = New
  BY <1>8, <1>9, <1>11, RecordsHold
<1>13. scheduled \in Seq(Events)
  BY <1>4 DEF EventsOK
<1>14. Events' = Events \cup New /\ scheduled' \in Seq(Events') /\ IsFiniteSet(Events')
  <2>1. PICK q : q = scheduled'
    OBVIOUS
  <2>2. ToSet(q) = ToSet(scheduled) \cup ToSet(events) /\ q \in Seq(Events \cup New)
    <3>1. q = scheduled \o events /\ events \in Seq(New)
      BY <1>10, <1>12, <2>1
    <3>2. PICK old, E : old = scheduled /\ E = Events
      OBVIOUS
    <3>3. old \in Seq(E)
      BY <1>13, <3>2
    <3>4. ToSet(old \o events) = ToSet(old) \cup ToSet(events) /\ old \o events \in Seq(E \cup New)
      BY <3>1, <3>3, AppendHolds
    <3> QED BY <3>1, <3>2, <3>4
  <2>3. q \in Seq(ToSet(q)) /\ IsFiniteSet(ToSet(q))
    BY <2>2, SeqHolds
  <2>4. Events' = ToSet(q)
    BY <2>1 DEF Events
  <2> QED BY <1>12, <2>1, <2>2, <2>3, <2>4 DEF Events
<1>15. \A a : EventEntry(a)' = EventEntry(a)
  BY DEF EventEntry, IsOriginal, BuffersOf, Accesses
<1>16. \A e \in H : EventEntry(Event(e)) = EntryOf(e)
  BY <1>6, EventRecorded
<1>17. Past' = Log(m, Past)
  <2>1. Past' = {EventEntry(a) : a \in Events \cup New}
    BY <1>14, <1>15 DEF Past
  <2>2. {EventEntry(a) : a \in New} = {EntryOf(e) : e \in H}
    BY <1>11, <1>16
  <2>3. Past' = {EventEntry(a) : a \in Events} \cup {EventEntry(a) : a \in New}
    BY <2>1
  <2> QED BY <1>5, <2>2, <2>3 DEF Past, Log
<1>18. EventsOK'
  <2>1. HeapOK(m, Past)
    BY <1>4 DEF Logged
  <2>2. \A a \in Events : EventEntry(a) \in Past
    BY DEF Past
  <2>3. \A a \in New : \E e \in H : a = Event(e) /\ EventEntry(a) = EntryOf(e)
    BY <1>11, <1>16
  <2>4. \A a \in New : EventEntry(a) \notin Past
    BY <1>5, <2>1, <2>3 DEF HeapOK
  <2>5. \A a, b \in New : EventEntry(a) = EventEntry(b) => a = b
    BY <1>5, <2>1, <2>3 DEF HeapOK
  <2>6. \A a, b \in Events : EventEntry(a) = EventEntry(b) => a = b
    BY <1>4 DEF EventsOK
  <2>7. \A a, b \in Events \cup New : EventEntry(a) = EventEntry(b) => a = b
    BY <2>2, <2>4, <2>5, <2>6
  <2> QED BY <1>14, <1>15, <2>7 DEF EventsOK
<1>19. PICK P : P = Past'
  OBVIOUS
<1>20. PICK t : t = m'
  OBVIOUS
<1>21. Moved(m, t)
  <2>1. PICK addr : addr = AddressesLeft(m)
    OBVIOUS
  <2>2. \A e \in m.beginHeap : e.type = "write" => e.buf \notin m.alive
    BY DEF IInv, WritesInv
  <2> QED BY <1>1, <1>3, <1>20, <2>1, <2>2, HeapMoved
<1>22. Log(t, P) = Log(m, Past) /\ P = Log(m, Past)
  BY <1>17, <1>19, <1>21 DEF Moved, Log
<1>23. Logged(t, P)
  <2>1. \A i : IsScheduled(t, i) <=> IsScheduled(m, i)
    BY <1>21 DEF Moved, IsScheduled
  <2>2. EntriesOK(m, Past) /\ UsesOK(m, Past)
    BY <1>4 DEF Logged
  <2>3. EntriesOK(t, P)
    BY <1>21, <1>22, <2>1, <2>2 DEF EntriesOK, Moved
  <2>4. UsesOK(t, P)
    BY <1>21, <1>22, <2>2 DEF UsesOK, Moved
  <2>5. HeapOK(t, P)
    BY <1>21 DEF HeapOK, Moved
  <2> QED BY <2>3, <2>4, <2>5 DEF Logged
<1>24. Unscheduled(t, readyDMA, inDegree)
  BY <1>4, <1>21 DEF Moved, Unscheduled, IsScheduled
<1>25. OutputsInv'
  <2>1. Ops' = Ops /\ \A i : Consumers(i)' = Consumers(i)
    BY <1>1, ProgramKept, LogKept
  <2>2. ASSUME NEW i \in Ops, Consumers(i) = {}, i \notin outputOps'
        PROVE  \E x \in P : x.original /\ x.op = i
    <3>1. CASE i \notin outputOps
      <4>1. \E x \in Past : x.original /\ x.op = i
        BY <1>4, <2>2, <3>1 DEF OutputsInv
      <4> QED BY <1>22, <4>1 DEF Log
    <3>2. CASE i \in outputOps
      <4>1. PICK e \in m.beginHeap : e.op = i
        BY <1>1, <2>2, <3>2
      <4>2. EntryOf(e) \in Log(m, Past) /\ EntryOf(e).op = i
        BY <4>1 DEF Log, EntryOf
      <4>3. IsScheduled(m, i)
        BY <1>4, <4>2 DEF Logged, EntriesOK
      <4>4. \E x \in Log(m, Past) : x.original /\ x.op = i
        BY <1>4, <4>3 DEF Logged, EntriesOK
      <4> QED BY <1>22, <4>4
    <3> QED BY <3>1, <3>2
  <2>3. m'.beginHeap = {}
    BY <1>20, <1>21 DEF Moved
  <2> QED BY <1>1, <1>19, <2>1, <2>2, <2>3 DEF OutputsInv
<1>26. OutsWritten(candidates') /\ (prefetchSpill' # NoCandidate => OutsWritten({prefetchSpill'}))
  BY <1>1 DEF LogInv
<1>27. Logged(m', P) /\ Unscheduled(m', readyDMA', inDegree')
  BY <1>1, <1>20, <1>23, <1>24
<1> QED BY <1>1, <1>2, <1>18, <1>19, <1>25, <1>26, <1>27, LogStep

\* What an event is.
LEMMA EventFacts ==
  ASSUME ProgramOK, NEW s, Logged(s, Past), NEW a \in Events
  PROVE  /\ a.op \in Nat /\ a.begin \in Nat /\ a.end \in Nat
         /\ \A r \in Accesses(a) : r.buf \in Nat
<1>1. EventEntry(a) \in Log(s, Past)
  BY DEF Log, Past
<1>2. PICK x : x = EventEntry(a)
  OBVIOUS
<1>3. x.op = a.op /\ x.begin = a.begin /\ x.end = a.end /\ x.bufs = BuffersOf(Accesses(a))
  BY <1>2 DEF EventEntry
<1>4. x.op \in Ops /\ x.begin \in Nat /\ x.end \in Nat /\ x.original \in BOOLEAN
      /\ (x.original => x.bufs = UsedBuffers(x.op))
      /\ (~x.original => \E b \in prog.outs[x.op] : x.bufs = {b})
  BY <1>1, <1>2 DEF Logged, EntriesOK
<1>5. x.bufs \subseteq Buffers
  <2>1. prog.ins[x.op] \subseteq Buffers /\ prog.outs[x.op] \subseteq Buffers
    BY <1>4 DEF ProgramOK
  <2>2. CASE x.original
    BY <1>4, <2>1, <2>2 DEF UsedBuffers
  <2>3. CASE ~x.original
    BY <1>4, <2>1, <2>3
  <2> QED BY <2>2, <2>3
<1>6. \A r \in Accesses(a) : r.buf \in Buffers
  BY <1>3, <1>5 DEF BuffersOf
<1> QED BY <1>3, <1>4, <1>6 DEF ProgramOK

\* An event uses a lower buffer than all of another event.
Lower(a, b) == \E r \in Accesses(a) : \A q \in Accesses(b) : r.buf < q.buf

\* Two events of an operation in the same cycles are spills of two buffers.
LEMMA EventsComparable ==
  ASSUME ProgramOK, NEW s, Logged(s, Past), EventsOK, NEW a \in Events, NEW b \in Events,
         a.op = b.op, a.begin = b.begin, a.end = b.end
  PROVE  a = b \/ Lower(a, b) \/ Lower(b, a)
<1>1. EventEntry(a) \in Log(s, Past) /\ EventEntry(b) \in Log(s, Past)
  BY DEF Log, Past
<1>2. PICK x, y : x = EventEntry(a) /\ y = EventEntry(b)
  OBVIOUS
<1>3. /\ x.op = a.op /\ x.end = a.end /\ x.bufs = BuffersOf(Accesses(a))
      /\ y.op = b.op /\ y.end = b.end /\ y.bufs = BuffersOf(Accesses(b))
  BY <1>2 DEF EventEntry
<1>4. /\ x.op \in Ops /\ x.original \in BOOLEAN /\ (x.original => x.bufs = UsedBuffers(x.op))
      /\ (~x.original => \E c \in prog.outs[x.op] : x.bufs = {c})
  BY <1>1, <1>2 DEF Logged, EntriesOK
<1>5. /\ y.op \in Ops /\ y.original \in BOOLEAN /\ (y.original => y.bufs = UsedBuffers(y.op))
      /\ (~y.original => \E c \in prog.outs[y.op] : y.bufs = {c})
  BY <1>1, <1>2 DEF Logged, EntriesOK
<1>6. x = y => a = b
  BY <1>2 DEF EventsOK
<1>7. x # y => x.bufs \cap y.bufs = {} /\ ~(x.original /\ y.original)
  BY <1>1, <1>2, <1>3 DEF Logged, EntriesOK
<1>8. CASE x # y
  <2>1. ~x.original /\ ~y.original
    BY <1>3, <1>4, <1>5, <1>7, <1>8 DEF UsedBuffers
  <2>2. PICK c \in prog.outs[x.op], d \in prog.outs[y.op] : x.bufs = {c} /\ y.bufs = {d}
    BY <1>4, <1>5, <2>1
  <2>3. c # d
    BY <1>7, <1>8, <2>2
  <2>4. (\E r \in Accesses(a) : r.buf = c) /\ \A r \in Accesses(a) : r.buf = c
    BY <1>3, <2>2 DEF BuffersOf
  <2>5. (\E r \in Accesses(b) : r.buf = d) /\ \A r \in Accesses(b) : r.buf = d
    BY <1>3, <2>2 DEF BuffersOf
  <2>6. c \in Nat /\ d \in Nat
    BY <2>4, <2>5, EventFacts
  <2>7. c < d \/ d < c
    BY <2>3, <2>6
  <2> QED BY <2>4, <2>5, <2>7 DEF Lower
<1> QED BY <1>6, <1>8

\* The order of the schedule as a set of pairs.
ScheduleOrder(S) == {p \in S \X S : ScheduledBefore(p[1], p[2])}

\* It orders the events.
LEMMA EventsOrdered ==
  ASSUME ProgramOK, NEW s, Logged(s, Past), EventsOK
  PROVE  StrictOrder(ScheduleOrder(Events), Events)
<1> DEFINE R == ScheduleOrder(Events)
<1>1. PICK S : S = Events
  OBVIOUS
<1>2. \A x, y \in S : <<x, y>> \in R <=>
        \/ x.begin < y.begin
        \/ x.begin = y.begin /\ x.end < y.end
        \/ x.begin = y.begin /\ x.end = y.end /\ x.op < y.op
        \/ x.begin = y.begin /\ x.end = y.end /\ x.op = y.op /\ Lower(x, y)
  BY <1>1 DEF ScheduleOrder, ScheduledBefore, Lower
<1>3. \A x \in S : x.op \in Nat /\ x.begin \in Nat /\ x.end \in Nat
  BY <1>1, EventFacts
<1>4. \A x \in S : ~Lower(x, x)
  BY <1>1, EventFacts DEF Lower
<1>5. ASSUME NEW x \in S, NEW y \in S, NEW z \in S, Lower(x, y), Lower(y, z) PROVE Lower(x, z)
  <2>1. PICK r \in Accesses(x) : \A q \in Accesses(y) : r.buf < q.buf
    BY <1>5 DEF Lower
  <2>2. PICK q \in Accesses(y) : \A p \in Accesses(z) : q.buf < p.buf
    BY <1>5 DEF Lower
  <2>3. r.buf \in Nat /\ q.buf \in Nat /\ \A p \in Accesses(z) : p.buf \in Nat
    BY <1>1, EventFacts
  <2>4. \A p \in Accesses(z) : r.buf < p.buf
    BY <2>1, <2>2, <2>3
  <2> QED BY <2>4 DEF Lower
<1>6. ASSUME NEW x \in S, NEW y \in S, x.op = y.op, x.begin = y.begin, x.end = y.end
      PROVE  x = y \/ Lower(x, y) \/ Lower(y, x)
  BY <1>1, <1>6, EventsComparable
<1> HIDE DEF R
<1>7. \A x \in S : <<x, x>> \notin R
  BY <1>2, <1>3, <1>4
<1>8. ASSUME NEW x \in S, NEW y \in S PROVE x = y \/ <<x, y>> \in R \/ <<y, x>> \in R
  <2>1. /\ x.op \in Nat /\ x.begin \in Nat /\ x.end \in Nat
        /\ y.op \in Nat /\ y.begin \in Nat /\ y.end \in Nat
    BY <1>3
  <2>2. CASE x.begin # y.begin
    BY <1>2, <2>1, <2>2
  <2>3. CASE x.begin = y.begin /\ x.end # y.end
    BY <1>2, <2>1, <2>3
  <2>4. CASE x.begin = y.begin /\ x.end = y.end /\ x.op # y.op
    BY <1>2, <2>1, <2>4
  <2>5. CASE x.begin = y.begin /\ x.end = y.end /\ x.op = y.op
    BY <1>2, <1>6, <2>5
  <2> QED BY <2>2, <2>3, <2>4, <2>5
<1>9. ASSUME NEW x \in S, NEW y \in S, NEW z \in S, <<x, y>> \in R, <<y, z>> \in R PROVE <<x, z>> \in R
  <2>1. /\ x.op \in Nat /\ x.begin \in Nat /\ x.end \in Nat
        /\ y.op \in Nat /\ y.begin \in Nat /\ y.end \in Nat
        /\ z.op \in Nat /\ z.begin \in Nat /\ z.end \in Nat
    BY <1>3
  <2>2. Lower(x, y) /\ Lower(y, z) => Lower(x, z)
    BY <1>5
  <2>3. \/ x.begin < z.begin
        \/ x.begin = z.begin /\ x.end < z.end
        \/ x.begin = z.begin /\ x.end = z.end /\ x.op < z.op
        \/ x.begin = z.begin /\ x.end = z.end /\ x.op = z.op /\ Lower(x, z)
    BY <1>2, <1>9, <2>1, <2>2
  <2> QED BY <1>2, <2>3
<1>10. StrictOrder(R, S)
  BY <1>7, <1>8, <1>9 DEF StrictOrder
<1> QED BY <1>1, <1>10 DEF R

\* Sorting the schedule keeps its events.
LEMMA ScheduleSorted ==
  ASSUME ProgramOK, NEW s, Logged(s, Past), EventsOK, NEW q, q = Sorted(Events, ScheduledBefore)
  PROVE  q \in Seq(Events) /\ ToSet(q) = Events
<1> DEFINE R == ScheduleOrder(Events)
<1>1. PICK S : S = Events
  OBVIOUS
<1>2. \A x \in S : {y \in S : <<y, x>> \in R} = {y \in S : ScheduledBefore(y, x)}
  BY <1>1 DEF ScheduleOrder
<1>3. StrictOrder(R, S) /\ IsFiniteSet(S)
  BY <1>1, EventsOrdered DEF EventsOK
<1> HIDE DEF R
<1>4. \A x \in S : OrderRank(R, S, x) = Cardinality({y \in S : ScheduledBefore(y, x)})
  BY <1>2 DEF OrderRank
<1>5. \A k \in 1 .. Cardinality(S) :
        (CHOOSE x \in S : OrderRank(R, S, x) = k - 1)
        = (CHOOSE x \in S : Cardinality({y \in S : ScheduledBefore(y, x)}) = k - 1)
  BY <1>4
<1>6. ByRank(R, S) = q
  <2>1. q = [k \in 1 .. Cardinality(S) |-> CHOOSE x \in S : Cardinality({y \in S : ScheduledBefore(y, x)}) = k - 1]
    BY <1>1 DEF Sorted
  <2>2. ByRank(R, S) = [k \in 1 .. Cardinality(S) |-> CHOOSE x \in S : OrderRank(R, S, x) = k - 1]
    BY DEF ByRank
  <2> QED BY <1>5, <2>1, <2>2
<1>7. q \in Seq(S) /\ \A x \in S : \E k \in DOMAIN q : q[k] = x
  BY <1>3, <1>6, ByRankIsSorted
<1>8. ToSet(q) \subseteq S
  BY <1>7, SeqHolds
<1>9. S \subseteq ToSet(q)
  BY <1>7 DEF ToSet
<1> QED BY <1>1, <1>7, <1>8, <1>9

\* Finish sorts the schedule.
LEMMA FinishLogged ==
  ASSUME IInv, LogInv, Finish
  PROVE  LogInv'
<1>1. /\ pc = "loop" /\ outputOps = {} /\ pc' = "done" /\ UNCHANGED tables /\ m' = m
      /\ readyDMA' = readyDMA /\ inDegree' = inDegree /\ outputOps' = outputOps
      /\ candidates' = candidates /\ prefetchSpill' = prefetchSpill
  BY DEF Finish
<1>2. Logged(m, Past) /\ Unscheduled(m, readyDMA, inDegree) /\ EventsOK /\ OutputsInv
  BY DEF LogInv
<1>3. ~Trying'
  BY <1>1 DEF Trying
<1>4. PICK q : q = scheduled'
  OBVIOUS
<1>5. q \in Seq(Events) /\ ToSet(q) = Events
  <2>1. q = Sorted(Events, ScheduledBefore)
    BY <1>4 DEF Finish, Events
  <2> QED BY <1>2, <2>1, InvFacts, ScheduleSorted
<1>6. Events' = Events /\ \A a : EventEntry(a)' = EventEntry(a)
  BY <1>4, <1>5 DEF Events, EventEntry, IsOriginal, BuffersOf, Accesses
<1>7. Past' = Past
  BY <1>6 DEF Past
<1>8. EventsOK'
  BY <1>2, <1>4, <1>5, <1>6 DEF EventsOK
<1>9. OutputsInv'
  <2>1. Ops' = Ops /\ \A i : Consumers(i)' = Consumers(i)
    BY <1>1, ProgramKept, LogKept
  <2> QED BY <1>1, <1>2, <1>7, <2>1 DEF OutputsInv
<1>10. OutsWritten(candidates') /\ (prefetchSpill' # NoCandidate => OutsWritten({prefetchSpill'}))
  BY <1>1 DEF LogInv
<1> QED BY <1>1, <1>2, <1>3, <1>7, <1>8, <1>9, <1>10, LogStep

\* Doing nothing records nothing.
LEMMA StutterLogged ==
  ASSUME LogInv, UNCHANGED vars
  PROVE  LogInv'
<1>1. /\ UNCHANGED tables /\ m' = m /\ pc' = pc /\ call' = call /\ candidates' = candidates
      /\ prefetchSpill' = prefetchSpill /\ readyDMA' = readyDMA /\ inDegree' = inDegree
      /\ outputOps' = outputOps /\ scheduled' = scheduled
  BY DEF vars, tables
<1>2. Trying' <=> Trying
  BY <1>1 DEF Trying
<1>3. Events' = Events /\ \A e : EventEntry(e)' = EventEntry(e)
  BY <1>1 DEF Events, EventEntry, IsOriginal, BuffersOf, Accesses
<1>4. Past' = Past
  BY <1>3 DEF Past
<1>5. EventsOK'
  BY <1>1, <1>3 DEF LogInv, EventsOK
<1>6. OutputsInv'
  <2>1. Ops' = Ops /\ \A i : Consumers(i)' = Consumers(i)
    BY <1>1, ProgramKept, LogKept
  <2> QED BY <1>1, <1>4, <2>1 DEF LogInv, OutputsInv
<1>7. Logged(m', Past) /\ Unscheduled(m', readyDMA', inDegree')
  BY <1>1 DEF LogInv
<1>8. Trying' => Logged(call'.saved, Past) /\ Unscheduled(call'.saved, readyDMA', inDegree')
  BY <1>1, <1>2 DEF LogInv
<1>9. pc' = "dma" => Waiting(call'.todo, readyDMA')
  BY <1>1 DEF LogInv
<1>10. OutsWritten(candidates') /\ (prefetchSpill' # NoCandidate => OutsWritten({prefetchSpill'}))
  BY <1>1 DEF LogInv
<1> QED BY <1>1, <1>4, <1>5, <1>6, <1>7, <1>8, <1>9, <1>10, LogStep

\* The log of the state before anything is scheduled is empty.
LEMMA FreshLogged ==
  ASSUME NEW s, s = Fresh
  PROVE  Logged(s, {})
<1>1. s.beginHeap = {} /\ s.opEnd = [i \in Ops |-> 0] /\ s.spilled = [b \in Buffers |-> 0]
      /\ s.producer = [b \in Buffers |-> 0]
  BY DEF Fresh
<1>2. Log(s, {}) = {}
  BY <1>1 DEF Log
<1>3. \A i \in Ops : ~IsScheduled(s, i)
  BY <1>1 DEF IsScheduled
<1>4. EntriesOK(s, {})
  BY <1>2, <1>3 DEF EntriesOK
<1>5. UsesOK(s, {})
  BY <1>1, <1>2 DEF UsesOK
<1>6. HeapOK(s, {})
  BY <1>1 DEF HeapOK
<1> QED BY <1>4, <1>5, <1>6 DEF Logged

\* The initial states satisfy the invariant of the schedule.
LEMMA InitLogged ==
  ASSUME Init
  PROVE  LogInv
<1>1. /\ outputOps = {i \in Ops : Consumers(i) = {}} /\ pc = "loop" /\ scheduled = <<>>
      /\ prefetchSpill = NoCandidate /\ candidates = {} /\ prog \in Programs /\ isDataOp = IdentifyDataOps
  BY DEF Init
<1>2. IInv
  BY InitEstablishes
<1>3. ProgramOK /\ DataOpsOK /\ readyDMA \in SUBSET OtherDMAs /\ ReadyOK(m)
  BY <1>2, InvFacts
<1>4. ~Trying
  BY <1>1 DEF Trying
<1>5. PICK degree : degree = [i \in Ops |-> Cardinality(Deps(i))]
  OBVIOUS
<1>6. PICK ready : ready = {i \in Ops : Deps(i) = {}}
  OBVIOUS
<1>7. PICK others : others = ReadyWith(degree, ready)
  OBVIOUS
<1>8. PICK D : D = ready \cap isDataOp
  OBVIOUS
<1>9. m = AddReady(Fresh, ready, others)
  BY <1>5, <1>6, <1>7 DEF Init
<1>10. ready \in SUBSET Ops /\ others \in SUBSET Ops
  <2>1. InitReady(D, ready, others)
    BY <1>3, <1>5, <1>6, <1>7, <1>8, InitDegrees
  <2> QED BY <1>6, <2>1 DEF InitReady, WaitingOnly
<1>11. PICK s : s = Fresh
  OBVIOUS
<1>12. FreshOK(s) /\ Logged(s, {})
  BY <1>3, <1>11, FreshState, FreshLogged
<1>13. ReadyAdded(s, m, ready, others)
  BY <1>9, <1>10, <1>11, <1>12, ReadyListsGrow DEF FreshOK
<1>14. Logged(m, {}) /\ m.beginHeap = {} /\ \A i \in Ops : ~IsScheduled(m, i)
  <2>1. Logged(m, {})
    BY <1>12, <1>13, SameLogged DEF ReadyAdded
  <2>2. m.beginHeap = {} /\ \A i \in Ops : ~IsScheduled(m, i)
    BY <1>12, <1>13 DEF ReadyAdded, FreshOK, IsScheduled
  <2> QED BY <2>1, <2>2
<1>15. Unscheduled(m, readyDMA, inDegree)
  <2>1. m.readyData \subseteq Ops /\ readyDMA \subseteq Ops
    BY <1>3 DEF ReadyOK, DataOpsOK, OtherDMAs
  <2> QED BY <1>14, <2>1 DEF Unscheduled
<1>16. Events = {} /\ Past = {}
  <2>1. Events = {}
    BY <1>1 DEF Events, ToSet
  <2> QED BY <2>1 DEF Past
<1>17. EventsOK
  <2>1. scheduled \in Seq(Events)
    BY <1>1
  <2> QED BY <1>16, <2>1, FS_EmptySet DEF EventsOK
<1>18. OutputsInv
  BY <1>1, <1>14 DEF OutputsInv
<1> QED BY <1>1, <1>4, <1>14, <1>15, <1>16, <1>17, <1>18 DEF LogInv, OutsWritten

\* Every step keeps it.
LEMMA StepLogged ==
  ASSUME IInv, LogInv, [Next]_vars
  PROVE  LogInv'
<1>1. CASE UNCHANGED vars
  BY <1>1, StutterLogged
<1>2. CASE MoveFromCycleBeginToCycleEndHeap
  BY <1>2, MoveLogged
<1>3. CASE UnscheduleAllCompletingOps
  BY <1>3, UnscheduleLogged
<1>4. CASE SelectComputeOps
  BY <1>4, SelectComputeOpsLogged
<1>5. CASE ScheduleComputeOp
  BY <1>5, ComputeOpLogged
<1>6. CASE PrefetchForCompute
  BY <1>6, PrefetchForComputeLogged
<1>7. CASE PrefetchOp
  BY <1>7, PrefetchOpLogged
<1>8. CASE EndPrefetch
  BY <1>8, EndPrefetchLogged
<1>9. CASE SelectDMAOps
  BY <1>9, SelectDMAOpsLogged
<1>10. CASE ScheduleDMAOp
  BY <1>10, DMAOpLogged
<1>11. CASE PrefetchForDMA
  BY <1>11, PrefetchForDMALogged
<1>12. CASE AllocateBuffers
  BY <1>12, AllocateBuffersLogged
<1>13. CASE ForceSpillingForPrefetch
  BY <1>13, ForceSpillingLogged
<1>14. CASE ForceScheduleActiveOpEviction
  BY <1>14, ForceEvictionLogged
<1>15. CASE NothingToSpill \/ NoEviction
  BY <1>15, NoEvictionLogged
<1>16. CASE Finish
  BY <1>16, FinishLogged
<1> QED
  BY <1>1, <1>2, <1>3, <1>4, <1>5, <1>6, <1>7, <1>8, <1>9, <1>10, <1>11, <1>12, <1>13, <1>14, <1>15, <1>16 DEF Next

\* When the scheduler stops, every operation is in the schedule: the last one that is
\* not has no consumer, since what a scheduled operation depends on was scheduled.
LEMMA AllScheduled ==
  ASSUME IInv, LogInv, pc = "done", NEW i \in Ops
  PROVE  \E x \in Past : x.original /\ x.op = i
<1>1. ProgramOK
  BY InvFacts
<1>2. outputOps = {} /\ m.beginHeap = {} /\ Logged(m, Past)
  BY DEF LogInv, OutputsInv
<1>3. Log(m, Past) = Past
  BY <1>2 DEF Log
<1> DEFINE Found(j) == \E x \in Past : x.original /\ x.op = j
           Lost == {j \in Ops : ~Found(j)}
<1>4. \A j \in Ops : IsScheduled(m, j) => Found(j)
  BY <1>2, <1>3 DEF Logged, EntriesOK
<1>5. \A j \in Ops : Consumers(j) = {} => Found(j)
  BY <1>2 DEF LogInv, OutputsInv
<1>6. ASSUME NEW c \in Ops, Found(c), NEW j \in Deps(c) PROVE IsScheduled(m, j)
  <2>1. PICK x \in Past : x.original /\ x.op = c
    BY <1>6
  <2> QED BY <1>2, <1>3, <1>6, <2>1 DEF Logged, EntriesOK
<1>7. IsFiniteSet(Ops) /\ Ops \subseteq Nat /\ \A j \in Ops : \A d \in Deps(j) : d < j
  BY <1>1 DEF ProgramOK
<1> HIDE DEF Found
<1>8. ASSUME Lost # {} PROVE FALSE
  <2>1. IsFiniteSet(Lost) /\ Lost \subseteq Int
    <3>1. Lost \in SUBSET Ops
      OBVIOUS
    <3> HIDE DEF Lost
    <3>2. IsFiniteSet(Lost)
      BY <1>7, <3>1, FS_Subset
    <3> QED BY <1>7, <3>1, <3>2
  <2>2. PICK j \in Lost : \A k \in Lost : k <= j
    <3> HIDE DEF Lost
    <3> QED BY <1>8, <2>1, MaxIsGreatest
  <2>3. j \in Ops /\ ~Found(j)
    OBVIOUS
  <2>4. PICK c \in Ops : j \in Deps(c)
    BY <1>5, <2>3 DEF Consumers
  <2>5. c \notin Lost
    BY <1>7, <2>2, <2>4
  <2>6. Found(c)
    BY <2>4, <2>5
  <2> QED BY <1>4, <1>6, <2>3, <2>4, <2>6
<1>9. Found(i)
  BY <1>8
<1> QED BY <1>9 DEF Found

\* What the invariants say of a finished schedule.
LEMMA ScheduleFollows ==
  ASSUME IInv, LogInv
  PROVE  OpsFollowDeps
<1> SUFFICES ASSUME pc = "done", NEW i \in Ops
             PROVE  /\ Cardinality(OriginalEvents(i)) = 1
                    /\ \A e \in OriginalEvents(i), d \in Deps(i) :
                         \A f \in OriginalEvents(d) : f.end <= e.begin
  BY DEF OpsFollowDeps
<1>1. EntriesOK(m, Past) /\ EventsOK /\ m.beginHeap = {}
  BY DEF LogInv, Logged, OutputsInv
<1>2. Log(m, Past) = Past
  BY <1>1 DEF Log
<1>3. ASSUME NEW e \in Events
      PROVE  /\ EventEntry(e) \in Past /\ EventEntry(e).op = e.op /\ EventEntry(e).begin = e.begin
             /\ EventEntry(e).end = e.end /\ (EventEntry(e).original <=> IsOriginal(e))
  BY DEF Past, EventEntry
<1>4. Cardinality(OriginalEvents(i)) = 1
  <2>1. PICK x \in Past : x.original /\ x.op = i
    BY AllScheduled
  <2>2. PICK e \in Events : x = EventEntry(e)
    BY DEF Past
  <2>3. e \in OriginalEvents(i)
    BY <1>3, <2>1, <2>2 DEF OriginalEvents
  <2>4. ASSUME NEW f \in OriginalEvents(i) PROVE f = e
    <3>1. f \in Events /\ IsOriginal(f) /\ f.op = i
      BY DEF OriginalEvents
    <3>2. EventEntry(f) \in Past /\ EventEntry(f).original /\ EventEntry(f).op = i
      BY <1>3, <3>1
    <3>3. EventEntry(f) = EventEntry(e)
      BY <1>1, <1>2, <2>1, <2>2, <3>2 DEF EntriesOK
    <3> QED BY <1>1, <3>1, <3>3 DEF EventsOK
  <2>5. OriginalEvents(i) = {e}
    BY <2>3, <2>4
  <2> QED BY <2>5, FS_Singleton
<1>5. ASSUME NEW e \in OriginalEvents(i), NEW d \in Deps(i), NEW f \in OriginalEvents(d)
      PROVE  f.end <= e.begin
  <2>1. e \in Events /\ IsOriginal(e) /\ e.op = i /\ f \in Events /\ IsOriginal(f) /\ f.op = d
    BY DEF OriginalEvents
  <2>2. PICK x, y : x = EventEntry(e) /\ y = EventEntry(f)
    OBVIOUS
  <2>3. /\ x \in Past /\ x.original /\ x.op = i /\ x.begin = e.begin
        /\ y \in Past /\ y.original /\ y.op = d /\ y.end = f.end
    BY <1>3, <2>1, <2>2
  <2>4. y.end <= x.begin
    BY <1>1, <1>2, <2>3 DEF EntriesOK
  <2> QED BY <2>3, <2>4
<1> QED BY <1>4, <1>5

\* Every operation is scheduled exactly once, whatever was evicted, rolled back and
\* tried again, and begins after all it depends on has ended.
THEOREM ScheduleCorrect == Spec => []OpsFollowDeps
<1>1. Init => IInv /\ LogInv
  BY InitEstablishes, InitLogged
<1>2. IInv /\ LogInv /\ [Next]_vars => IInv' /\ LogInv'
  BY StepKeeps, StepLogged
<1>3. IInv /\ LogInv => OpsFollowDeps
  BY ScheduleFollows
<1> QED BY <1>1, <1>2, <1>3, PTL DEF Spec
=============================================================================
