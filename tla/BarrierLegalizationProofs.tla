---------------------- MODULE BarrierLegalizationProofs ----------------------
(***************************************************************************)
(* Proofs about BarrierLegalization, for every schedule and every number   *)
(* of PIDs.                                                                *)
(***************************************************************************)
EXTENDS BarrierLegalization, BarrierSimulatorProofs, SequenceTheorems

-----------------------------------------------------------------------------
(***************************************************************************)
(* Ranks: how Shrink and updateNextReal number the PIDs.                   *)
(***************************************************************************)
Rank(S, r) == Cardinality({q \in S : q < r})

\* The members of a finite set of numbers have the ranks 0, 1, 2, ..., in their order.
LEMMA Ranks ==
  ASSUME NEW S \in SUBSET Nat, IsFiniteSet(S)
  PROVE  /\ Cardinality(S) \in Nat
         /\ \A r \in Nat : Rank(S, r) \in Nat
         /\ \A r \in S : Rank(S, r) < Cardinality(S)
         /\ \A q, r \in S : Rank(S, q) = Rank(S, r) => q = r
         /\ \A i \in 0 .. Cardinality(S) - 1 : \E r \in S : Rank(S, r) = i
<1> DEFINE Below(r) == {q \in S : q < r}
<1>1. \A r : IsFiniteSet(Below(r)) /\ Cardinality(Below(r)) \in Nat
  BY FS_Subset, FS_CardinalityType
<1>2. Cardinality(S) \in Nat
  BY FS_CardinalityType
<1>3. ASSUME NEW r \in S PROVE Cardinality(Below(r)) < Cardinality(S)
  <2>1. Below(r) \in SUBSET S /\ Below(r) # S
    OBVIOUS
  <2>2. Cardinality(Below(r)) <= Cardinality(S) /\ (Cardinality(S) = Cardinality(Below(r)) => S = Below(r))
    BY <2>1, FS_Subset, Zenon
  <2> QED BY <1>1, <1>2, <2>1, <2>2
<1>4. ASSUME NEW q \in S, NEW r \in S, q < r PROVE Cardinality(Below(q)) < Cardinality(Below(r))
  <2>1. Below(q) \in SUBSET Below(r) /\ Below(q) # Below(r)
    <3>1. q \in Below(r) /\ q \notin Below(q)
      BY <1>4
    <3>2. \A x \in S : x < q => x < r
      BY <1>4
    <3> QED BY <3>1, <3>2
  <2>2. /\ Cardinality(Below(q)) <= Cardinality(Below(r))
        /\ Cardinality(Below(r)) = Cardinality(Below(q)) => Below(r) = Below(q)
    BY <1>1, <2>1, FS_Subset, Zenon
  <2> QED BY <1>1, <2>1, <2>2
<1>5. \A q, r \in S : Cardinality(Below(q)) = Cardinality(Below(r)) => q = r
  <2> SUFFICES ASSUME NEW q \in S, NEW r \in S, Cardinality(Below(q)) = Cardinality(Below(r)) PROVE q = r
    OBVIOUS
  <2>1. q \in Nat /\ r \in Nat /\ ~(q < r) /\ ~(r < q)
    <3>1. Cardinality(Below(q)) \in Nat /\ Cardinality(Below(r)) \in Nat
      BY <1>1
    <3> HIDE DEF Below
    <3> QED BY <1>4, <3>1
  <2> QED BY <2>1
<1>6. ASSUME NEW i \in 0 .. Cardinality(S) - 1 PROVE \E r \in S : Cardinality(Below(r)) = i
  <2> DEFINE T == 0 .. Cardinality(S) - 1
             f == [r \in S |-> Cardinality(Below(r))]
  <2>1. \A r \in S : f[r] \in T
    BY <1>1, <1>2, <1>3
  <2>2. f \in Injection(S, T)
    BY <1>5, <2>1 DEF Injection, IsInjective
  <2>3. IsFiniteSet(T) /\ Cardinality(T) = Cardinality(S)
    BY <1>2, FS_Interval
  <2> HIDE DEF f, T
  <2>4. f \in Surjection(S, T)
    BY <2>2, <2>3, FS_Injection
  <2> QED BY <2>4 DEF Surjection, f, T
<1> QED BY <1>1, <1>2, <1>3, <1>5, <1>6 DEF Rank

\* The first k members of a set.
LEMMA FirstRanks ==
  ASSUME NEW S \in SUBSET Nat, IsFiniteSet(S), NEW k \in Nat
  PROVE  LET D == {r \in S : Rank(S, r) < k}
         IN  /\ Cardinality(D) = IF k <= Cardinality(S) THEN k ELSE Cardinality(S)
             /\ k > Cardinality(S) => D = S
<1> DEFINE D == {r \in S : Rank(S, r) < k}
           m == IF k <= Cardinality(S) THEN k ELSE Cardinality(S)
           T == 0 .. m - 1
           f == [r \in D |-> Rank(S, r)]
<1>1. Cardinality(S) \in Nat /\ m \in Nat
  BY Ranks
<1>2. IsFiniteSet(T) /\ Cardinality(T) = m
  <2> HIDE DEF m
  <2>1. 0 \in Int /\ m - 1 \in Int /\ (IF 0 > m - 1 THEN 0 ELSE (m - 1) - 0 + 1) = m
    BY <1>1
  <2> QED BY <2>1, FS_Interval
<1>3. \A r \in S : Rank(S, r) \in Nat /\ Rank(S, r) < Cardinality(S)
  BY Ranks
<1>4. \A r \in D : f[r] \in T /\ r \in S
  BY <1>1, <1>3
<1>5. \A q, r \in D : f[q] = f[r] => q = r
  BY Ranks
<1>6. f \in Injection(D, T)
  <2>1. f \in [D -> T]
    BY <1>4
  <2> QED BY <1>5, <2>1 DEF Injection, IsInjective
<1>7. \A i \in T : \E r \in D : f[r] = i
  BY <1>1, Ranks
<1>8. f \in Surjection(D, T)
  <2>1. f \in [D -> T]
    BY <1>4
  <2> QED BY <1>7, <2>1 DEF Surjection
<1>9. Cardinality(D) = m
  <2> HIDE DEF f, D, T
  <2> QED BY <1>2, <1>6, <1>8, FS_Injection
<1>10. k > Cardinality(S) => D = S
  <2> SUFFICES ASSUME k > Cardinality(S), NEW r \in S PROVE Rank(S, r) < k
    OBVIOUS
  <2>1. Rank(S, r) \in Nat /\ Rank(S, r) < Cardinality(S)
    BY <1>3
  <2> QED BY <1>1, <2>1
<1> QED BY <1>9, <1>10

\* The ring that updateNextReal builds holds each free PID once.
LEMMA RingEnumerates ==
  ASSUME NEW tv, DOMAIN tv \in SUBSET Nat, IsFiniteSet(DOMAIN tv)
  PROVE  /\ RingOf(tv) \in Seq(DOMAIN tv)
         /\ NoRepeats(RingOf(tv))
         /\ \A r : InSeq(r, RingOf(tv)) <=> r \in DOMAIN tv /\ tv[r] = None
<1> DEFINE free == {r \in DOMAIN tv : tv[r] = None}
           n == Cardinality(free)
           At(i) == CHOOSE r \in free : Rank(free, r) = i - 1
           ring == [i \in 1 .. n |-> At(i)]
<1>1. free \in SUBSET Nat /\ free \in SUBSET DOMAIN tv /\ IsFiniteSet(free)
  BY FS_Subset
<1>2. RingOf(tv) = ring
  BY DEF RingOf, Rank
<1>3. ASSUME NEW i \in 1 .. n PROVE At(i) \in free /\ Rank(free, At(i)) = i - 1
  <2>1. n \in Nat
    BY <1>1, Ranks
  <2>2. i - 1 \in 0 .. n - 1
    BY <2>1
  <2> HIDE DEF free
  <2>3. \E r \in free : Rank(free, r) = i - 1
    BY <1>1, <2>2, Ranks
  <2> QED BY <2>3
<1>4. ASSUME NEW r \in free PROVE Rank(free, r) + 1 \in 1 .. n /\ At(Rank(free, r) + 1) = r
  <2>1. Rank(free, r) \in Nat /\ Rank(free, r) < n /\ n \in Nat
    BY <1>1, Ranks
  <2>2. Rank(free, r) + 1 \in 1 .. n /\ (Rank(free, r) + 1) - 1 = Rank(free, r)
    BY <2>1
  <2>3. At(Rank(free, r) + 1) \in free /\ Rank(free, At(Rank(free, r) + 1)) = Rank(free, r)
    BY <1>3, <2>2
  <2> HIDE DEF At, free
  <2>4. \A p, q \in free : Rank(free, p) = Rank(free, q) => p = q
    BY <1>1, Ranks
  <2> QED BY <2>2, <2>3, <2>4
<1>5. n \in Nat
  BY <1>1, Ranks
<1>6. ring \in Seq(DOMAIN tv) /\ DOMAIN ring = 1 .. n
  <2>1. \A i \in 1 .. n : At(i) \in DOMAIN tv
    BY <1>1, <1>3
  <2> HIDE DEF At, free, n
  <2> QED BY <1>5, <2>1
<1> HIDE DEF At, free, n
<1>7. NoRepeats(ring)
  <2> SUFFICES ASSUME NEW i \in 1 .. n, NEW j \in 1 .. n, At(i) = At(j) PROVE i = j
    BY <1>6 DEF NoRepeats
  <2>1. i - 1 = j - 1
    BY <1>3
  <2> QED BY <2>1
<1>8. \A r : InSeq(r, ring) <=> r \in free
  BY <1>3, <1>4, <1>6 DEF InSeq
<1> QED BY <1>2, <1>6, <1>7, <1>8 DEF free

\* Erasing some PIDs moves each of the others down by the erased ones below it.
LEMMA EraseKeepsOthers ==
  ASSUME NEW n \in Nat, NEW f, DOMAIN f = 0 .. n - 1, NEW S \in SUBSET (0 .. n - 1)
  PROVE  /\ Cardinality(S) \in Nat /\ Cardinality(S) <= n
         /\ DOMAIN Erase(f, S) = 0 .. (n - Cardinality(S)) - 1
         /\ \A r \in DOMAIN f \ S : /\ r - Rank(S, r) \in DOMAIN Erase(f, S)
                                    /\ Erase(f, S)[r - Rank(S, r)] = f[r]
         /\ \A i \in DOMAIN Erase(f, S) : \E r \in DOMAIN f \ S : i = r - Rank(S, r)
<1> DEFINE all == 0 .. n - 1
           kept == all \ S
           m == Cardinality(kept)
           At(i) == CHOOSE r \in kept : Rank(kept, r) = i
<1>1. IsFiniteSet(all) /\ Cardinality(all) = n
  <2>1. 0 \in Int /\ n - 1 \in Int /\ (IF 0 > n - 1 THEN 0 ELSE (n - 1) - 0 + 1) = n
    OBVIOUS
  <2> QED BY <2>1, FS_Interval
<1>2. /\ IsFiniteSet(S) /\ Cardinality(S) \in Nat /\ Cardinality(S) <= n
      /\ IsFiniteSet(kept) /\ m = n - Cardinality(S) /\ m \in Nat
  <2>0. S \in SUBSET all /\ all \cap S = S
    OBVIOUS
  <2> HIDE DEF all
  <2>1. IsFiniteSet(S) /\ Cardinality(S) <= Cardinality(all)
    BY <1>1, <2>0, FS_Subset
  <2>2. Cardinality(S) \in Nat
    BY <2>1, FS_CardinalityType
  <2>4. IsFiniteSet(kept) /\ Cardinality(kept) = Cardinality(all) - Cardinality(all \cap S)
    BY <1>1, FS_Difference
  <2>5. Cardinality(kept) = n - Cardinality(S)
    BY <1>1, <2>0, <2>4
  <2>6. Cardinality(S) <= n
    BY <1>1, <2>1
  <2> HIDE DEF kept
  <2>7. Cardinality(kept) \in Nat
    BY <2>2, <2>5, <2>6
  <2> QED BY <2>1, <2>2, <2>4, <2>5, <2>6, <2>7
<1>3. ASSUME NEW r \in all PROVE Rank(kept, r) = r - Rank(S, r)
  <2> DEFINE low == {q \in all : q < r}
             lowS == {q \in S : q < r}
  <2>1. low = 0 .. r - 1
    OBVIOUS
  <2>2. IsFiniteSet(low) /\ Cardinality(low) = r
    <3>1. 0 \in Int /\ r - 1 \in Int /\ (IF 0 > r - 1 THEN 0 ELSE (r - 1) - 0 + 1) = r
      OBVIOUS
    <3> QED BY <2>1, <3>1, FS_Interval
  <2>3. low \cap lowS = lowS /\ {q \in kept : q < r} = low \ lowS
    OBVIOUS
  <2> HIDE DEF low, lowS, kept, all
  <2>4. Cardinality(low \ lowS) = Cardinality(low) - Cardinality(low \cap lowS)
    BY <2>2, FS_Difference
  <2> QED BY <2>2, <2>3, <2>4 DEF Rank, lowS
<1>4. kept \in SUBSET Nat /\ kept = DOMAIN f \ S
  OBVIOUS
<1>5. DOMAIN Erase(f, S) = 0 .. m - 1 /\ \A i \in 0 .. m - 1 : Erase(f, S)[i] = f[At(i)]
  BY DEF Erase, Rank
<1> HIDE DEF kept, m, all, At
<1>6. ASSUME NEW r \in kept PROVE Rank(kept, r) \in 0 .. m - 1 /\ At(Rank(kept, r)) = r
  <2>1. Rank(kept, r) \in Nat /\ Rank(kept, r) < m
    BY <1>2, <1>4, Ranks DEF m
  <2>2. At(Rank(kept, r)) \in kept /\ Rank(kept, At(Rank(kept, r))) = Rank(kept, r)
    BY DEF At
  <2>3. \A p, q \in kept : Rank(kept, p) = Rank(kept, q) => p = q
    BY <1>2, <1>4, Ranks
  <2> QED BY <1>2, <2>1, <2>2, <2>3
<1>7. \A i \in 0 .. m - 1 : \E r \in kept : Rank(kept, r) = i
  BY <1>2, <1>4, Ranks DEF m
<1>8. \A r \in kept : r \in all
  BY DEF kept
<1>9. 0 .. m - 1 = 0 .. (n - Cardinality(S)) - 1
  BY <1>2
<1>10. ASSUME NEW r \in kept
       PROVE  r - Rank(S, r) \in 0 .. m - 1 /\ Erase(f, S)[r - Rank(S, r)] = f[r]
  BY <1>3, <1>5, <1>6, <1>8
<1>11. ASSUME NEW i \in 0 .. m - 1 PROVE \E r \in kept : i = r - Rank(S, r)
  BY <1>3, <1>7, <1>8
<1> QED BY <1>2, <1>4, <1>5, <1>9, <1>10, <1>11

-----------------------------------------------------------------------------
(***************************************************************************)
(* What one state of a simulation leaves possible.  Without WLM a state    *)
(* is what has been done: b VIDs have been mapped and all tasks but P have *)
(* run.  Who is active then, what can be done next and whether the         *)
(* NumPids PIDs of the hardware leave anything to do depends on nothing    *)
(* else, neither on the PIDs chosen nor on the order of the steps before.  *)
(***************************************************************************)
ActiveAt(b, P) == {v \in Vids(prog) : v < b /\ (Consumers(v) = {} \/ Consumers(v) \cap P # {})}
CanMap(b, P) == b < prog.numBarriers /\ Cardinality(ActiveAt(b, P)) < NumPids
CanRun(t, b, P) ==
  /\ \A v \in Vids(prog) : Uses(t, v) => v < b
  /\ \A u \in P : ~DirectlyBefore(prog, u, t)

\* Something is left, but neither a VID can be mapped nor a task run.
DeadEnd(b, P) ==
  /\ b < prog.numBarriers \/ P # {}
  /\ ~CanMap(b, P)
  /\ \A t \in P : ~CanRun(t, b, P)
HasDeadEnd == \E b \in 0 .. prog.numBarriers, P \in SUBSET Tasks(prog) : DeadEnd(b, P)

\* No step so far was one that a dead end has still to make: the simulation has
\* passed none, and can reach any of them only by going on from here.
DeadEndsAhead ==
  \A b \in 0 .. prog.numBarriers, P \in SUBSET Tasks(prog) :
    DeadEnd(b, P) => bar <= b /\ (stage # "parse" => P \subseteq Pending)

\* The PIDs are held by the mapped VIDs that have consumers left or never had any.
ActiveOK ==
  /\ UsersPending
  /\ \A v \in Vids(prog) : v < bar => realId[v] # None
  /\ \A v \in Vids(prog) : v < bar /\ Consumers(v) = {} => OnItsPid(v)
  /\ \A r \in Pids : toVirtual[r] # None /\ Consumers(toVirtual[r]) # {} =>
                       consumerCount[toVirtual[r]] # 0

\* What both simulations keep, with however many PIDs.
Simulation ==
  /\ mode = "dynamic"
  /\ SimOK /\ SlotInv /\ QueuesInOrder /\ SimOrder
  /\ ActiveOK /\ WhyStuck
  /\ Size \in Nat /\ Pids = 0 .. Size - 1

\* A PID that was added is programmed in the next iteration.
RoomToGrow ==
  stage \in {"loop", "map"} /\ Exceeding =>
    FreePids = {} \/ (bar < prog.numBarriers /\ Cardinality(FreePids) = 1)

\* The first PID that is added leads to the first batch.
BatchFollows ==
  Exceeding /\ batches = <<>> =>
    stage \in {"loop", "map"} /\ (stage = "loop" => bar < prog.numBarriers)

BatchesOK ==
  /\ batches \in Seq(SUBSET Vids(prog))
  /\ \A i \in 1 .. Len(batches) : Cardinality(batches[i]) > NumPids

Legalizing ==
  /\ Simulation /\ Size >= NumPids
  /\ stage = "parse" => ~Exceeding
  /\ RoomToGrow /\ BatchFollows
  /\ batches = <<>> /\ ~Exceeding => DeadEndsAhead
  /\ batches # <<>> \/ Exceeding => HasDeadEnd
  /\ result = "success" => ~HasDeadEnd
  /\ result = "exceeds" => HasDeadEnd
  /\ result \in {"none", "success", "exceeds"}
  /\ result = "none" => stage # "done"

Assigning ==
  /\ Simulation /\ Size = NumPids
  /\ DeadEndsAhead
  /\ verdict = "success" => ~HasDeadEnd
  /\ verdict = "exceeds" => HasDeadEnd
  /\ verdict \in {"success", "exceeds"}
  /\ result = "success" => ~HasDeadEnd
  /\ result = "blocked" => HasDeadEnd

\* The inductive invariant of the two runs.
LegalInv ==
  /\ prog \in Programs /\ mode \in {"dynamic", "wlm"}
  /\ run \in {"legalize", "assign"}
  /\ result # "throw" /\ verdict # "throw"
  /\ mode = "dynamic" => BatchesOK
  /\ mode = "dynamic" /\ run = "legalize" => Legalizing
  /\ mode = "dynamic" /\ run = "assign" => Assigning
  /\ run = "assign" => BaseInv /\ SlotInv

-----------------------------------------------------------------------------
(***************************************************************************)
(* The PIDs in use.                                                        *)
(***************************************************************************)
LEMMA PidsFinite ==
  ASSUME Simulation
  PROVE  /\ IsFiniteSet(Pids) /\ Pids \in SUBSET Nat /\ Size \in Nat
         /\ IsFiniteSet(FreePids) /\ FreePids \in SUBSET Nat /\ Cardinality(FreePids) \in Nat
         /\ Cardinality(FreePids) = 0 <=> FreePids = {}
<1>1. IsFiniteSet(Pids) /\ Pids \in SUBSET Nat /\ Size \in Nat
  <2>1. Size \in Nat /\ Pids = 0 .. Size - 1
    BY DEF Simulation
  <2>2. 0 \in Int /\ Size - 1 \in Int
    BY <2>1
  <2>3. IsFiniteSet(0 .. Size - 1)
    BY <2>2, FS_Interval
  <2> QED BY <2>1, <2>3
<1>2. FreePids \in SUBSET Pids
  BY DEF FreePids
<1>3. IsFiniteSet(FreePids)
  BY <1>1, <1>2, FS_Subset
<1> QED BY <1>1, <1>2, <1>3, FS_CardinalityType, FS_EmptySet

\* No two PIDs hold the same VID, so those that are not free hold as many as they are.
LEMMA ActiveCount ==
  ASSUME Simulation
  PROVE  /\ IsFiniteSet(ActiveVids) /\ Cardinality(ActiveVids) \in Nat
         /\ Cardinality(ActiveVids) = Size - Cardinality(FreePids)
         /\ Cardinality(FreePids) <= Size
<1> DEFINE used == Pids \ FreePids
           f == [r \in used |-> toVirtual[r]]
<1>1. /\ IsFiniteSet(used) /\ Cardinality(used) = Size - Cardinality(FreePids)
      /\ Cardinality(FreePids) <= Size
  <2>1. IsFiniteSet(Pids) /\ FreePids \in SUBSET Pids /\ Pids \cap FreePids = FreePids
    BY PidsFinite DEF FreePids
  <2>2. Cardinality(FreePids) <= Cardinality(Pids)
    BY <2>1, FS_Subset
  <2>3. IsFiniteSet(Pids \ FreePids) /\ Cardinality(Pids \ FreePids) = Cardinality(Pids) - Cardinality(Pids \cap FreePids)
    BY <2>1, FS_Difference
  <2> QED BY <2>1, <2>2, <2>3 DEF Size
<1>2. \A r \in used : f[r] = toVirtual[r] /\ f[r] \in ActiveVids
  BY DEF FreePids, ActiveVids
<1>3. \A v \in ActiveVids : \E r \in used : f[r] = v
  BY DEF FreePids, ActiveVids
<1>4. \A q, r \in used : f[q] = f[r] => q = r
  <2>1. \A r \in Pids : toVirtual[r] # None => realId[toVirtual[r]] = r
    BY DEF Simulation, SimOK, MappingInv, MappingsAgree, Mismatch
  <2> QED BY <2>1 DEF FreePids
<1>5. f \in Injection(used, ActiveVids) /\ f \in Surjection(used, ActiveVids)
  <2>1. f \in [used -> ActiveVids]
    BY <1>2
  <2> QED BY <1>3, <1>4, <2>1 DEF Injection, IsInjective, Surjection
<1> HIDE DEF f, used
<1>6. IsFiniteSet(ActiveVids) /\ Cardinality(ActiveVids) = Cardinality(used)
  BY <1>1, <1>5, FS_Surjection
<1> QED BY <1>1, <1>6, FS_CardinalityType

\* The VIDs that hold PIDs depend on what has been done only.
LEMMA ActiveNow ==
  ASSUME Simulation, stage # "task"
  PROVE  ActiveVids = ActiveAt(bar, Pending)
<1>1. /\ SimOK /\ SlotInv /\ ActiveOK /\ Types /\ CountsOK /\ Dynamic
      /\ MappingsAgree /\ UnconsumedKeepPid
  BY DEF Simulation, SimOK, SlotInv, MappingInv, Dynamic
<1>2. \A v \in Vids(prog) : v \in Nat /\ v # None
  BY <1>1 DEF Types, WellFormed, Vids, None
<1>3. ASSUME NEW r \in Pids, toVirtual[r] # None
      PROVE  toVirtual[r] \in ActiveAt(bar, Pending)
  <2> DEFINE v == toVirtual[r]
  <2>1. v \in Vids(prog) /\ r \in Nat /\ r # None /\ bar \in Nat
    BY <1>1, <1>3 DEF Types, None
  <2>2. realId[v] = r
    BY <1>1, <1>3 DEF MappingsAgree, Mismatch
  <2>3. v < bar
    BY <1>1, <1>2, <2>1, <2>2 DEF UnconsumedKeepPid
  <2>4. ASSUME Consumers(v) # {} PROVE Consumers(v) \cap Pending # {}
    <3>1. consumerCount[v] # 0
      BY <1>1, <1>3, <2>4 DEF ActiveOK
    <3>2. WaitingOn(v) # {}
      BY <1>1, <2>1, <3>1, SumEmpty DEF CountsOK
    <3> QED BY <3>2 DEF WaitingOn, Consumers, Pending
  <2> QED BY <2>1, <2>3, <2>4 DEF ActiveAt
<1>4. ASSUME NEW v \in Vids(prog), v < bar, Consumers(v) = {} \/ Consumers(v) \cap Pending # {}
      PROVE  OnItsPid(v)
  <2>1. CASE Consumers(v) = {}
    BY <1>1, <1>4, <2>1 DEF ActiveOK
  <2>2. CASE Consumers(v) # {}
    <3>1. PICK c \in Consumers(v) : c \in Pending
      BY <1>4, <2>2
    <3>2. consumerCount[v] # 0
      BY <1>1, <3>1, PendingConsumer
    <3> QED BY <1>1, <1>4, <3>2 DEF UnconsumedKeepPid, ActiveOK, OnItsPid
  <2> QED BY <2>1, <2>2
<1>5. \A v \in ActiveAt(bar, Pending) : v \in ActiveVids
  BY <1>2, <1>4 DEF ActiveAt, OnItsPid, ActiveVids
<1>6. \A v \in ActiveVids : v \in ActiveAt(bar, Pending)
  BY <1>3 DEF ActiveVids
<1> QED BY <1>5, <1>6

\* With more tasks left there are as many active VIDs, or more.
LEMMA ActiveGrow ==
  ASSUME WellFormed(prog), NEW b \in Nat, NEW P, NEW Q, P \subseteq Q
  PROVE  /\ Cardinality(ActiveAt(b, P)) \in Nat /\ Cardinality(ActiveAt(b, Q)) \in Nat
         /\ Cardinality(ActiveAt(b, P)) <= Cardinality(ActiveAt(b, Q))
<1>1. IsFiniteSet(Vids(prog))
  <2>1. prog.numBarriers \in Nat
    BY DEF WellFormed
  <2>2. 0 \in Int /\ prog.numBarriers - 1 \in Int
    BY <2>1
  <2> QED BY <2>2, FS_Interval DEF Vids
<1>2. ActiveAt(b, P) \in SUBSET ActiveAt(b, Q) /\ ActiveAt(b, Q) \in SUBSET Vids(prog)
  BY DEF ActiveAt
<1>3. IsFiniteSet(ActiveAt(b, Q))
  BY <1>1, <1>2, FS_Subset
<1>4. IsFiniteSet(ActiveAt(b, P)) /\ Cardinality(ActiveAt(b, P)) <= Cardinality(ActiveAt(b, Q))
  BY <1>2, <1>3, FS_Subset
<1> QED BY <1>3, <1>4, FS_CardinalityType

-----------------------------------------------------------------------------
(***************************************************************************)
(* Blocked schedules.                                                      *)
(***************************************************************************)

\* Between two tasks, one that is not blocked by what is left is next in its FIFO,
\* and processSim runs it.
LEMMA ReadyIfCanRun ==
  ASSUME prog \in Programs, Simulation, stage = "fifos", NEW t \in Pending, CanRun(t, bar, Pending)
  PROVE  /\ prog.fifo[t] \in 1 .. NumFifos /\ ~FifoComplete(prog.fifo[t])
         /\ Task(prog.fifo[t]) = t /\ TaskReady(t)
<1> DEFINE f == prog.fifo[t]
<1>1. /\ SimOK /\ SlotInv /\ QueuesInOrder /\ ActiveOK /\ Types /\ CountsOK /\ Dynamic
      /\ UnconsumedKeepPid /\ UnproducedKeepPid
      /\ pos \in [1 .. NumFifos -> Nat \ {0}] /\ bar \in Nat
  BY DEF Simulation, SimOK, SlotInv, MappingInv, Dynamic, Types
<1>2. t \in Tasks(prog) /\ f \in 1 .. NumFifos /\ WellFormed(prog) /\ ControlsOrdered(prog)
  BY <1>1, ProgramsAssumption, ControlsAssumption DEF Pending, WellFormed
<1>3. \A u \in Tasks(prog) : u \in Nat /\ prog.count[u] \in Nat \ {0}
  BY <1>2 DEF Tasks, WellFormed
<1>4. ~FifoComplete(f)
  <2>1. PICK i \in 1 .. Len(queue[f]) : pos[f] <= i
    BY DEF Pending, StillQueued
  <2>2. pos[f] \in Nat /\ Len(queue[f]) \in Nat
    <3>1. queue[f] \in Seq(Tasks(prog)) /\ pos[f] \in Nat \ {0}
      BY <1>1, <1>2 DEF Types
    <3> QED BY <3>1
  <2> QED BY <2>1, <2>2 DEF FifoComplete
<1>5. Task(f) = t
  <2>1. /\ Task(f) \in Tasks(prog) /\ prog.fifo[Task(f)] = f /\ Task(f) \in Pending
        /\ ~(t < Task(f))
    BY <1>1, <1>2, <1>4, NextOfFifo
  <2>2. ~(Task(f) < t)
    BY <1>2, <2>1 DEF CanRun, DirectlyBefore
  <2> QED BY <1>2, <1>3, <2>1, <2>2
<1>6. ASSUME NEW v \in Vids(prog), Uses(t, v) PROVE v < bar /\ realId[v] # None
  BY <1>1, <1>2, <1>6 DEF CanRun, ActiveOK
<1>7. ASSUME NEW v \in Vids(prog), InSeq(v, Waits(t)) PROVE realId[v] \in Pids /\ producerCount[v] = 0
  <2>1. t \in Consumers(v) /\ realId[v] # None
    BY <1>2, <1>6, <1>7 DEF Consumers, Uses
  <2>2. realId[v] \in Pids
    <3>1. consumerCount[v] # 0
      BY <1>1, <2>1, PendingConsumer
    <3> QED BY <1>1, <2>1, <3>1 DEF UnconsumedKeepPid
  <2>3. StillToPost(v) = {}
    <3> SUFFICES ASSUME NEW u \in StillToPost(v) PROVE FALSE
      OBVIOUS
    <3>1. u \in Pending /\ u \in Tasks(prog) /\ InSeq(v, Posts(u))
      BY DEF StillToPost, Pending
    <3>2. u < t
      BY <1>2, <1>7, <3>1 DEF ControlsOrdered, Waits, Posts
    <3>3. DirectlyBefore(prog, u, t)
      BY <1>7, <3>1, <3>2 DEF DirectlyBefore, Waits, Posts
    <3> QED BY <3>1, <3>3 DEF CanRun
  <2> QED BY <1>1, <2>2, <2>3, SumEmpty DEF CountsOK
<1>8. ASSUME NEW v \in Vids(prog), InSeq(v, Posts(t)) PROVE realId[v] \in Pids
  <2>1. t \in StillToPost(v) /\ realId[v] # None
    BY <1>6, <1>8 DEF StillToPost, Produced, Uses
  <2>2. StillToPost(v) \in SUBSET Tasks(prog) /\ producerCount[v] = Sum(prog.count, StillToPost(v))
    BY <1>1, LeftAreTasks DEF CountsOK
  <2>3. producerCount[v] # 0
    <3>1. prog.count[t] <= Sum(prog.count, StillToPost(v)) /\ Sum(prog.count, StillToPost(v)) \in Nat
      BY <1>1, <2>1, <2>2, SlotSums
    <3> QED BY <1>2, <1>3, <2>2, <3>1
  <2> QED BY <1>1, <2>1, <2>3 DEF UnproducedKeepPid
<1>9. TaskReady(t)
  <2>1. /\ DOMAIN Waits(t) = 1 .. Len(Waits(t)) /\ \A i \in DOMAIN Waits(t) : Waits(t)[i] \in Vids(prog)
        /\ DOMAIN Posts(t) = 1 .. Len(Posts(t)) /\ \A i \in DOMAIN Posts(t) : Posts(t)[i] \in Vids(prog)
    BY <1>1, <1>2, TaskBarrierLists
  <2>2. /\ \A i \in DOMAIN Waits(t) : InSeq(Waits(t)[i], Waits(t))
        /\ \A i \in DOMAIN Posts(t) : InSeq(Posts(t)[i], Posts(t))
    BY DEF InSeq
  <2>3. /\ \A i \in DOMAIN Waits(t) : realId[Waits(t)[i]] \in Pids /\ producerCount[Waits(t)[i]] = 0
        /\ \A i \in DOMAIN Posts(t) : realId[Posts(t)[i]] \in Pids
    BY <1>7, <1>8, <2>1, <2>2
  <2> QED BY <1>1, <2>3 DEF TaskReady, IsBarrierMapped
<1> QED BY <1>2, <1>4, <1>5, <1>9

\* A VID can be mapped without WLM if there is one and a PID is free.
LEMMA CanMapWhenFree ==
  ASSUME Simulation, bar < prog.numBarriers
  PROVE  HasBarrierToMap <=> FreePids # {}
<1>1. /\ mode = "dynamic" /\ Dynamic /\ RingHoldsFreePids /\ nextReal \in Seq(Pids)
  BY DEF Simulation, SimOK, MappingInv, Dynamic, Types
<1>2. Acceptable = 1 .. Len(nextReal) /\ DOMAIN nextReal = 1 .. Len(nextReal)
  BY <1>1 DEF Acceptable
<1>3. \A i \in 1 .. Len(nextReal) : nextReal[i] \in FreePids
  BY <1>1 DEF RingHoldsFreePids, FreePids, InSeq
<1>4. \A r \in FreePids : \E i \in 1 .. Len(nextReal) : nextReal[i] = r
  BY <1>1, <1>2 DEF RingHoldsFreePids, FreePids, InSeq
<1> QED BY <1>1, <1>2, <1>3, <1>4 DEF HasBarrierToMap

\* An iteration that changed nothing has used all PIDs and is in a dead end, with
\* VIDs left: a schedule whose VIDs are all mapped is never blocked.
LEMMA BlockedIsDeadEnd ==
  ASSUME prog \in Programs, Simulation, IterationDone, ~progressed, Size >= NumPids
  PROVE  /\ bar < prog.numBarriers /\ FreePids = {}
         /\ DeadEnd(bar, Pending)
<1>1. /\ stage = "fifos" /\ fifo > NumFifos /\ SomethingLeft /\ ~HasBarrierToMap
      /\ \A g \in 1 .. NumFifos : g < fifo => FifoComplete(g) \/ ~TaskReady(Task(g))
  BY DEF Simulation, WhyStuck, IterationDone
<1>2. /\ Types /\ WellFormed(prog) /\ QueuesInOrder /\ bar \in Nat /\ fifo \in 1 .. NumFifos + 1
      /\ pos \in [1 .. NumFifos -> Nat \ {0}]
  BY DEF Simulation, SimOK, Types
<1>3. ASSUME NEW t \in Pending PROVE ~CanRun(t, bar, Pending)
  <2> SUFFICES ASSUME CanRun(t, bar, Pending) PROVE FALSE
    OBVIOUS
  <2>1. /\ prog.fifo[t] \in 1 .. NumFifos /\ ~FifoComplete(prog.fifo[t])
        /\ Task(prog.fifo[t]) = t /\ TaskReady(t)
    BY <1>1, ReadyIfCanRun
  <2>2. prog.fifo[t] < fifo
    BY <1>1, <1>2, <2>1, NumFifosAssumption
  <2> QED BY <1>1, <2>1, <2>2
<1>4. bar < prog.numBarriers
  <2> SUFFICES ASSUME ~(bar < prog.numBarriers) PROVE FALSE
    OBVIOUS
  <2>1. PICK f \in 1 .. NumFifos : ~FifoComplete(f)
    BY <1>1 DEF SomethingLeft
  <2>2. Pending # {} /\ Pending \in SUBSET (0 .. prog.numTasks) /\ prog.numTasks \in Nat
    <3>1. Task(f) \in Pending
      BY <1>2, <2>1, NextOfFifo
    <3> QED BY <1>2, <3>1, SmallNumbers DEF Pending
  <2>3. PICK t \in Pending : \A u \in Pending : t <= u
    BY <2>2, Extremes
  <2>4. \A u \in Pending : ~(u < t)
    BY <2>2, <2>3
  <2>5. \A v \in Vids(prog) : v < bar
    BY <1>2 DEF Vids, WellFormed
  <2>6. CanRun(t, bar, Pending)
    BY <2>4, <2>5 DEF CanRun, DirectlyBefore
  <2> QED BY <1>3, <2>6
<1>5. FreePids = {}
  BY <1>1, <1>4, CanMapWhenFree
<1>6. ~CanMap(bar, Pending)
  <2>1. /\ Cardinality(ActiveVids) = Size - Cardinality(FreePids) /\ Cardinality(FreePids) = 0
        /\ Size \in Nat
    BY <1>5, PidsFinite, ActiveCount
  <2>2. ActiveVids = ActiveAt(bar, Pending)
    BY <1>1, ActiveNow
  <2> QED BY <2>1, <2>2, NumPidsAssumption DEF CanMap
<1> QED BY <1>3, <1>4, <1>5, <1>6 DEF DeadEnd

-----------------------------------------------------------------------------
(***************************************************************************)
(* Steps that both simulations take.                                       *)
(***************************************************************************)
CommonStep ==
  \/ ParseTask \/ BeginIteration \/ MapBarrier \/ BeginTask \/ NextFifo
  \/ ConsumeBarrier \/ ProduceBarrier \/ EndTask

\* They keep the types with any set of PIDs.
LEMMA TypesCommon ==
  ASSUME Types, ControlOK, Dynamic, CommonStep
  PROVE  Types' /\ ControlOK' /\ Pids' = Pids
<1>1. CASE BeginIteration
  BY <1>1, Zenon DEF Types, Pids, ControlOK, BeginIteration, Stages, parsed, mapping, Vids, Tasks
<1>2. CASE ParseTask
  <2>1. step \in Tasks(prog) /\ prog.fifo[step] \in 1 .. NumFifos /\ prog.count[step] \in Nat
    BY <1>2 DEF ParseTask, Types, WellFormed
  <2>2. queue' \in [1 .. NumFifos -> Seq(Tasks(prog))]
    BY <1>2, <2>1 DEF ParseTask, Types
  <2>3. consumerCount' \in [Vids(prog) -> Nat] /\ producerCount' \in [Vids(prog) -> Nat]
    <3>1. ASSUME NEW slots \in [Vids(prog) -> Nat], NEW users
          PROVE  AddSlots(slots, users) \in [Vids(prog) -> Nat]
      BY <2>1 DEF AddSlots
    <3> QED BY <1>2, <3>1 DEF ParseTask, Types
  <2>4. step' \in Nat
    BY <1>2 DEF ParseTask, Types
  <2> QED BY <1>2, <2>2, <2>3, <2>4 DEF ParseTask, Types, Pids, ControlOK, mapping
<1>3. CASE MapBarrier
  <2> DEFINE k == Min(Acceptable)
  <2>1. MapDynamic /\ HasBarrierToMap /\ bar \in Vids(prog)
    BY <1>3, NextVidExists DEF MapBarrier, MapInstance, MapStatic, Dynamic
  <2>2. k \in 1 .. Len(nextReal) /\ nextReal[k] \in Pids
    BY <2>1, RingPick
  <2> HIDE DEF k
  <2>3. /\ nextReal' = TakeFromRing(nextReal, k)
        /\ realId' = [realId EXCEPT ![bar] = nextReal[k]]
        /\ toVirtual' = [toVirtual EXCEPT ![nextReal[k]] = bar]
    BY <2>1 DEF MapDynamic, Program, k
  <2>4. Pids' = Pids
    BY <2>3 DEF Pids
  <2>5. /\ nextReal' \in Seq(Pids)
        /\ realId' \in [Vids(prog) -> Nat \cup {None}]
        /\ toVirtual' \in [Pids -> Vids(prog) \cup {None}]
    BY <2>1, <2>2, <2>3, TakeFromRingKeepsOthers DEF Types
  <2>6. bar' \in Nat /\ mode # "static"
    BY <1>3 DEF MapBarrier, Types, Dynamic
  <2> QED BY <1>3, <2>4, <2>5, <2>6 DEF MapBarrier, Types, ControlOK, parsed
<1>4. CASE BeginTask
  BY <1>4, NumFifosAssumption DEF Types, Pids, ControlOK, BeginTask, HeadCanRun, FifoComplete, Stages, parsed, mapping
<1>5. CASE NextFifo
  BY <1>5, NumFifosAssumption DEF Types, Pids, ControlOK, NextFifo, parsed, mapping
<1>6. CASE EndTask
  <2>1. pos' \in [1 .. NumFifos -> Nat \ {0}]
    <3>1. pos \in [1 .. NumFifos -> Nat \ {0}] /\ fifo \in 1 .. NumFifos
      BY <1>6 DEF EndTask, Types, ControlOK
    <3>2. pos[fifo] + 1 \in Nat \ {0}
      BY <3>1
    <3>3. pos' = [pos EXCEPT ![fifo] = pos[fifo] + 1]
      BY <1>6 DEF EndTask
    <3> QED BY <3>1, <3>2, <3>3, Zenon
  <2> QED BY <1>6, <2>1 DEF Types, Pids, ControlOK, EndTask, Stages, parsed, mapping
<1>7. CASE ConsumeBarrier
  <2>1. /\ consumerCount' \in [Vids(prog) -> Nat]
        /\ toVirtual' \in [Pids -> Vids(prog) \cup {None}] /\ Pids' = Pids
        /\ nextReal' \in Seq(Pids)
    <3>1. /\ consumerCount \in [Vids(prog) -> Nat]
          /\ toVirtual \in [Pids -> Vids(prog) \cup {None}]
          /\ nextReal \in Seq(Pids)
      BY DEF Types
    <3>2. ASSUME NEW v \in Vids(prog), realId[v] \in Pids,
                 \/ /\ \E c \in Nat \ {0} : consumerCount' = [consumerCount EXCEPT ![v] = c]
                    /\ toVirtual' = toVirtual /\ nextReal' = nextReal
                 \/ /\ consumerCount' = [consumerCount EXCEPT ![v] = 0]
                    /\ toVirtual' = [toVirtual EXCEPT ![realId[v]] = None]
                    /\ nextReal' = IF Dynamic THEN Append(nextReal, realId[v]) ELSE nextReal
          PROVE  /\ consumerCount' \in [Vids(prog) -> Nat]
                 /\ toVirtual' \in [Pids -> Vids(prog) \cup {None}] /\ Pids' = Pids
                 /\ nextReal' \in Seq(Pids)
      <4>1. consumerCount' \in [Vids(prog) -> Nat]
        BY <3>1, <3>2
      <4>2. toVirtual' \in [Pids -> Vids(prog) \cup {None}] /\ Pids' = Pids
        BY <3>1, <3>2 DEF Pids
      <4>3. nextReal' \in Seq(Pids)
        <5>1. Append(nextReal, realId[v]) \in Seq(Pids)
          BY <3>1, <3>2
        <5> QED BY <3>1, <3>2, <5>1, Zenon
      <4> QED BY <4>1, <4>2, <4>3
    <3>3. CASE UNCHANGED <<consumerCount, toVirtual, nextReal>>
      BY <3>1, <3>3 DEF Pids
    <3> QED BY <1>7, <3>2, <3>3, ConsumeEffect, Zenon
  <2>2. stage' \in Stages /\ step' \in Nat
        /\ (stage' = "task" => step' \in Nat \ {0}) /\ stage' # "pages"
    BY <1>7, ConsumeEffect DEF Types, Stages
  <2>3. stage = "task"
    BY <1>7 DEF ConsumeBarrier
  <2> QED BY <1>7, <2>1, <2>2, <2>3 DEF ConsumeBarrier, Types, ControlOK
<1>8. CASE ProduceBarrier
  <2> DEFINE j == step - Len(Waits(HeadTask))
             v == Posts(HeadTask)[j]
             n == prog.count[HeadTask]
  <2>1. stage = "task" /\ step > Len(Waits(HeadTask))
        /\ step <= Len(Waits(HeadTask)) + Len(Posts(HeadTask))
    BY <1>8 DEF ProduceBarrier
  <2>2. v \in Vids(prog) /\ n \in Nat \ {0} /\ step \in Nat \ {0}
    <3>1. \A u, w \in Seq(Vids(prog)) : \A i \in Nat \ {0} :
            i > Len(u) /\ i <= Len(u) + Len(w) => w[i - Len(u)] \in Vids(prog)
      OBVIOUS
    <3> QED BY <2>1, <3>1, HeadTaskType, Zenon
  <2> HIDE DEF v, n
  <2>3. producerCount' \in [Vids(prog) -> Nat]
    BY <1>8, <2>2, SMTT(30) DEF ProduceBarrier, Types, v, n
  <2>4. stage' \in Stages /\ step' \in Nat \ {0} /\ stage' # "pages"
    BY <1>8, <2>1, <2>2 DEF ProduceBarrier, ContinueIf, Types, Stages
  <2> QED BY <1>8, <2>1, <2>3, <2>4 DEF ProduceBarrier, Types, Pids, ControlOK, mapping
<1> QED BY <1>1, <1>2, <1>3, <1>4, <1>5, <1>6, <1>7, <1>8 DEF CommonStep

\* They keep the mapping and the slots.
LEMMA SimulatorCommon ==
  ASSUME SimOK, SlotInv, Dynamic, CommonStep
  PROVE  SimOK' /\ SlotInv' /\ Pids' = Pids
<1>1. Types' /\ ControlOK' /\ Pids' = Pids
  BY TypesCommon DEF SimOK
<1>2. MappingInv'
  <2>1. CASE BeginIteration \/ BeginTask \/ NextFifo \/ EndTask
    <3>1. /\ stage' \notin {"parse", "pages"}
          /\ UNCHANGED <<prog, mode, consumerCount, bar, realId, toVirtual, nextReal, pidQueue>>
      BY <2>1 DEF BeginIteration, BeginTask, NextFifo, EndTask, parsed, mapping
    <3> QED BY <3>1, MappingQuiet DEF SimOK
  <2>2. CASE ProduceBarrier
    <3>1. /\ stage' \notin {"parse", "pages"}
          /\ UNCHANGED <<prog, mode, consumerCount, bar, realId, toVirtual, nextReal, pidQueue>>
      BY <2>2 DEF ProduceBarrier, ContinueIf, mapping
    <3> QED BY <3>1, MappingQuiet DEF SimOK
  <2>3. CASE MapBarrier
    <3>1. MapDynamic
      BY <2>3 DEF MapBarrier, MapInstance, MapStatic, Dynamic
    <3> QED BY <2>3, <3>1, MappingDynamic DEF SimOK
  <2> QED BY <2>1, <2>2, <2>3, MappingParse, MappingConsume DEF SimOK, CommonStep
<1>3. SlotInv'
  BY SlotsParse, SlotsBetween, SlotsBegin, SlotsConsume, SlotsProduce, SlotsEnd DEF CommonStep
<1> QED BY <1>1, <1>2, <1>3 DEF SimOK

\* A step that leaves the mapping and the tasks alone leaves the users alone.
LEMMA ActiveQuiet ==
  ASSUME prog \in Programs, Simulation,
         UNCHANGED <<prog, queue, pos, bar, realId, toVirtual, consumerCount>>,
         stage' # "parse", stage = "parse" => step > prog.numTasks
  PROVE  ActiveOK'
<1>1. \A t \in Tasks(prog) : Parsed(t)
  BY AllParsed DEF Simulation
<1>2. Pending' = Pending /\ Pids' = Pids
  BY DEF Pending, StillQueued, Pids
<1>3. UsersPending'
  BY <1>1, <1>2 DEF Simulation, ActiveOK, UsersPending, Uses, Waits, Posts
<1>4. \A v : Consumers(v)' = Consumers(v) /\ OnItsPid(v)' = OnItsPid(v)
  BY <1>2 DEF Consumers, Waits, OnItsPid
<1> QED BY <1>2, <1>3, <1>4 DEF Simulation, ActiveOK

LEMMA ActiveParse ==
  ASSUME Simulation, SimOK', SlotInv', QueuesInOrder', ParseTask
  PROVE  ActiveOK'
<1>1. UNCHANGED <<prog, bar, realId, toVirtual>> /\ consumerCount' = AddSlots(consumerCount, Waits(step))
      /\ step \in Tasks(prog)
  BY DEF ParseTask, mapping
<1>2. \A t \in Tasks(prog) : Parsed(t)' => t \in Pending'
  BY ParsedNext
<1>3. \A v \in Vids(prog) : consumerCount[v] # 0 => consumerCount'[v] # 0
  <2>1. /\ consumerCount \in [Vids(prog) -> Nat] /\ prog.count[step] \in Nat
    BY <1>1 DEF Simulation, SimOK, Types, WellFormed
  <2> QED BY <1>1, <2>1 DEF AddSlots
<1>4. UsersPending'
  BY <1>1, <1>2 DEF UsersPending
<1>5. /\ \A v : Consumers(v)' = Consumers(v) /\ OnItsPid(v)' = OnItsPid(v)
      /\ Pids' = Pids
  BY <1>1 DEF Consumers, Waits, OnItsPid, Pids
<1>6. \A r \in Pids : toVirtual[r] # None => toVirtual[r] \in Vids(prog)
  BY DEF Simulation, SimOK, Types
<1> QED BY <1>1, <1>3, <1>4, <1>5, <1>6 DEF Simulation, ActiveOK

\* The next VID gets a free PID; none of its users has run.
LEMMA ActiveMap ==
  ASSUME prog \in Programs, Simulation, MapBarrier
  PROVE  ActiveOK'
<1> DEFINE k == Min(Acceptable)
           r == nextReal[k]
<1>1. /\ SimOK /\ SlotInv /\ ActiveOK /\ Types /\ Dynamic /\ RingHoldsFreePids /\ UnconsumedKeepPid
  BY DEF Simulation, SimOK, MappingInv, Dynamic
<1>2. /\ MapDynamic /\ HasBarrierToMap /\ stage = "map" /\ stage' = "map" /\ bar' = bar + 1
      /\ UNCHANGED <<prog, queue, pos, consumerCount>>
  BY <1>1 DEF MapBarrier, MapInstance, MapStatic, Dynamic, parsed
<1>3. /\ realId' = [realId EXCEPT ![bar] = r]
      /\ toVirtual' = [toVirtual EXCEPT ![r] = bar]
  BY <1>2 DEF MapDynamic, Program
<1>4. k \in 1 .. Len(nextReal) /\ r \in Pids /\ bar \in Vids(prog)
  BY <1>1, <1>2, RingPick, NextVidExists
<1>5. toVirtual[r] = None
  <2>1. InSeq(r, nextReal)
    <3>1. nextReal \in Seq(Pids)
      BY <1>1 DEF Types
    <3> QED BY <1>4, <3>1 DEF InSeq
  <2> QED BY <1>1, <1>4, <2>1 DEF RingHoldsFreePids
<1> HIDE DEF k, r
<1>6. /\ bar \in Nat /\ Pids \in SUBSET Nat /\ r # None /\ realId[bar] = None
      /\ realId \in [Vids(prog) -> Nat \cup {None}]
      /\ toVirtual \in [Pids -> Vids(prog) \cup {None}]
      /\ \A v \in Vids(prog) : v \in Nat /\ v # None
  <2>1. bar \in Nat /\ bar >= bar
    BY <1>1 DEF Types
  <2>2. Pids \in SUBSET Nat
    BY <1>1 DEF Types
  <2> QED BY <1>1, <1>4, <2>1, <2>2 DEF Types, UnconsumedKeepPid, None, Vids
<1>7. Pending' = Pending /\ Pids' = Pids /\ \A t : Parsed(t) /\ Parsed(t)'
  BY <1>2, <1>3 DEF Pending, StillQueued, Pids, Parsed
<1>8. ASSUME NEW v \in Vids(prog), v < bar + 1 PROVE v < bar \/ v = bar
  BY <1>6, <1>8
<1>9. UsersPending'
  <2> SUFFICES ASSUME NEW t \in Tasks(prog), NEW v \in Vids(prog), Uses(t, v), realId'[v] = None
               PROVE  t \in Pending
    BY <1>2, <1>7 DEF UsersPending, Uses, Waits, Posts
  <2>1. realId[v] = None
    BY <1>3, <1>4, <1>6
  <2> QED BY <1>1, <1>7, <2>1 DEF ActiveOK, UsersPending
<1>10. \A v \in Vids(prog) : v < bar + 1 => realId'[v] # None
  BY <1>1, <1>3, <1>4, <1>6, <1>8 DEF ActiveOK
<1>11. ASSUME NEW v \in Vids(prog), v < bar + 1, Consumers(v) = {}
       PROVE  realId'[v] \in Pids /\ toVirtual'[realId'[v]] = v
  <2>1. CASE v = bar
    BY <1>3, <1>4, <1>6, <2>1
  <2>2. CASE v # bar
    <3>1. realId[v] \in Pids /\ toVirtual[realId[v]] = v
      BY <1>1, <1>8, <1>11, <2>2 DEF ActiveOK, OnItsPid
    <3>2. realId[v] # r
      BY <1>5, <1>6, <3>1
    <3> QED BY <1>3, <1>4, <1>6, <2>2, <3>1, <3>2
  <2> QED BY <2>1, <2>2
<1>12. ASSUME NEW q \in Pids, toVirtual'[q] # None, Consumers(toVirtual'[q]) # {}
       PROVE  consumerCount[toVirtual'[q]] # 0
  <2>1. CASE q = r
    <3>1. toVirtual'[q] = bar
      BY <1>3, <1>4, <1>6, <2>1
    <3>2. PICK c \in Consumers(bar) : TRUE
      BY <1>12, <3>1
    <3>3. c \in Pending
      BY <1>1, <1>4, <1>6, <1>7 DEF ActiveOK, UsersPending, Uses, Consumers
    <3> QED BY <1>1, <1>2, <1>4, <3>1, <3>3, PendingConsumer
  <2>2. CASE q # r
    BY <1>1, <1>3, <1>6, <1>12, <2>2 DEF ActiveOK
  <2> QED BY <2>1, <2>2
<1>13. \A v : Consumers(v)' = Consumers(v)
  BY <1>2 DEF Consumers, Waits
<1> QED BY <1>2, <1>7, <1>9, <1>10, <1>11, <1>12, <1>13 DEF ActiveOK, OnItsPid

\* A PID is taken back from a VID that has consumers.
LEMMA ActiveConsume ==
  ASSUME prog \in Programs, Simulation, ConsumeBarrier
  PROVE  ActiveOK'
<1>1. /\ SimOK /\ SlotInv /\ ActiveOK /\ Types /\ ControlOK /\ Dynamic /\ CountsOK
      /\ UnconsumedKeepPid /\ MappingsAgree
  BY DEF Simulation, SimOK, SlotInv, MappingInv, Dynamic
<1>2. /\ UNCHANGED <<prog, queue, pos, bar, realId>> /\ stage = "task" /\ stage' \in {"task", "done"}
  BY DEF ConsumeBarrier, ContinueIf
<1>3. Pending' = Pending /\ \A t : Parsed(t) /\ Parsed(t)'
  BY <1>2 DEF Pending, StillQueued, Parsed
<1>4. UsersPending'
  BY <1>1, <1>2, <1>3 DEF ActiveOK, UsersPending, Uses, Waits, Posts
<1>5. \A v : Consumers(v)' = Consumers(v)
  BY <1>2 DEF Consumers, Waits
<1>6. CASE UNCHANGED <<toVirtual, consumerCount>>
  BY <1>1, <1>2, <1>4, <1>5, <1>6 DEF ActiveOK, OnItsPid, Pids
<1>7. CASE ~UNCHANGED <<toVirtual, consumerCount>>
  <2>1. PICK v \in Vids(prog) :
          /\ realId[v] \in Pids /\ consumerCount[v] # 0
          /\ \/ /\ \E c \in Nat \ {0} : consumerCount' = [consumerCount EXCEPT ![v] = c]
                /\ toVirtual' = toVirtual
             \/ /\ consumerCount' = [consumerCount EXCEPT ![v] = 0]
                /\ toVirtual' = [toVirtual EXCEPT ![realId[v]] = None]
    BY <1>1, <1>7, ConsumeEffect
  <2>2. /\ toVirtual \in [Pids -> Vids(prog) \cup {None}] /\ consumerCount \in [Vids(prog) -> Nat]
        /\ Pids' = Pids /\ Pids \in SUBSET Nat
        /\ \A w \in Vids(prog) : w # None
    <3>1. toVirtual \in [Pids -> Vids(prog) \cup {None}] /\ consumerCount \in [Vids(prog) -> Nat]
          /\ Pids \in SUBSET Nat
      BY <1>1 DEF Types
    <3> QED BY <2>1, <3>1 DEF Pids, Vids, None
  <2>3. CASE /\ \E c \in Nat \ {0} : consumerCount' = [consumerCount EXCEPT ![v] = c]
             /\ toVirtual' = toVirtual
    <3>1. PICK c \in Nat \ {0} : consumerCount' = [consumerCount EXCEPT ![v] = c]
      BY <2>3
    <3>2. \A w \in Vids(prog) : consumerCount[w] # 0 => consumerCount'[w] # 0
      BY <2>2, <3>1
    <3> QED BY <1>1, <1>2, <1>4, <1>5, <2>2, <2>3, <3>2 DEF ActiveOK, OnItsPid
  <2>4. CASE /\ consumerCount' = [consumerCount EXCEPT ![v] = 0]
             /\ toVirtual' = [toVirtual EXCEPT ![realId[v]] = None]
    <3>1. toVirtual[realId[v]] = v
      BY <1>1, <2>1, <2>2 DEF UnconsumedKeepPid, None
    <3>2. Consumers(v) # {}
      <4>1. WaitingOn(v) # {}
        BY <1>1, <2>1, SumEmpty DEF CountsOK
      <4> QED BY <4>1 DEF WaitingOn, Consumers, Pending
    <3>3. ASSUME NEW w \in Vids(prog), w < bar, Consumers(w) = {} PROVE OnItsPid(w)'
      <4>1. realId[w] \in Pids /\ toVirtual[realId[w]] = w
        BY <1>1, <3>3 DEF ActiveOK, OnItsPid
      <4>2. realId[w] # realId[v]
        BY <3>1, <3>2, <3>3, <4>1
      <4> QED BY <1>2, <2>2, <2>4, <4>1, <4>2 DEF OnItsPid
    <3>4. ASSUME NEW q \in Pids, toVirtual'[q] # None, Consumers(toVirtual'[q]) # {}
          PROVE  consumerCount'[toVirtual'[q]] # 0
      <4>1. q # realId[v] /\ toVirtual'[q] = toVirtual[q] /\ toVirtual[q] \in Vids(prog)
        BY <2>1, <2>2, <2>4, <3>4
      <4>2. toVirtual[q] # v
        BY <1>1, <2>2, <4>1 DEF MappingsAgree, Mismatch
      <4> QED BY <1>1, <2>2, <2>4, <3>4, <4>1, <4>2 DEF ActiveOK
    <3> QED BY <1>1, <1>2, <1>4, <1>5, <2>2, <3>3, <3>4 DEF ActiveOK
  <2> QED BY <2>1, <2>3, <2>4
<1> QED BY <1>6, <1>7

\* A task ends; its barriers are mapped.
LEMMA ActiveEnd ==
  ASSUME prog \in Programs, Simulation, EndTask
  PROVE  ActiveOK'
<1>1. /\ SimOK /\ SlotInv /\ ActiveOK /\ QueuesInOrder /\ SimOrder
  BY DEF Simulation
<1>2. /\ UNCHANGED <<prog, queue, bar, realId, toVirtual, consumerCount>>
      /\ stage = "task" /\ stage' = "fifos"
  BY DEF EndTask, parsed, mapping
<1>3. /\ Pending' = Pending \ {HeadTask}
      /\ \A v \in Vids(prog) : Uses(HeadTask, v) => realId[v] # None
  BY <1>1, EndingTask
<1>4. UsersPending'
  BY <1>1, <1>2, <1>3 DEF ActiveOK, UsersPending, Uses, Waits, Posts, Parsed
<1>5. /\ \A v : Consumers(v)' = Consumers(v) /\ OnItsPid(v)' = OnItsPid(v)
      /\ Pids' = Pids
  BY <1>2 DEF Consumers, Waits, OnItsPid, Pids
<1> QED BY <1>1, <1>2, <1>4, <1>5 DEF ActiveOK

LEMMA SimulationCommon ==
  ASSUME prog \in Programs, Simulation, CommonStep
  PROVE  Simulation' /\ Pids' = Pids /\ prog' = prog
<1>1. Next
  BY DEF CommonStep, Next, Construct, Simulate
<1>2. Dynamic /\ mode # "pages" /\ stage # "pages" /\ Types
  BY DEF Simulation, Dynamic, SimOK, MappingInv, QueuedHavePid
<1>3. SimOK' /\ SlotInv' /\ Pids' = Pids
  BY <1>2, SimulatorCommon DEF Simulation
<1>4. QueuesInOrder' /\ prog' = prog /\ mode' = mode
  BY <1>1, QueuesNext, ModeStays DEF Simulation
<1>5. SimOrder'
  BY <1>1, <1>3, <1>4, SimNext DEF Simulation
<1>6. WhyStuck'
  BY <1>1, <1>2, WhyStuckNext DEF Simulation
<1>7. ActiveOK'
  <2>1. CASE BeginIteration \/ BeginTask \/ NextFifo
    <3>1. /\ UNCHANGED <<prog, queue, pos, bar, realId, toVirtual, consumerCount>>
          /\ stage' # "parse" /\ stage # "parse"
      BY <2>1 DEF BeginIteration, BeginTask, NextFifo, parsed, mapping
    <3> QED BY <3>1, ActiveQuiet
  <2>2. CASE ProduceBarrier
    <3>1. /\ UNCHANGED <<prog, queue, pos, bar, realId, toVirtual, consumerCount>>
          /\ stage' # "parse" /\ stage # "parse"
      BY <2>2 DEF ProduceBarrier, ContinueIf, mapping
    <3> QED BY <3>1, ActiveQuiet
  <2> QED BY <1>3, <1>4, <2>1, <2>2, ActiveParse, ActiveMap, ActiveConsume, ActiveEnd DEF CommonStep
<1>8. (Size \in Nat /\ Pids = 0 .. Size - 1)'
  BY <1>3 DEF Simulation, Size
<1> QED BY <1>3, <1>4, <1>5, <1>6, <1>7, <1>8 DEF Simulation

-----------------------------------------------------------------------------
(***************************************************************************)
(* Dead ends.                                                              *)
(***************************************************************************)

\* They are those of the schedule, which no step changes.
LEMMA DeadEndStays ==
  ASSUME UNCHANGED prog
  PROVE  /\ \A b, P : DeadEnd(b, P)' = DeadEnd(b, P)
         /\ HasDeadEnd' = HasDeadEnd
<1>1. \A v : Consumers(v)' = Consumers(v)
  BY DEF Consumers, Waits
<1>2. \A b, P : ActiveAt(b, P)' = ActiveAt(b, P)
  BY <1>1 DEF ActiveAt
<1>3. \A t, b, P : CanRun(t, b, P)' = CanRun(t, b, P)
  BY DEF CanRun, Uses, Waits, Posts
<1>4. \A b, P : CanMap(b, P)' = CanMap(b, P)
  BY <1>2 DEF CanMap
<1>5. \A b, P : DeadEnd(b, P)' = DeadEnd(b, P)
  BY <1>3, <1>4 DEF DeadEnd
<1> QED BY <1>5 DEF HasDeadEnd

\* With the PIDs of the hardware, no step passes a dead end: a VID is mapped when no
\* more VIDs are active than there would be in the dead end, ...
LEMMA AheadMap ==
  ASSUME prog \in Programs, Simulation, Size = NumPids, DeadEndsAhead, MapBarrier
  PROVE  DeadEndsAhead'
<1>1. /\ HasBarrierToMap /\ stage = "map" /\ stage' = "map" /\ bar' = bar + 1
      /\ UNCHANGED <<prog, queue, pos>>
  BY DEF MapBarrier, parsed
<1>2. bar < prog.numBarriers /\ bar \in Nat /\ WellFormed(prog) /\ prog.numBarriers \in Nat
  BY <1>1 DEF HasBarrierToMap, Simulation, SimOK, Types, WellFormed
<1>3. Cardinality(ActiveAt(bar, Pending)) < NumPids
  <2>1. /\ Cardinality(ActiveVids) = Size - Cardinality(FreePids)
        /\ Cardinality(FreePids) # 0 /\ Cardinality(FreePids) \in Nat /\ Size \in Nat
    BY <1>1, <1>2, PidsFinite, ActiveCount, CanMapWhenFree
  <2>2. ActiveVids = ActiveAt(bar, Pending)
    BY <1>1, ActiveNow
  <2> QED BY <2>1, <2>2
<1>4. ASSUME NEW b \in 0 .. prog.numBarriers, NEW P \in SUBSET Tasks(prog), DeadEnd(b, P)
      PROVE  bar + 1 <= b /\ P \subseteq Pending
  <2>1. bar <= b /\ P \subseteq Pending
    BY <1>1, <1>4 DEF DeadEndsAhead
  <2>2. bar # b
    <3> SUFFICES ASSUME bar = b PROVE FALSE
      OBVIOUS
    <3>1. ~(Cardinality(ActiveAt(bar, P)) < NumPids)
      BY <1>2, <1>4 DEF DeadEnd, CanMap
    <3>2. /\ Cardinality(ActiveAt(bar, P)) <= Cardinality(ActiveAt(bar, Pending))
          /\ Cardinality(ActiveAt(bar, P)) \in Nat /\ Cardinality(ActiveAt(bar, Pending)) \in Nat
      BY <1>2, <2>1, ActiveGrow
    <3> QED BY <1>3, <3>1, <3>2, NumPidsAssumption
  <2> QED BY <1>2, <2>1, <2>2
<1>5. Pending' = Pending
  BY <1>1 DEF Pending, StillQueued
<1> QED BY <1>1, <1>4, <1>5, DeadEndStays DEF DeadEndsAhead

\* ... and a task runs that could run there, too.
LEMMA AheadEnd ==
  ASSUME prog \in Programs, Simulation, DeadEndsAhead, EndTask
  PROVE  DeadEndsAhead'
<1>1. /\ UNCHANGED <<prog, bar>> /\ stage = "task" /\ stage' = "fifos"
  BY DEF EndTask, mapping
<1>2. /\ HeadTask \in Pending /\ Pending' = Pending \ {HeadTask}
      /\ \A t \in Tasks(prog) : DirectlyBefore(prog, t, HeadTask) => t \notin Pending
      /\ \A v \in Vids(prog) : Uses(HeadTask, v) => realId[v] # None
  BY EndingTask DEF Simulation
<1>3. /\ Dynamic /\ UnconsumedKeepPid /\ bar \in Nat /\ prog.numBarriers \in Nat
      /\ Vids(prog) \in SUBSET Nat
  BY DEF Simulation, Dynamic, SimOK, MappingInv, Types, WellFormed, Vids
<1>4. ASSUME NEW b \in 0 .. prog.numBarriers, NEW P \in SUBSET Tasks(prog), DeadEnd(b, P)
      PROVE  bar <= b /\ P \subseteq Pending /\ HeadTask \notin P
  <2>1. bar <= b /\ P \subseteq Pending
    BY <1>1, <1>4 DEF DeadEndsAhead
  <2>2. \A v \in Vids(prog) : Uses(HeadTask, v) => v < b
    <3> SUFFICES ASSUME NEW v \in Vids(prog), Uses(HeadTask, v) PROVE v < b
      OBVIOUS
    <3>1. ~(v >= bar)
      BY <1>2, <1>3 DEF UnconsumedKeepPid
    <3> QED BY <1>3, <2>1, <3>1
  <2>3. CanRun(HeadTask, b, P)
    BY <1>2, <2>1, <2>2 DEF CanRun
  <2> QED BY <1>4, <2>1, <2>3 DEF DeadEnd
<1> QED BY <1>1, <1>2, <1>4, DeadEndStays DEF DeadEndsAhead

\* Before the first iteration all tasks are pending.
LEMMA AheadQuiet ==
  ASSUME prog \in Programs, Simulation, DeadEndsAhead, UNCHANGED <<prog, bar>>,
         \/ stage' = "parse"
         \/ UNCHANGED <<queue, pos>> /\ (stage = "parse" => step > prog.numTasks)
  PROVE  DeadEndsAhead'
<1>1. CASE stage' = "parse"
  BY <1>1, DeadEndStays DEF DeadEndsAhead
<1>2. CASE UNCHANGED <<queue, pos>> /\ (stage = "parse" => step > prog.numTasks)
  <2>1. Pending' = Pending
    BY <1>2 DEF Pending, StillQueued
  <2>2. stage = "parse" => \A P \in SUBSET Tasks(prog) : P \subseteq Pending
    <3> SUFFICES ASSUME stage = "parse", NEW t \in Tasks(prog) PROVE t \in Pending
      OBVIOUS
    <3>1. Parsed(t)
      BY <1>2, AllParsed DEF Simulation
    <3> QED BY <3>1, ParsedArePending DEF Simulation, SimOK, SlotInv
  <2> QED BY <2>1, <2>2, DeadEndStays DEF DeadEndsAhead
<1> QED BY <1>1, <1>2

LEMMA AheadCommon ==
  ASSUME prog \in Programs, Simulation, Size = NumPids, DeadEndsAhead, CommonStep
  PROVE  DeadEndsAhead'
<1>1. CASE ParseTask
  <2>1. UNCHANGED <<prog, bar>> /\ stage' = "parse"
    BY <1>1 DEF ParseTask, mapping
  <2> QED BY <2>1, AheadQuiet
<1>2. CASE BeginIteration \/ BeginTask \/ NextFifo
  <2>1. UNCHANGED <<prog, bar, queue, pos>> /\ stage # "parse"
    BY <1>2 DEF BeginIteration, BeginTask, NextFifo, parsed, mapping
  <2> QED BY <2>1, AheadQuiet
<1>3. CASE ConsumeBarrier \/ ProduceBarrier
  <2>1. UNCHANGED <<prog, bar, queue, pos>> /\ stage # "parse"
    BY <1>3 DEF ConsumeBarrier, ProduceBarrier, mapping
  <2> QED BY <2>1, AheadQuiet
<1> QED BY <1>1, <1>2, <1>3, AheadMap, AheadEnd DEF CommonStep

\* A simulation that has done everything has met no dead end.
LEMMA NoneAheadOfAllDone ==
  ASSUME Types, DeadEndsAhead, stage # "parse", AllDone
  PROVE  ~HasDeadEnd
<1> SUFFICES ASSUME NEW b \in 0 .. prog.numBarriers, NEW P \in SUBSET Tasks(prog), DeadEnd(b, P)
             PROVE  FALSE
  BY DEF HasDeadEnd
<1>1. bar <= b /\ P = {} /\ bar >= prog.numBarriers
  BY DEF DeadEndsAhead, AllDone
<1>2. bar \in Nat /\ prog.numBarriers \in Nat
  BY DEF Types, WellFormed
<1>3. ~(b < prog.numBarriers)
  BY <1>1, <1>2
<1> QED BY <1>1, <1>3 DEF DeadEnd

-----------------------------------------------------------------------------
(***************************************************************************)
(* Steps between the iterations, which may change the set of PIDs.         *)
(***************************************************************************)

\* Numbering the PIDs anew keeps a simulation when every VID that holds a PID keeps
\* one, nobody else gets one and the ring is that of the new free PIDs.
LEMMA Renumbered ==
  ASSUME prog \in Programs, Simulation, stage # "task", stage = "parse" => step > prog.numTasks,
         UNCHANGED <<prog, mode, parsed, pos, bar, pidQueue, step>>,
         stage' \in {"loop", "fifos", "done"}, fifo' \in 1 .. NumFifos + 1, progressed' \in BOOLEAN,
         WhyStuck', ResultOK',
         Size' \in Nat, Pids' = 0 .. Size' - 1,
         realId' \in [Vids(prog) -> Nat \cup {None}],
         toVirtual' \in [Pids' -> Vids(prog) \cup {None}],
         nextReal' \in Seq(Pids'), RingHoldsFreePids',
         \A v \in Vids(prog) : (realId'[v] = None) <=> (realId[v] = None),
         \A v \in Vids(prog) : OnItsPid(v) => OnItsPid(v)',
         \A r \in Pids' : toVirtual'[r] # None =>
           realId'[toVirtual'[r]] = r /\ \E q \in Pids : toVirtual[q] = toVirtual'[r]
  PROVE  Simulation'
<1>1. /\ mode = "dynamic" /\ Dynamic /\ Types /\ SlotInv /\ QueuesInOrder /\ SimOrder /\ ActiveOK
      /\ UnconsumedKeepPid /\ QueuedHavePid /\ UnproducedKeepPid
      /\ UNCHANGED <<queue, producerCount, consumerCount>>
  BY DEF Simulation, SimOK, SlotInv, MappingInv, Dynamic, parsed
<1>2. Types'
  <2>1. Pids' \in SUBSET Nat
    <3>1. \A n \in Nat : 0 .. n - 1 \in SUBSET Nat
      OBVIOUS
    <3> QED BY <3>1, Zenon
  <2>2. stage' \in Stages
    BY DEF Stages
  <2> QED BY <1>1, <2>1, <2>2 DEF Types
<1>3. ControlOK'
  BY <1>1 DEF ControlOK
<1>4. MappingInv'
  <2>1. MappingsAgree'
    BY DEF MappingsAgree, Mismatch
  <2>2. UnconsumedKeepPid'
    BY <1>1 DEF UnconsumedKeepPid, OnItsPid, Dynamic
  <2>3. QueuedHavePid'
    <3>1. /\ \A r \in 0 .. NumPids - 1 : pidQueue[r] = <<>>
          /\ Len(<<>>) = 0
      BY <1>1 DEF QueuedHavePid
    <3>2. \A i \in 1 .. Len(<<>>) : FALSE
      BY <3>1
    <3> QED BY <1>1, <3>1, <3>2 DEF QueuedHavePid
  <2>4. NothingMappedYet'
    BY DEF NothingMappedYet
  <2> QED BY <2>3, <2>4, <2>1, <2>2 DEF MappingInv
<1>5. UnproducedKeepPid'
  BY <1>1 DEF UnproducedKeepPid, OnItsPid, Dynamic
<1>6. SlotInv'
  BY <1>1, <1>5, SlotsQuiet
<1>7. QueuesInOrder'
  <2>1. step' \in Nat
    BY <1>1 DEF QueuesInOrder
  <2> QED BY <1>1, <2>1, QueuesStay
<1>8. SimOrder'
  <2>1. TaskBegun'
    BY DEF TaskBegun
  <2> QED BY <1>1, <2>1, SimQuiet
<1>9. ActiveOK'
  <2>1. \A t \in Tasks(prog) : Parsed(t)
    BY <1>1, AllParsed
  <2>2. Pending' = Pending
    BY <1>1 DEF Pending, StillQueued
  <2>3. UsersPending'
    BY <1>1, <2>1, <2>2 DEF ActiveOK, UsersPending, Uses, Waits, Posts
  <2>4. \A v : Consumers(v)' = Consumers(v)
    BY DEF Consumers, Waits
  <2>5. ASSUME NEW r \in Pids', toVirtual'[r] # None, Consumers(toVirtual'[r]) # {}
        PROVE  consumerCount[toVirtual'[r]] # 0
    <3>1. PICK q \in Pids : toVirtual[q] = toVirtual'[r]
      BY <2>5
    <3> QED BY <1>1, <2>5, <3>1 DEF ActiveOK
  <2> QED BY <1>1, <2>3, <2>4, <2>5 DEF ActiveOK
<1> QED BY <1>1, <1>2, <1>3, <1>4, <1>6, <1>7, <1>8, <1>9 DEF Simulation, SimOK

\* A step that leaves the mapping alone.
LEMMA SimulationRests ==
  ASSUME prog \in Programs, Simulation, stage # "task", stage = "parse" => step > prog.numTasks,
         UNCHANGED <<prog, mode, parsed, pos, bar, pidQueue, step, realId, toVirtual, nextReal>>,
         stage' \in {"loop", "fifos", "done"}, fifo' \in 1 .. NumFifos + 1, progressed' \in BOOLEAN,
         WhyStuck', ResultOK'
  PROVE  Simulation' /\ Pids' = Pids
<1>1. /\ realId \in [Vids(prog) -> Nat \cup {None}]
      /\ toVirtual \in [Pids -> Vids(prog) \cup {None}]
      /\ nextReal \in Seq(Pids) /\ RingHoldsFreePids
      /\ Size \in Nat /\ Pids = 0 .. Size - 1
      /\ \A r \in Pids : toVirtual[r] # None => realId[toVirtual[r]] = r
  BY DEF Simulation, SimOK, Types, MappingInv, MappingsAgree, Mismatch
<1>2. Pids' = Pids /\ Size' = Size
  BY DEF Pids, Size
<1>3. RingHoldsFreePids'
  BY <1>1, <1>2 DEF RingHoldsFreePids, Dynamic
<1>4. \A v : OnItsPid(v)' = OnItsPid(v)
  BY <1>2 DEF OnItsPid
<1> QED BY <1>1, <1>2, <1>3, <1>4, Renumbered

\* A blocked simulation gets one more PID, which is free.
LEMMA GrowKeeps ==
  ASSUME prog \in Programs, Simulation, EndLegalIteration, ~progressed, FreePids = {}
  PROVE  /\ Simulation' /\ Size' = Size + 1
         /\ Cardinality(FreePids') = 1 /\ UNCHANGED <<prog, bar, result>> /\ stage' = "loop"
<1>1. /\ stage = "fifos" /\ GrowOrThrow
      /\ UNCHANGED <<prog, mode, parsed, bar, pidQueue, step, fifo, pos, batches>>
  BY DEF EndLegalIteration, IterationDone
<1>2. /\ toVirtual' = PushBack(toVirtual, None) /\ nextReal' = RingOf(toVirtual')
      /\ progressed' = TRUE /\ stage' = "loop" /\ UNCHANGED <<realId, result>>
  BY <1>1 DEF GrowOrThrow
<1>3. /\ Types /\ Size \in Nat /\ Pids = 0 .. Size - 1 /\ MappingsAgree
      /\ toVirtual \in [Pids -> Vids(prog) \cup {None}] /\ realId \in [Vids(prog) -> Nat \cup {None}]
      /\ fifo \in 1 .. NumFifos + 1
      /\ ResultOK
  BY DEF Simulation, SimOK, Types, MappingInv, SlotInv
<1>4. DOMAIN toVirtual = Pids /\ Cardinality(DOMAIN toVirtual) = Size
  BY DEF Pids, Size
<1>5. toVirtual' = [r \in 0 .. Size |-> IF r \in Pids THEN toVirtual[r] ELSE None]
  BY <1>2, <1>4 DEF PushBack
<1>6. Pids' = 0 .. Size
  BY <1>5 DEF Pids
<1>7. Size' = Size + 1
  <2>1. 0 \in Int /\ Size \in Int /\ ~(0 > Size) /\ Size - 0 + 1 = Size + 1
    BY <1>3
  <2>2. Cardinality(0 .. Size) = Size + 1
    BY <2>1, FS_Interval
  <2> QED BY <1>6, <2>2 DEF Size
<1>8. /\ Pids' = 0 .. Size' - 1 /\ Size' \in Nat /\ Pids' \in SUBSET Nat /\ IsFiniteSet(Pids')
      /\ toVirtual' \in [Pids' -> Vids(prog) \cup {None}]
  <2>1. Pids' = 0 .. Size' - 1 /\ Size' \in Nat /\ Pids' \in SUBSET Nat
    BY <1>3, <1>6, <1>7
  <2>2. toVirtual' \in [Pids' -> Vids(prog) \cup {None}]
    BY <1>3, <1>5, <1>6
  <2>3. IsFiniteSet(0 .. Size)
    <3>1. 0 \in Int /\ Size \in Int
      BY <1>3
    <3> QED BY <3>1, FS_Interval
  <2> QED BY <1>6, <2>1, <2>2, <2>3
<1>9. nextReal' \in Seq(Pids') /\ RingHoldsFreePids'
  <2>1. DOMAIN toVirtual' = Pids'
    BY DEF Pids
  <2> QED BY <1>2, <1>8, <2>1, RingEnumerates DEF RingHoldsFreePids
<1>10. \A r \in Pids : r \in Pids' /\ toVirtual'[r] = toVirtual[r]
  BY <1>3, <1>5, <1>6
<1>11. \A r \in Pids' : toVirtual'[r] # None => r \in Pids /\ toVirtual[r] = toVirtual'[r]
  BY <1>5, <1>6
<1>12. \A v \in Vids(prog) : OnItsPid(v) => OnItsPid(v)'
  BY <1>2, <1>10 DEF OnItsPid
<1>13. \A r \in Pids' : toVirtual'[r] # None =>
         realId'[toVirtual'[r]] = r /\ \E q \in Pids : toVirtual[q] = toVirtual'[r]
  BY <1>2, <1>3, <1>11 DEF MappingsAgree, Mismatch
<1>14. WhyStuck' /\ ResultOK'
  BY <1>1, <1>2, <1>3 DEF WhyStuck, ResultOK, SlotsBalance
<1>15. Simulation'
  BY <1>1, <1>2, <1>3, <1>8, <1>9, <1>12, <1>13, <1>14, Renumbered
<1>16. FreePids' = {Size}
  <2>1. \A r \in Pids : toVirtual[r] # None
    BY DEF FreePids
  <2>2. \A r \in 0 .. Size : r \in Pids \/ r = Size
    BY <1>3
  <2>3. Size \in 0 .. Size /\ Size \notin Pids
    BY <1>3
  <2> QED BY <1>5, <1>6, <2>1, <2>2, <2>3 DEF FreePids
<1> QED BY <1>1, <1>2, <1>7, <1>15, <1>16, FS_Singleton

\* Free PIDs beyond the limit are dropped, and realId follows the PIDs that move
\* down; either all of them go or no free PID is left.
LEMMA ShrinkKeeps ==
  ASSUME prog \in Programs, Simulation, EndLegalIteration, progressed, FreePids # {}, Exceeding
  PROVE  /\ Simulation' /\ Size' >= NumPids
         /\ Size' > NumPids => FreePids' = {}
         /\ UNCHANGED <<prog, bar, result>> /\ stage' = "loop"
<1> DEFINE D == Dropped
           New(r) == r - Rank(D, r)
<1>1. /\ stage = "fifos" /\ Shrink
      /\ UNCHANGED <<prog, mode, parsed, bar, pidQueue, step, fifo, pos, batches>>
  BY DEF EndLegalIteration, IterationDone
<1>2. /\ toVirtual' = Erase(toVirtual, D) /\ nextReal' = RingOf(toVirtual')
      /\ stage' = "loop" /\ UNCHANGED <<progressed, result>>
  BY <1>1 DEF Shrink
<1>3. /\ Types /\ Size \in Nat /\ Pids = 0 .. Size - 1 /\ MappingsAgree
      /\ toVirtual \in [Pids -> Vids(prog) \cup {None}] /\ realId \in [Vids(prog) -> Nat \cup {None}]
      /\ fifo \in 1 .. NumFifos + 1 /\ progressed \in BOOLEAN
      /\ ResultOK /\ NumPids \in Nat
  BY NumPidsAssumption DEF Simulation, SimOK, Types, MappingInv, SlotInv
<1>4. /\ D = {r \in FreePids : Rank(FreePids, r) < Size - NumPids}
      /\ D \in SUBSET FreePids /\ FreePids \in SUBSET Pids /\ D \in SUBSET (0 .. Size - 1)
      /\ DOMAIN toVirtual = 0 .. Size - 1
  BY <1>3 DEF Dropped, Rank, FreePids, Pids
<1> HIDE DEF D
<1>5. /\ Cardinality(D) \in Nat /\ Cardinality(D) <= Size
      /\ Pids' = 0 .. (Size - Cardinality(D)) - 1
      /\ \A r \in Pids \ D : New(r) \in Pids' /\ toVirtual'[New(r)] = toVirtual[r]
      /\ \A i \in Pids' : \E r \in Pids \ D : i = New(r)
  <2> DEFINE e == Erase(toVirtual, D)
  <2>1. /\ Cardinality(D) \in Nat /\ Cardinality(D) <= Size
        /\ DOMAIN e = 0 .. (Size - Cardinality(D)) - 1
        /\ \A r \in DOMAIN toVirtual \ D : New(r) \in DOMAIN e /\ e[New(r)] = toVirtual[r]
        /\ \A i \in DOMAIN e : \E r \in DOMAIN toVirtual \ D : i = New(r)
    <3>1. Size \in Nat /\ DOMAIN toVirtual = 0 .. Size - 1 /\ D \in SUBSET (0 .. Size - 1)
      BY <1>3, <1>4
    <3> HIDE DEF New
    <3> QED BY <3>1, EraseKeepsOthers DEF New
  <2>2. toVirtual' = e /\ Pids' = DOMAIN e /\ Pids = DOMAIN toVirtual
    BY <1>2 DEF Pids
  <2> HIDE DEF e, New
  <2> QED BY <2>1, <2>2
<1>6. Size' = Size - Cardinality(D) /\ Size' \in Nat /\ IsFiniteSet(Pids')
  <2> DEFINE n == Size - Cardinality(D)
  <2>1. n \in Nat
    BY <1>3, <1>5
  <2> HIDE DEF n
  <2>2. 0 \in Int /\ n - 1 \in Int /\ (IF 0 > n - 1 THEN 0 ELSE (n - 1) - 0 + 1) = n
    BY <2>1
  <2>3. IsFiniteSet(0 .. n - 1) /\ Cardinality(0 .. n - 1) = n
    BY <2>2, FS_Interval
  <2> QED BY <1>5, <2>1, <2>3 DEF n, Size
<1>7. /\ Cardinality(D) = IF Size - NumPids <= Cardinality(FreePids) THEN Size - NumPids
                                                                     ELSE Cardinality(FreePids)
      /\ Size - NumPids > Cardinality(FreePids) => D = FreePids
      /\ Cardinality(FreePids) \in Nat
  <2>1. Size - NumPids \in Nat
    BY <1>3 DEF Exceeding
  <2>2. FreePids \in SUBSET Nat /\ IsFiniteSet(FreePids) /\ Cardinality(FreePids) \in Nat
    BY PidsFinite
  <2> QED BY <1>4, <2>1, <2>2, FirstRanks
<1>8. Size' >= NumPids /\ (Size' > NumPids => D = FreePids)
  BY <1>3, <1>6, <1>7 DEF Exceeding
<1>9. /\ Pids' = 0 .. Size' - 1 /\ Pids' \in SUBSET Nat
  <2>1. \A n \in Nat : 0 .. n - 1 \in SUBSET Nat
    OBVIOUS
  <2> QED BY <1>5, <1>6, <2>1
<1>10. toVirtual' \in [Pids' -> Vids(prog) \cup {None}]
  <2>1. \A i \in Pids' : toVirtual'[i] \in Vids(prog) \cup {None}
    BY <1>3, <1>5
  <2>2. toVirtual' = [i \in DOMAIN toVirtual' |-> toVirtual'[i]]
    BY <1>2 DEF Erase
  <2> QED BY <2>1, <2>2 DEF Pids
<1>11. nextReal' \in Seq(Pids') /\ RingHoldsFreePids'
  <2>1. DOMAIN toVirtual' = Pids'
    BY DEF Pids
  <2> QED BY <1>2, <1>6, <1>9, <2>1, RingEnumerates DEF RingHoldsFreePids
<1>12. \A r \in Pids : toVirtual[r] # None => /\ toVirtual[r] \in Vids(prog) /\ realId[toVirtual[r]] = r
                                              /\ r \notin D
  BY <1>3, <1>4 DEF MappingsAgree, Mismatch, FreePids
<1>13. ASSUME NEW r \in Pids, toVirtual[r] # None PROVE realId'[toVirtual[r]] = New(r)
  <2> DEFINE v == toVirtual[r]
  <2>1. v \in Vids(prog) /\ v \in ActiveVids
    BY <1>12, <1>13 DEF ActiveVids
  <2>2. (CHOOSE q \in Pids : toVirtual[q] = v) = r
    BY <1>12, <1>13
  <2>3. realId'[v] = (CHOOSE q \in Pids : toVirtual[q] = v)
                       - Cardinality({q \in Dropped : q < (CHOOSE p \in Pids : toVirtual[p] = v)})
    BY <1>1, <2>1 DEF Shrink
  <2> QED BY <2>2, <2>3 DEF Rank, D
<1>14. ASSUME NEW v \in Vids(prog), v \notin ActiveVids PROVE realId'[v] = realId[v]
  BY <1>1, <1>14 DEF Shrink
<1>15. \A v \in ActiveVids : \E r \in Pids : toVirtual[r] = v /\ v # None
  BY DEF ActiveVids
<1>16. ASSUME NEW v \in Vids(prog)
       PROVE  realId'[v] \in Nat \cup {None} /\ ((realId'[v] = None) <=> (realId[v] = None))
  <2>1. CASE v \in ActiveVids
    <3>1. PICK r \in Pids : toVirtual[r] = v /\ v # None
      BY <1>15, <2>1
    <3>2. realId'[v] = New(r) /\ New(r) \in Nat /\ realId[v] = r /\ r \in Nat
      BY <1>3, <1>5, <1>9, <1>12, <1>13, <3>1
    <3> QED BY <3>2 DEF None
  <2>2. CASE v \notin ActiveVids
    BY <1>3, <1>14, <2>2
  <2> QED BY <2>1, <2>2
<1>17. realId' \in [Vids(prog) -> Nat \cup {None}]
  <2>1. realId' = [v \in Vids(prog) |-> realId'[v]]
    BY <1>1 DEF Shrink
  <2> QED BY <1>16, <2>1
<1>18. ASSUME NEW v \in Vids(prog), OnItsPid(v) PROVE OnItsPid(v)'
  <2>1. realId[v] \in Pids /\ toVirtual[realId[v]] = v /\ v # None
    BY <1>18 DEF OnItsPid, Vids, None
  <2> QED BY <1>5, <1>12, <1>13, <2>1 DEF OnItsPid
<1>19. ASSUME NEW i \in Pids', toVirtual'[i] # None
       PROVE  realId'[toVirtual'[i]] = i /\ \E q \in Pids : toVirtual[q] = toVirtual'[i]
  <2>1. PICK r \in Pids \ D : i = New(r)
    BY <1>5
  <2> QED BY <1>5, <1>13, <1>19, <2>1
<1>20. WhyStuck' /\ ResultOK'
  BY <1>1, <1>2, <1>3 DEF WhyStuck, ResultOK, SlotsBalance
<1>21. Simulation'
  BY <1>1, <1>2, <1>3, <1>6, <1>9, <1>10, <1>11, <1>16, <1>17, <1>18, <1>19, <1>20, Renumbered
<1>22. D = FreePids => FreePids' = {}
  BY <1>5 DEF FreePids
<1> QED BY <1>1, <1>2, <1>8, <1>21, <1>22

-----------------------------------------------------------------------------
(***************************************************************************)
(* The legalization run.                                                   *)
(***************************************************************************)

\* A simulation with nothing left has used every slot.
LEMMA SlotsUsedUp ==
  ASSUME SimOK, SlotInv, ~SomethingLeft
  PROVE  \A v \in Vids(prog) : producerCount[v] = 0 /\ consumerCount[v] = 0
<1>1. Pending = {}
  BY NothingLeft DEF SimOK, AllDone
<1>2. \A v : WaitingOn(v) = {} /\ StillToPost(v) = {}
  BY <1>1 DEF WaitingOn, StillToPost
<1> QED BY <1>2, SumEmpty DEF SlotInv, CountsOK

\* The batch that the active VIDs join exceeds the limit if they do.
LEMMA BatchGrows ==
  ASSUME WellFormed(prog), BatchesOK, NEW S \in SUBSET Vids(prog), Cardinality(S) > NumPids,
         batches' = [(IF NewBatchNeeded THEN Append(batches, {}) ELSE batches)
                       EXCEPT ![Len(IF NewBatchNeeded THEN Append(batches, {}) ELSE batches)] = @ \cup S],
         prog' = prog
  PROVE  BatchesOK' /\ batches' # <<>>
<1> DEFINE open == IF NewBatchNeeded THEN Append(batches, {}) ELSE batches
           n == Len(open)
<1>1. batches \in Seq(SUBSET Vids(prog)) /\ \A i \in 1 .. Len(batches) : Cardinality(batches[i]) > NumPids
  BY DEF BatchesOK
<1>2. /\ open \in Seq(SUBSET Vids(prog)) /\ n \in Nat \ {0}
      /\ \A i \in 1 .. n : i # n => Cardinality(open[i]) > NumPids
  <2>1. CASE NewBatchNeeded
    <3>1. Append(batches, {}) \in Seq(SUBSET Vids(prog)) /\ Len(Append(batches, {})) = Len(batches) + 1
          /\ \A i \in 1 .. Len(batches) : Append(batches, {})[i] = batches[i]
      BY <1>1
    <3> QED BY <1>1, <2>1, <3>1
  <2>2. CASE ~NewBatchNeeded
    <3>1. batches # <<>>
      BY <2>2 DEF NewBatchNeeded
    <3> QED BY <1>1, <2>2, <3>1
  <2> QED BY <2>1, <2>2
<1>3. batches' = [open EXCEPT ![n] = open[n] \cup S]
  OBVIOUS
<1> HIDE DEF open, n
<1>4. n = Len(open) /\ n \in 1 .. Len(open) /\ open[n] \in SUBSET Vids(prog)
  <2>1. n = Len(open)
    BY DEF n
  <2> QED BY <1>2, <2>1
<1>5. Cardinality(open[n] \cup S) > NumPids
  <2>1. IsFiniteSet(Vids(prog))
    <3>1. prog.numBarriers \in Nat
      BY DEF WellFormed
    <3>2. 0 \in Int /\ prog.numBarriers - 1 \in Int
      BY <3>1
    <3> QED BY <3>2, FS_Interval DEF Vids
  <2>2. open[n] \cup S \in SUBSET Vids(prog) /\ S \in SUBSET (open[n] \cup S)
    BY <1>4
  <2>3. IsFiniteSet(open[n] \cup S)
    BY <2>1, <2>2, FS_Subset
  <2>4. Cardinality(S) <= Cardinality(open[n] \cup S) /\ IsFiniteSet(S)
    BY <2>2, <2>3, FS_Subset
  <2> QED BY <2>3, <2>4, FS_CardinalityType, NumPidsAssumption
<1>6. /\ batches' \in Seq(SUBSET Vids(prog)) /\ Len(batches') = n
      /\ \A i \in 1 .. n : batches'[i] = IF i = n THEN open[n] \cup S ELSE open[i]
  <2> DEFINE V == SUBSET Vids(prog)
             x == open[n] \cup S
  <2>1. open \in Seq(V) /\ n \in 1 .. Len(open) /\ x \in V /\ batches' = [open EXCEPT ![n] = x] /\ n = Len(open)
    BY <1>2, <1>3, <1>4
  <2> HIDE DEF V, x
  <2>2. ASSUME NEW o \in Seq(V), NEW k \in 1 .. Len(o), NEW y \in V, NEW e, e = [o EXCEPT ![k] = y]
        PROVE  e \in Seq(V) /\ Len(e) = Len(o) /\ \A i \in 1 .. Len(o) : e[i] = IF i = k THEN y ELSE o[i]
    BY <2>2, ExceptSeq
  <2>3. PICK o, k, y, e : o = open /\ k = n /\ y = x /\ e = batches'
    OBVIOUS
  <2>4. e = [o EXCEPT ![k] = y] /\ o \in Seq(V) /\ k \in 1 .. Len(o) /\ y \in V
    BY <2>1, <2>3, Zenon
  <2>5. e \in Seq(V) /\ Len(e) = Len(o) /\ \A i \in 1 .. Len(o) : e[i] = IF i = k THEN y ELSE o[i]
    BY <2>2, <2>4
  <2> QED BY <2>1, <2>3, <2>5 DEF V, x
<1>7. ASSUME NEW i \in 1 .. n PROVE Cardinality(batches'[i]) > NumPids
  BY <1>2, <1>5, <1>6
<1> QED BY <1>2, <1>6, <1>7 DEF BatchesOK

\* The mapping loop ends with every PID beyond the limit in use.
LEMMA NoneUnmapped ==
  ASSUME Simulation, RoomToGrow, stage = "map", ~HasBarrierToMap, Exceeding
  PROVE  FreePids = {}
BY CanMapWhenFree DEF RoomToGrow

LEMMA RecordKeeps ==
  ASSUME prog \in Programs, BatchesOK, Legalizing, StopMappingAndRecord
  PROVE  BatchesOK' /\ Legalizing'
<1>1. /\ Simulation /\ RoomToGrow /\ BatchFollows /\ mode = "dynamic" /\ Size >= NumPids /\ Size \in Nat
      /\ SimOK /\ SlotInv /\ ResultOK /\ Types /\ WellFormed(prog) /\ WhyStuck /\ NumPids \in Nat
  BY NumPidsAssumption DEF Legalizing, Simulation, SimOK, Types, SlotInv
<1>2. /\ stage = "map" /\ ~HasBarrierToMap /\ fifo' = 1
      /\ UNCHANGED <<prog, mode, parsed, mapping, step, pos, progressed>>
  BY DEF StopMappingAndRecord
<1>3. Exceeding => FreePids = {}
  BY <1>1, <1>2, NoneUnmapped
<1>4. /\ stage' = "fifos" /\ result' = result
      /\ batches' = IF Exceeding
           THEN [(IF NewBatchNeeded THEN Append(batches, {}) ELSE batches)
                   EXCEPT ![Len(IF NewBatchNeeded THEN Append(batches, {}) ELSE batches)] = @ \cup ActiveVids]
           ELSE batches
  BY <1>3 DEF StopMappingAndRecord
<1>5. /\ UNCHANGED <<bar, realId, toVirtual, nextReal, pidQueue, queue, producerCount, consumerCount>>
      /\ HasBarrierToMap' = HasBarrierToMap
  BY <1>1, <1>2, NothingToMapStays DEF mapping, parsed
<1>6. WhyStuck' /\ ResultOK'
  <2>1. SomethingLeft' = SomethingLeft
    BY <1>2, <1>5 DEF SomethingLeft, FifoComplete
  <2>2. \A g \in 1 .. NumFifos : ~(g < 1)
    OBVIOUS
  <2>3. result = "none"
    BY <1>1, <1>2 DEF ResultOK
  <2> QED BY <1>1, <1>2, <1>4, <1>5, <2>1, <2>2, <2>3 DEF WhyStuck, ResultOK, SlotsBalance
<1>7. Simulation' /\ Pids' = Pids
  <2>1. fifo' \in 1 .. NumFifos + 1 /\ progressed' \in BOOLEAN
    BY <1>1, <1>2, NumFifosAssumption DEF Types
  <2> QED BY <1>1, <1>2, <1>4, <1>5, <1>6, <2>1, SimulationRests
<1>8. Size' = Size /\ (Exceeding' <=> Exceeding)
  BY <1>7 DEF Size, Exceeding
<1>9. CASE Exceeding
  <2>1. ActiveVids \in SUBSET Vids(prog)
    <3>1. toVirtual \in [Pids -> Vids(prog) \cup {None}]
      BY <1>1 DEF Types
    <3> QED BY <3>1 DEF ActiveVids
  <2>2. Cardinality(ActiveVids) > NumPids
    BY <1>1, <1>3, <1>9, PidsFinite, ActiveCount DEF Exceeding
  <2>3. BatchesOK' /\ batches' # <<>>
    BY <1>1, <1>2, <1>4, <1>9, <2>1, <2>2, BatchGrows
  <2> QED BY <1>1, <1>2, <1>4, <1>7, <1>8, <1>9, <2>3, DeadEndStays
          DEF Legalizing, RoomToGrow, BatchFollows
<1>10. CASE ~Exceeding
  <2>1. BatchesOK'
    BY <1>2, <1>4, <1>10 DEF BatchesOK
  <2>2. DeadEndsAhead => DeadEndsAhead'
    BY <1>1, <1>2, <1>5, AheadQuiet
  <2> QED BY <1>1, <1>2, <1>4, <1>7, <1>8, <1>10, <2>1, <2>2, DeadEndStays
          DEF Legalizing, RoomToGrow, BatchFollows
<1> QED BY <1>9, <1>10

\* A simulator that was just built has not passed a dead end.
LEMMA FreshSimulation ==
  Fresh /\ mode = "dynamic" => Simulation /\ Size = NumPids /\ DeadEndsAhead
<1> SUFFICES ASSUME Fresh, mode = "dynamic" PROVE Simulation /\ Size = NumPids /\ DeadEndsAhead
  OBVIOUS
<1>1. /\ prog \in Programs /\ stage = "parse" /\ step = 1 /\ bar = 0
      /\ queue = [f \in 1 .. NumFifos |-> <<>>] /\ toVirtual = [r \in 0 .. NumPids - 1 |-> None]
  BY DEF Fresh, Start, PerFifo, PerPid
<1>2. TypeOK /\ SimOK /\ SlotInv /\ SimOrder /\ QueuesInOrder /\ Pids = 0 .. NumPids - 1
  BY <1>1, TypeInit, MappingInit, SlotInit, SimInit, QueuesEmpty, TypesOfTypeOK DEF SimOK
<1>3. Size = NumPids /\ Size \in Nat
  <2>1. 0 \in Int /\ NumPids - 1 \in Int /\ (IF 0 > NumPids - 1 THEN 0 ELSE (NumPids - 1) - 0 + 1) = NumPids
    BY NumPidsAssumption
  <2> QED BY <1>2, <2>1, FS_Interval, NumPidsAssumption DEF Size
<1>4. ActiveOK
  <2>1. \A t \in Tasks(prog) : ~Parsed(t)
    BY <1>1 DEF Parsed, Tasks
  <2>2. \A v \in Vids(prog) : ~(v < 0)
    BY DEF Vids
  <2> QED BY <1>1, <1>2, <2>1, <2>2 DEF ActiveOK, UsersPending
<1>5. WhyStuck
  BY <1>1 DEF WhyStuck
<1>6. DeadEndsAhead
  BY <1>1 DEF DeadEndsAhead
<1> QED BY <1>2, <1>3, <1>4, <1>5, <1>6 DEF Simulation

\* What the common steps do to the program counter and the result.
LEMMA CommonControl ==
  ASSUME CommonStep
  PROVE  /\ stage # "done"
         /\ (stage' # "done" /\ result' = result) \/ result' = "miscount"
         /\ stage' = "parse" => stage = "parse"
         /\ stage \in {"loop", "map"} => stage' = "map"
         /\ stage' \in {"loop", "map"} => BeginIteration \/ MapBarrier
BY DEF CommonStep, ParseTask, BeginIteration, MapBarrier, BeginTask, NextFifo, ConsumeBarrier,
       ProduceBarrier, ContinueIf, EndTask

\* The one free PID beyond the limit is taken by the next VID.
LEMMA RoomStays ==
  ASSUME prog \in Programs, Simulation, RoomToGrow, Exceeding, MapBarrier
  PROVE  FreePids' = {}
<1>1. stage = "map" /\ HasBarrierToMap /\ bar < prog.numBarriers /\ MapDynamic
  BY DEF MapBarrier, HasBarrierToMap, MapInstance, MapStatic, Simulation
<1>2. Types /\ Dynamic /\ bar \in Vids(prog) /\ bar # None
  BY <1>1, NextVidExists DEF Simulation, SimOK, MapDynamic, Vids, None
<1> DEFINE r == nextReal[Min(Acceptable)]
<1>3. r \in Pids /\ toVirtual[r] = None
  <2>1. r \in Pids /\ Min(Acceptable) \in 1 .. Len(nextReal)
    BY <1>1, <1>2, RingPick
  <2>2. nextReal \in Seq(Pids) /\ RingHoldsFreePids
    BY <1>2 DEF Types, Simulation, SimOK, MappingInv
  <2>3. InSeq(r, nextReal)
    BY <2>1, <2>2 DEF InSeq
  <2> QED BY <1>2, <2>1, <2>2, <2>3 DEF RingHoldsFreePids
<1>4. toVirtual' = [toVirtual EXCEPT ![r] = bar] /\ toVirtual \in [Pids -> Vids(prog) \cup {None}]
  BY <1>1, <1>2 DEF MapDynamic, Program, Types
<1> HIDE DEF r
<1>5. r \in FreePids
  BY <1>3 DEF FreePids
<1>6. \A q \in FreePids : q = r
  <2>1. IsFiniteSet(FreePids) /\ Cardinality(FreePids) = 1
    BY <1>1, <1>5, PidsFinite DEF RoomToGrow
  <2>2. \E x : FreePids = {x}
    BY <2>1, FS_Singleton
  <2> QED BY <1>5, <2>2
<1>7. Pids' = Pids
  BY <1>4 DEF Pids
<1>8. \A q \in Pids : toVirtual'[q] # None
  BY <1>2, <1>4, <1>6 DEF FreePids
<1> QED BY <1>7, <1>8 DEF FreePids

\* The steps that the legalization run shares with a plain one.
LEMMA CommonKeeps ==
  ASSUME prog \in Programs, BatchesOK, Legalizing, CommonStep, UNCHANGED batches
  PROVE  BatchesOK' /\ Legalizing'
<1>1. /\ Simulation /\ RoomToGrow /\ BatchFollows /\ Size >= NumPids
      /\ ResultOK /\ Size \in Nat /\ NumPids \in Nat
  BY NumPidsAssumption DEF Legalizing, Simulation, SlotInv
<1>2. Simulation' /\ Pids' = Pids /\ prog' = prog
  BY <1>1, SimulationCommon
<1>3. Size' = Size /\ (Exceeding' <=> Exceeding) /\ HasDeadEnd' = HasDeadEnd
  BY <1>2, DeadEndStays DEF Size, Exceeding
<1>4. result = "none" /\ result' = "none" /\ stage' # "done"
  <2>1. result' # "miscount"
    BY <1>2 DEF Simulation, SlotInv, ResultOK, SlotsBalance
  <2> QED BY <1>1, <2>1, CommonControl DEF ResultOK
<1>5. RoomToGrow'
  <2>1. CASE BeginIteration
    <3>1. stage = "loop" /\ UNCHANGED <<bar, toVirtual, prog>>
      BY <2>1 DEF BeginIteration, mapping
    <3>2. FreePids' = FreePids
      BY <3>1 DEF FreePids, Pids
    <3> QED BY <1>1, <1>3, <3>1, <3>2 DEF RoomToGrow
  <2>2. CASE MapBarrier
    BY <1>1, <1>3, <2>2, RoomStays DEF RoomToGrow
  <2>3. CASE ~(BeginIteration \/ MapBarrier)
    BY <2>3, CommonControl DEF RoomToGrow
  <2> QED BY <2>1, <2>2, <2>3
<1>6. BatchFollows'
  BY <1>1, <1>3, CommonControl DEF BatchFollows
<1>7. (batches = <<>> /\ ~Exceeding => DeadEndsAhead)'
  <2>1. ~Exceeding => Size = NumPids
    BY <1>1 DEF Exceeding
  <2> QED BY <1>1, <1>3, <2>1, AheadCommon DEF Legalizing
<1>8. BatchesOK'
  BY <1>2 DEF BatchesOK
<1>9. (stage = "parse" => ~Exceeding)'
  BY <1>3, CommonControl DEF Legalizing
<1> QED BY <1>1, <1>2, <1>3, <1>4, <1>5, <1>6, <1>7, <1>8, <1>9 DEF Legalizing

\* The end of an iteration: the schedule is blocked and gets a PID, free PIDs beyond
\* the limit go, or all PIDs stay.
LEMMA IterationKeeps ==
  ASSUME prog \in Programs, BatchesOK, Legalizing, EndLegalIteration
  PROVE  BatchesOK' /\ Legalizing'
<1>1. /\ Simulation /\ BatchFollows /\ Size >= NumPids /\ SimOK /\ Types
      /\ ResultOK /\ Size \in Nat /\ NumPids \in Nat /\ bar \in Nat /\ WellFormed(prog)
  BY NumPidsAssumption DEF Legalizing, Simulation, SlotInv, SimOK, Types
<1>2. /\ IterationDone /\ stage = "fifos" /\ result = "none"
      /\ UNCHANGED <<prog, mode, parsed, bar, pidQueue, step, fifo, pos, batches>>
  BY <1>1 DEF EndLegalIteration, IterationDone, ResultOK
<1>3. /\ Exceeding => batches # <<>>
      /\ HasDeadEnd' = HasDeadEnd
      /\ BatchesOK'
  BY <1>1, <1>2, DeadEndStays DEF BatchFollows, BatchesOK
<1>4. CASE ~progressed
  <2>1. bar < prog.numBarriers /\ FreePids = {} /\ DeadEnd(bar, Pending)
    BY <1>1, <1>2, <1>4, BlockedIsDeadEnd
  <2>2. HasDeadEnd
    <3>1. bar \in 0 .. prog.numBarriers /\ Pending \in SUBSET Tasks(prog)
      BY <1>1, <2>1 DEF Pending, WellFormed
    <3> QED BY <2>1, <3>1 DEF HasDeadEnd
  <2>3. /\ Simulation' /\ Size' = Size + 1
        /\ Cardinality(FreePids') = 1 /\ UNCHANGED <<prog, bar, result>> /\ stage' = "loop"
    BY <1>1, <1>4, <2>1, GrowKeeps
  <2>4. Size' >= NumPids /\ Exceeding'
    BY <1>1, <2>3 DEF Exceeding
  <2>5. RoomToGrow' /\ BatchFollows'
    BY <2>1, <2>3 DEF RoomToGrow, BatchFollows
  <2> QED BY <1>2, <1>3, <2>4, <2>5, <2>2, <2>3 DEF Legalizing
<1>5. CASE progressed /\ FreePids # {} /\ Exceeding
  <2>1. /\ Simulation' /\ Size' >= NumPids
        /\ Size' > NumPids => FreePids' = {}
        /\ UNCHANGED <<prog, bar, result>> /\ stage' = "loop"
    BY <1>1, <1>5, ShrinkKeeps
  <2>2. RoomToGrow'
    BY <2>1 DEF RoomToGrow, Exceeding
  <2>3. batches' # <<>> /\ HasDeadEnd'
    BY <1>2, <1>3, <1>5 DEF Legalizing
  <2>4. BatchFollows'
    BY <2>3 DEF BatchFollows
  <2> QED BY <1>2, <1>3, <2>1, <2>2, <2>3, <2>4 DEF Legalizing
<1>6. CASE progressed /\ (FreePids = {} \/ ~Exceeding)
  <2>1. stage' = "loop" /\ UNCHANGED <<realId, toVirtual, prevVid, nextReal, progressed, result>>
    BY <1>6 DEF EndLegalIteration
  <2>2. WhyStuck' /\ ResultOK'
    BY <1>1, <1>2, <1>6, <2>1 DEF WhyStuck, ResultOK, SlotsBalance
  <2>3. Simulation' /\ Pids' = Pids
    <3>1. fifo' \in 1 .. NumFifos + 1 /\ progressed' \in BOOLEAN
      BY <1>1, <1>2, <2>1 DEF Types
    <3> QED BY <1>1, <1>2, <2>1, <2>2, <3>1, SimulationRests
  <2>4. Size' = Size /\ Exceeding' = Exceeding /\ FreePids' = FreePids
    BY <2>1, <2>3 DEF Size, Exceeding, FreePids
  <2>5. RoomToGrow' /\ BatchFollows'
    BY <1>2, <1>3, <1>6, <2>1, <2>4 DEF RoomToGrow, BatchFollows
  <2>6. DeadEndsAhead => DeadEndsAhead'
    BY <1>1, <1>2, AheadQuiet DEF parsed
  <2> QED BY <1>1, <1>2, <1>3, <2>1, <2>3, <2>4, <2>5, <2>6 DEF Legalizing
<1> QED BY <1>4, <1>5, <1>6 DEF EndLegalIteration

\* The run ends: if it recorded no batch, the PIDs of the hardware sufficed.
LEMMA LegalizationEnds ==
  ASSUME prog \in Programs, BatchesOK, Legalizing, EndLegalization
  PROVE  BatchesOK' /\ Legalizing'
<1>1. /\ Simulation /\ BatchFollows /\ Size >= NumPids /\ SimOK /\ SlotInv /\ Types
      /\ ResultOK /\ Size \in Nat /\ NumPids \in Nat /\ bar \in Nat /\ WellFormed(prog)
  BY NumPidsAssumption DEF Legalizing, Simulation, SlotInv, SimOK, Types
<1>2. /\ stage = "loop" /\ ~SomethingLeft /\ stage' = "done"
      /\ result' = IF batches = <<>> THEN "success" ELSE "exceeds"
      /\ UNCHANGED <<prog, mode, parsed, mapping, step, fifo, pos, progressed, batches>>
  BY DEF EndLegalization, Finish
<1>3. UNCHANGED <<realId, toVirtual, nextReal, bar, pidQueue, producerCount, consumerCount>>
  BY <1>2 DEF mapping, parsed
<1>4. WhyStuck' /\ ResultOK'
  <2>1. \A v \in Vids(prog) : producerCount[v] = 0 /\ consumerCount[v] = 0
    BY <1>1, <1>2, SlotsUsedUp
  <2> QED BY <1>2, <1>3, <2>1 DEF WhyStuck, ResultOK, SlotsBalance
<1>5. Simulation' /\ Pids' = Pids
  <2>1. fifo' \in 1 .. NumFifos + 1 /\ progressed' \in BOOLEAN
    BY <1>1, <1>2 DEF Types
  <2> QED BY <1>1, <1>2, <1>3, <1>4, <2>1, SimulationRests
<1>6. Size' = Size /\ Exceeding' = Exceeding /\ HasDeadEnd' = HasDeadEnd
  BY <1>2, <1>5, DeadEndStays DEF Size, Exceeding
<1>7. AllDone /\ ~(bar < prog.numBarriers)
  BY <1>1, <1>2, NothingLeft DEF AllDone, WellFormed
<1>8. batches = <<>> => ~Exceeding /\ DeadEndsAhead /\ ~HasDeadEnd
  <2>1. batches = <<>> => ~Exceeding
    BY <1>1, <1>2, <1>7 DEF BatchFollows
  <2> QED BY <1>1, <1>2, <1>7, <2>1, NoneAheadOfAllDone DEF Legalizing
<1>9. DeadEndsAhead => DeadEndsAhead'
  BY <1>1, <1>2, <1>3, AheadQuiet DEF parsed
<1>10. BatchesOK' /\ RoomToGrow' /\ BatchFollows'
  BY <1>2, <1>6, <1>8 DEF BatchesOK, RoomToGrow, BatchFollows
<1> QED BY <1>1, <1>2, <1>5, <1>6, <1>8, <1>9, <1>10 DEF Legalizing

\* The first iteration.
LEMMA LegalizationBegins ==
  ASSUME prog \in Programs, BatchesOK, Legalizing, BeginLegalization, UNCHANGED batches
  PROVE  BatchesOK' /\ Legalizing'
<1>1. /\ Simulation /\ Size >= NumPids /\ SimOK /\ Types /\ ResultOK /\ ~Exceeding
  BY DEF BeginLegalization, Legalizing, Simulation, SlotInv, SimOK
<1>2. /\ stage = "parse" /\ step > prog.numTasks /\ stage' = "loop" /\ result = "none"
      /\ UNCHANGED <<prog, mode, parsed, mapping, step, fifo, pos, progressed, result>>
  BY <1>1 DEF BeginLegalization, ResultOK
<1>3. UNCHANGED <<realId, toVirtual, nextReal, bar, pidQueue, queue>>
  BY <1>2 DEF mapping, parsed
<1>4. WhyStuck' /\ ResultOK'
  BY <1>1, <1>2 DEF WhyStuck, ResultOK, SlotsBalance
<1>5. Simulation' /\ Pids' = Pids
  <2>1. fifo' \in 1 .. NumFifos + 1 /\ progressed' \in BOOLEAN
    BY <1>1, <1>2 DEF Types
  <2> QED BY <1>1, <1>2, <1>3, <1>4, <2>1, SimulationRests
<1>6. Size' = Size /\ Exceeding' = Exceeding /\ HasDeadEnd' = HasDeadEnd
  BY <1>2, <1>5, DeadEndStays DEF Size, Exceeding
<1>7. DeadEndsAhead => DeadEndsAhead'
  BY <1>1, <1>2, <1>3, AheadQuiet
<1> QED BY <1>1, <1>2, <1>5, <1>6, <1>7 DEF Legalizing, BatchesOK, RoomToGrow, BatchFollows

-----------------------------------------------------------------------------
(***************************************************************************)
(* The run that assigns the PIDs, and the two runs together.               *)
(***************************************************************************)

\* It stops in a dead end, or has found none when everything has run.
LEMMA AssigningNext ==
  ASSUME prog \in Programs, Assigning, Next, UNCHANGED <<run, verdict>>
  PROVE  Assigning'
<1>1. /\ Simulation /\ Size = NumPids /\ DeadEndsAhead /\ mode = "dynamic"
      /\ SimOK /\ SlotInv /\ Types /\ WhyStuck /\ ResultOK /\ stage # "pages" /\ MappingsAgree
  BY DEF Assigning, Simulation, SimOK, SlotInv, MappingInv, QueuedHavePid
<1>2. CASE CommonStep
  <2>1. Simulation' /\ Pids' = Pids /\ prog' = prog
    BY <1>1, <1>2, SimulationCommon
  <2>2. result' = "none"
    <3>1. result' # "miscount"
      BY <2>1 DEF Simulation, SlotInv, ResultOK, SlotsBalance
    <3> QED BY <1>1, <1>2, <3>1, CommonControl DEF ResultOK
  <2>3. DeadEndsAhead' /\ HasDeadEnd' = HasDeadEnd
    BY <1>1, <1>2, <2>1, AheadCommon, DeadEndStays
  <2> QED BY <2>1, <2>2, <2>3 DEF Assigning, Size
<1>3. ASSUME CheckSlots \/ Succeed \/ StopMapping \/ EndIteration
      PROVE  Assigning'
  <2>1. /\ stage # "task"
        /\ stage = "parse" => step > prog.numTasks
        /\ stage' \in {"loop", "fifos", "done"} /\ fifo' \in {fifo, 1}
        /\ UNCHANGED <<prog, mode, parsed, mapping, step, pos, progressed>>
    BY <1>3 DEF CheckSlots, Succeed, StopMapping, EndIteration, IterationDone, Finish
  <2>2. fifo' \in 1 .. NumFifos + 1 /\ progressed' \in BOOLEAN
    BY <1>1, <2>1, NumFifosAssumption DEF Types
  <2>3. WhyStuck' /\ ResultOK'
    <3>1. SlotInv'
      BY <1>1, <1>3, SlotsBetween
    <3> QED BY <1>1, <3>1, WhyStuckNext DEF SlotInv
  <2>4. UNCHANGED <<realId, toVirtual, nextReal, bar, pidQueue, queue>>
    BY <2>1 DEF mapping, parsed
  <2>5. Simulation' /\ Pids' = Pids
    BY <1>1, <2>3, <2>4, <2>1, <2>2, SimulationRests
  <2>6. DeadEndsAhead' /\ HasDeadEnd' = HasDeadEnd
    BY <1>1, <2>1, <2>4, AheadQuiet, DeadEndStays
  <2>7. result' = "success" => ~HasDeadEnd
    <3>1. CASE Succeed
      BY <1>1, <3>1, NothingLeft, NoneAheadOfAllDone DEF Succeed
    <3>2. CASE CheckSlots \/ StopMapping \/ EndIteration
      BY <3>2 DEF CheckSlots, StopMapping, EndIteration, Finish, Assigning
    <3> QED BY <1>3, <3>1, <3>2
  <2>8. result' = "blocked" => HasDeadEnd
    <3>1. CASE EndIteration /\ ~progressed
      <4>1. bar < prog.numBarriers /\ DeadEnd(bar, Pending)
        BY <1>1, <3>1, BlockedIsDeadEnd, NumPidsAssumption DEF EndIteration
      <4>2. bar \in 0 .. prog.numBarriers /\ Pending \in SUBSET Tasks(prog)
        BY <1>1, <4>1 DEF Pending, Types, WellFormed
      <4> QED BY <4>1, <4>2 DEF HasDeadEnd
    <3>2. CASE CheckSlots \/ StopMapping \/ Succeed \/ (EndIteration /\ progressed)
      BY <3>2 DEF CheckSlots, StopMapping, Succeed, EndIteration, Finish, Assigning
    <3> QED BY <1>3, <3>1, <3>2
  <2> QED BY <1>1, <2>5, <2>6, <2>7, <2>8 DEF Assigning, Size
<1>4. ~(BeginPages \/ AssignPage \/ EndPages)
  BY <1>1 DEF BeginPages, AssignPage, EndPages
<1> QED BY <1>2, <1>3, <1>4 DEF Next, Construct, Simulate, CommonStep

\* No check of the code that throws finds anything.
LEMMA SimulatorNeverThrows ==
  ASSUME SimOK, result # "throw", mode # "pages", Next
  PROVE  result' # "throw"
<1>1. stage # "pages" /\ ~Mismatch
  BY DEF SimOK, MappingInv, QueuedHavePid, MappingsAgree
<1> QED BY <1>1 DEF Next, Construct, Simulate, ParseTask, CheckSlots, BeginPages, AssignPage, EndPages,
       BeginIteration, Succeed, MapBarrier, StopMapping, BeginTask, NextFifo, ConsumeBarrier,
       ProduceBarrier, ContinueIf, EndTask, EndIteration, Finish

\* The checks of the legalization run are not made with WLM.
LEMMA WlmNeverThrows ==
  ASSUME mode = "wlm", result # "throw", LegalizeStep
  PROVE  result' # "throw" /\ prog' = prog /\ mode' = mode
BY DEF LegalizeStep, StopMappingAndRecord, EndLegalIteration, GrowOrThrow, Shrink, EndLegalization,
       ParseTask, BeginLegalization, BeginIteration, MapBarrier, BeginTask, NextFifo, ConsumeBarrier,
       ProduceBarrier, ContinueIf, EndTask, Finish

\* The second simulator is built for the schedule of the first.
LEMMA AssignBegins ==
  ASSUME LegalInv, BeginAssign
  PROVE  LegalInv'
<1>1. /\ run = "legalize" /\ stage = "done" /\ run' = "assign" /\ verdict' = result
      /\ Restart(mode, PerVid(prog, None)) /\ batches' = batches
      /\ prog \in Programs /\ mode \in {"dynamic", "wlm"} /\ result # "throw"
  BY DEF BeginAssign, LegalInv
<1>2. prog' = prog /\ mode' = mode /\ result' = "none"
  BY <1>1 DEF Restart
<1>3. Fresh'
  <2>1. PerVid(prog, None) \in GivenIds(prog, mode)
    BY <1>1 DEF GivenIds
  <2>2. mode \in AllModes
    BY <1>1 DEF AllModes
  <2>3. \A p : p = prog => \A m : m = mode => \A ids : ids = PerVid(prog, None) => Start(p, m, ids)'
    BY <1>1 DEF Restart, Start
  <2>4. PICK p, m, ids : p = prog /\ m = mode /\ ids = PerVid(prog, None)
    OBVIOUS
  <2>5. p \in Programs /\ m \in AllModes /\ ids \in GivenIds(p, m) /\ Start(p, m, ids)'
    BY <1>1, <2>1, <2>2, <2>3, <2>4
  <2>6. (\E i \in GivenIds(p, m) : Start(p, m, i))'
    BY <2>5 DEF GivenIds
  <2> QED BY <2>5, <2>6 DEF Fresh
<1>4. BaseInv' /\ SlotInv'
  <2>1. (Fresh => TypeOK /\ ControlOK)' /\ (Fresh => MappingInv)' /\ (Fresh => SlotInv)'
        /\ (TypeOK => Types /\ Pids = 0 .. NumPids - 1)'
    BY TypeInit, MappingInit, SlotInit, TypesOfTypeOK, PTL
  <2> QED BY <1>3, <2>1 DEF BaseInv, SimOK
<1>5. ASSUME mode = "dynamic" PROVE BatchesOK' /\ Assigning'
  <2>1. Legalizing /\ BatchesOK
    BY <1>1, <1>5 DEF LegalInv
  <2>2. Simulation' /\ Size' = NumPids /\ DeadEndsAhead'
    <3>1. (Fresh /\ mode = "dynamic" => Simulation /\ Size = NumPids /\ DeadEndsAhead)'
      BY FreshSimulation, PTL
    <3> QED BY <1>2, <1>3, <1>5, <3>1
  <2>3. /\ verdict' \in {"success", "exceeds"}
        /\ verdict' = "success" => ~HasDeadEnd
        /\ verdict' = "exceeds" => HasDeadEnd
    BY <1>1, <2>1 DEF Legalizing
  <2> QED BY <1>1, <1>2, <2>1, <2>2, <2>3, DeadEndStays DEF Assigning, BatchesOK
<1> QED BY <1>1, <1>2, <1>4, <1>5 DEF LegalInv

\* A step that changes nothing.
LEMMA SimulationStutters ==
  ASSUME Simulation, UNCHANGED vars
  PROVE  /\ Simulation' /\ Pids' = Pids /\ HasDeadEnd' = HasDeadEnd
         /\ DeadEndsAhead' = DeadEndsAhead
<1>1. /\ UNCHANGED <<prog, mode, stage, step, fifo, queue, pos, bar, realId, producerCount>>
      /\ UNCHANGED <<consumerCount, toVirtual, prevVid, nextReal, pidQueue, progressed, result>>
  BY DEF vars, parsed, mapping, control
<1>2. Pids' = Pids /\ Dynamic' = Dynamic /\ Pending' = Pending /\ HeadTask' = HeadTask
  BY <1>1 DEF Pids, Dynamic, Pending, StillQueued, HeadTask, Task
<1>3. SimOK'
  <2>1. Types' /\ ControlOK'
    BY <1>1, <1>2 DEF Simulation, SimOK, Types, ControlOK
  <2>2. MappingInv'
    BY <1>1, <1>2 DEF Simulation, SimOK, MappingInv, MappingsAgree, Mismatch, RingHoldsFreePids,
                      UnconsumedKeepPid, QueuedHavePid, NothingMappedYet
  <2> QED BY <2>1, <2>2 DEF SimOK
<1>4. SlotInv'
  BY SlotsStutter DEF Simulation
<1>5. QueuesInOrder' /\ SimOrder'
  BY <1>1, <1>2 DEF Simulation, QueuesInOrder, SimOrder, SimulatedInOrder, TaskBegun, Parsed, Waits, Posts
<1>6. ActiveOK'
  BY <1>1, <1>2 DEF Simulation, ActiveOK, UsersPending, Parsed, Uses, Waits, Posts, OnItsPid, Consumers
<1>7. WhyStuck'
  <2>1. SomethingLeft' = SomethingLeft /\ HasBarrierToMap' = HasBarrierToMap
    BY <1>1, NothingToMapStays DEF Simulation, SomethingLeft, FifoComplete, mapping
  <2>2. \A g \in 1 .. NumFifos : /\ FifoComplete(g)' = FifoComplete(g)
                                 /\ TaskReady(Task(g))' = TaskReady(Task(g))
    BY <1>1, <1>2 DEF FifoComplete, TaskReady, Task, IsBarrierMapped, Waits, Posts
  <2> QED BY <1>1, <2>1, <2>2 DEF Simulation, WhyStuck
<1>8. (Size \in Nat /\ Pids = 0 .. Size - 1)'
  BY <1>2 DEF Simulation, Size
<1>9. HasDeadEnd' = HasDeadEnd /\ DeadEndsAhead' = DeadEndsAhead
  BY <1>1, <1>2, DeadEndStays DEF DeadEndsAhead
<1> QED BY <1>1, <1>2, <1>3, <1>4, <1>5, <1>6, <1>7, <1>8, <1>9 DEF Simulation

LEMMA LegalStutters ==
  ASSUME LegalInv, UNCHANGED legalVars
  PROVE  LegalInv'
<1>1. UNCHANGED <<vars, batches, run, verdict>>
  BY DEF legalVars
<1>2. UNCHANGED <<prog, mode, stage, bar, toVirtual, result>>
  BY <1>1 DEF vars, mapping, control
<1>3. BatchesOK' = BatchesOK
  BY <1>1, <1>2 DEF BatchesOK
<1>4. ASSUME Legalizing PROVE Legalizing'
  <2>1. /\ Simulation' /\ Pids' = Pids /\ HasDeadEnd' = HasDeadEnd
        /\ DeadEndsAhead' = DeadEndsAhead
    BY <1>1, <1>4, SimulationStutters DEF Legalizing
  <2>2. Size' = Size /\ Exceeding' = Exceeding /\ FreePids' = FreePids
    BY <1>2, <2>1 DEF Size, Exceeding, FreePids
  <2>3. RoomToGrow' /\ BatchFollows'
    BY <1>1, <1>2, <1>4, <2>2 DEF Legalizing, RoomToGrow, BatchFollows
  <2> QED BY <1>1, <1>2, <1>4, <2>1, <2>2, <2>3 DEF Legalizing
<1>5. ASSUME Assigning PROVE Assigning'
  BY <1>1, <1>2, <1>5, SimulationStutters DEF Assigning, Size
<1>6. ASSUME BaseInv, SlotInv PROVE BaseInv' /\ SlotInv'
  BY <1>1, <1>6, SlotNext
<1> QED BY <1>1, <1>2, <1>3, <1>4, <1>5, <1>6 DEF LegalInv

\* The legalization run starts within the PIDs of the hardware.
LEMMA LegalInvInit == LegalInit => LegalInv
<1> SUFFICES ASSUME LegalInit PROVE LegalInv
  OBVIOUS
<1>1. Fresh /\ batches = <<>> /\ run = "legalize" /\ verdict = "none"
  BY InitIsFresh DEF LegalInit
<1>2. prog \in Programs /\ mode \in {"dynamic", "wlm"} /\ result = "none" /\ stage = "parse"
  <2>1. \E m \in Modes : mode = m
    BY DEF LegalInit, Init, Start
  <2>2. \E p \in Programs : prog = p
    BY DEF LegalInit, Init, Start
  <2>3. result = "none" /\ stage = "parse"
    BY DEF LegalInit, Init, Start
  <2> QED BY <2>1, <2>2, <2>3, LegalModesAssumption
<1>3. ASSUME mode = "dynamic" PROVE BatchesOK /\ Legalizing
  <2>1. Simulation /\ Size = NumPids /\ DeadEndsAhead
    BY <1>1, <1>3, FreshSimulation
  <2>2. Size >= NumPids /\ ~Exceeding
    BY <2>1, NumPidsAssumption DEF Exceeding
  <2>3. BatchesOK
    BY <1>1 DEF BatchesOK
  <2> QED BY <1>1, <1>2, <2>1, <2>2, <2>3 DEF Legalizing, RoomToGrow, BatchFollows
<1> QED BY <1>1, <1>2, <1>3 DEF LegalInv

LEMMA LegalInvNext == LegalInv /\ [LegalNext]_legalVars => LegalInv'
<1> SUFFICES ASSUME LegalInv, [LegalNext]_legalVars PROVE LegalInv'
  OBVIOUS
<1>1. /\ prog \in Programs /\ mode \in {"dynamic", "wlm"} /\ result # "throw" /\ verdict # "throw"
      /\ mode = "dynamic" => BatchesOK
      /\ mode = "dynamic" /\ run = "legalize" => Legalizing
      /\ mode = "dynamic" /\ run = "assign" => Assigning
      /\ run = "assign" => BaseInv /\ SlotInv
  BY DEF LegalInv
<1>2. CASE LegalizeStep /\ mode = "wlm"
  <2>1. run = "legalize" /\ run' = run /\ verdict' = verdict
    BY <1>2 DEF LegalizeStep
  <2> QED BY <1>1, <1>2, <2>1, WlmNeverThrows DEF LegalInv
<1>3. CASE LegalizeStep /\ mode = "dynamic"
  <2>1. run = "legalize" /\ run' = run /\ verdict' = verdict
    BY <1>3 DEF LegalizeStep
  <2>2. BatchesOK' /\ Legalizing'
    BY <1>1, <1>3, <2>1, RecordKeeps, IterationKeeps, LegalizationEnds, LegalizationBegins, CommonKeeps
       DEF LegalizeStep, CommonStep
  <2>3. prog' = prog
    BY <1>3 DEF LegalizeStep, StopMappingAndRecord, EndLegalIteration, EndLegalization, ParseTask,
                BeginLegalization, BeginIteration, MapBarrier, BeginTask, NextFifo, ConsumeBarrier,
                ProduceBarrier, EndTask
  <2>4. mode' = "dynamic" /\ result' # "throw"
    BY <2>2 DEF Legalizing, Simulation
  <2> QED BY <1>1, <2>1, <2>2, <2>3, <2>4 DEF LegalInv
<1>4. CASE BeginAssign
  BY <1>4, AssignBegins
<1>5. CASE AssignStep
  <2>1. run = "assign" /\ Next /\ UNCHANGED <<batches, run, verdict>>
    BY <1>5 DEF AssignStep
  <2>2. BaseInv' /\ SlotInv'
    BY <1>1, <2>1, SlotNext
  <2>3. mode' = mode /\ prog' = prog
    BY <2>1, ModeStays
  <2>4. result' # "throw"
    BY <1>1, <2>1, SimulatorNeverThrows DEF BaseInv
  <2>5. ASSUME mode = "dynamic" PROVE BatchesOK' /\ Assigning'
    BY <1>1, <2>1, <2>3, <2>5, AssigningNext DEF BatchesOK
  <2> QED BY <1>1, <2>3, <2>4, <2>5, <2>1, <2>2 DEF LegalInv
<1>6. CASE UNCHANGED legalVars
  BY <1>6, LegalStutters
<1> QED BY <1>1, <1>2, <1>3, <1>4, <1>5, <1>6 DEF LegalNext

LEMMA LegalInvHolds == LegalSpec => []LegalInv
<1> QED BY LegalInvInit, LegalInvNext, PTL DEF LegalSpec

\* simulateBarriers with barrierLegalization: no VPUX_THROW of the legalization run is
\* reached, whatever the schedule and the number of PIDs.  After the mapping loop no
\* PID is free beyond the limit, as a PID is added only when a VID waits for one,
\* and a blocked schedule has no free PID, as otherwise it would map a VID or run
\* the first of its tasks.
THEOREM LegalizationNeverThrows == LegalSpec => []NeverThrows
<1>1. LegalInv => NeverThrows
  BY DEF LegalInv, NeverThrows
<1> QED BY <1>1, LegalInvHolds, PTL

\* _barrierBatchesToLegalize: without WLM every batch holds more VIDs than the hardware
\* has PIDs, so there is something to linearise.
THEOREM BatchesCorrect == LegalSpec => []BatchesExceedLimit
<1>1. LegalInv => BatchesExceedLimit
  <2>1. BatchesOK => \A i \in DOMAIN batches : Cardinality(batches[i]) > NumPids
    BY DEF BatchesOK
  <2> QED BY <2>1 DEF LegalInv, BatchesExceedLimit
<1> QED BY <1>1, LegalInvHolds, PTL

\* What the legalization run returns: without WLM a schedule it lets through is
\* assigned by AssignPhysicalBarriersPass, and one it sends to linearisation would be
\* blocked there.  The runs map and run in different orders with different numbers of
\* PIDs; what decides both is whether the schedule has a dead end.
THEOREM VerdictCorrect == LegalSpec => [](mode = "dynamic" => VerdictIsExact)
<1>1. LegalInv => (mode = "dynamic" => VerdictIsExact)
  BY DEF LegalInv, Assigning, VerdictIsExact
<1> QED BY <1>1, LegalInvHolds, PTL
=============================================================================
