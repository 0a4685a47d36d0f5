------------------------ MODULE BarrierSimulatorProofs ------------------------
(***************************************************************************)
(* Proofs about BarrierSimulator, for every schedule, number of PIDs,      *)
(* number of FIFOs and way of mapping.                                     *)
(***************************************************************************)
EXTENDS BarrierSimulator, DataTheorems

-----------------------------------------------------------------------------
(***************************************************************************)
(* Lemmas about the operators of the model.                                *)
(***************************************************************************)

\* The minimum of a nonempty set of naturals is one of its elements: the PID or
\* ring position the simulator picks is one it found.
LEMMA MinIsMember ==
  ASSUME NEW S \in SUBSET Nat, S # {}
  PROVE  Min(S) \in S
<1> DEFINE below(x) == 0 .. x - 1
           T == {below(x) : x \in S}
           R == StrictSubsetOrdering(Nat)
<1>1. T \subseteq FiniteSubsetsOf(Nat)
  <2> SUFFICES ASSUME NEW x \in S PROVE below(x) \in FiniteSubsetsOf(Nat)
    OBVIOUS
  <2>1. 0 \in Int /\ x - 1 \in Int
    OBVIOUS
  <2>2. IsFiniteSet(below(x))
    BY <2>1, FS_Interval
  <2>3. below(x) \in SUBSET Nat
    OBVIOUS
  <2> QED BY <2>2, <2>3 DEF FiniteSubsetsOf
<1>2. T # {}
  OBVIOUS
<1>3. PICK b \in T : \A c \in T : ~(<<c, b>> \in R)
  <2> HIDE DEF T, R
  <2> QED BY <1>1, <1>2, WFMin, FS_StrictSubsetOrderingWellFounded DEF R
<1>4. PICK x \in S : b = below(x)
  OBVIOUS
<1>5. ASSUME NEW y \in S, ~(x =< y) PROVE FALSE
  <2>1. below(y) \subseteq below(x) /\ y \in below(x) /\ y \notin below(y)
    BY <1>5
  <2>2. below(y) \in SUBSET Nat /\ below(x) \in SUBSET Nat
    BY <1>5
  <2>3. <<below(y), below(x)>> \in R
    BY <2>1, <2>2 DEF StrictSubsetOrdering
  <2> QED BY <2>3, <1>3, <1>4
<1> QED BY <1>5 DEF Min

\* Taking position k out of the ring keeps all other PIDs, each once.
LEMMA TakeFromRingKeepsOthers ==
  ASSUME NEW P, NEW q \in Seq(P), NEW k \in 1 .. Len(q)
  PROVE  /\ TakeFromRing(q, k) \in Seq(P)
         /\ NoRepeats(q) =>
              /\ NoRepeats(TakeFromRing(q, k))
              /\ \A r : InSeq(r, TakeFromRing(q, k)) <=> InSeq(r, q) /\ r # q[k]
<1> DEFINE n == Len(q)
           at(i) == IF i + k <= n THEN i + k ELSE i + k - n
           t == TakeFromRing(q, k)
<1>1. n \in Nat /\ DOMAIN q = 1 .. n /\ (\A i \in 1 .. n : q[i] \in P)
  OBVIOUS
<1>2. t = [i \in 1 .. n - 1 |-> q[at(i)]]
  BY DEF TakeFromRing
<1>3. \A i \in 1 .. n - 1 : at(i) \in 1 .. n /\ at(i) # k
  BY <1>1
<1>4. \A i, j \in 1 .. n - 1 : at(i) = at(j) => i = j
  BY <1>1
<1>5. t \in Seq(P)
  <2>1. n - 1 \in Nat
    BY <1>1
  <2>2. \A i \in 1 .. n - 1 : q[at(i)] \in P
    BY <1>1, <1>3
  <2> HIDE DEF at, n
  <2>3. t \in [1 .. n - 1 -> P]
    BY <1>2, <2>2
  <2> QED BY <2>1, <2>3
<1>6. DOMAIN t = 1 .. n - 1
  BY <1>2
<1>7. ASSUME NoRepeats(q) PROVE NoRepeats(t)
  <2> HIDE DEF at, t
  <2>1. ASSUME NEW i \in 1 .. n - 1, NEW j \in 1 .. n - 1, t[i] = t[j] PROVE i = j
    <3>1. q[at(i)] = q[at(j)]
      BY <1>2, <2>1
    <3>2. at(i) = at(j)
      BY <3>1, <1>3, <1>7, <1>1 DEF NoRepeats
    <3> QED BY <3>2, <1>4
  <2> QED BY <2>1, <1>6 DEF NoRepeats
<1>8. ASSUME NoRepeats(q), NEW r PROVE InSeq(r, t) <=> InSeq(r, q) /\ r # q[k]
  <2>1. ASSUME InSeq(r, t) PROVE InSeq(r, q) /\ r # q[k]
    <3> HIDE DEF at, t
    <3>1. PICK i \in 1 .. n - 1 : q[at(i)] = r
      BY <2>1, <1>2, <1>6 DEF InSeq
    <3> QED BY <3>1, <1>3, <1>1, <1>8 DEF InSeq, NoRepeats
  <2>2. ASSUME InSeq(r, q), r # q[k] PROVE InSeq(r, t)
    <3>1. PICK j \in 1 .. n : q[j] = r
      BY <2>2, <1>1 DEF InSeq
    <3> DEFINE i == IF j > k THEN j - k ELSE j - k + n
    <3>2. j # k
      BY <3>1, <2>2
    <3>3. i \in 1 .. n - 1 /\ at(i) = j
      BY <3>2, <1>1
    <3> HIDE DEF at, t, i
    <3> QED BY <3>1, <3>3, <1>2, <1>6 DEF InSeq
  <2> QED BY <2>1, <2>2
<1> QED BY <1>5, <1>7, <1>8

\* Pushing a PID that is not in the ring keeps every PID there once.
LEMMA AppendToRing ==
  ASSUME NEW P, NEW q \in Seq(P), NEW x \in P
  PROVE  /\ Append(q, x) \in Seq(P)
         /\ \A r : InSeq(r, Append(q, x)) <=> InSeq(r, q) \/ r = x
         /\ (NoRepeats(q) /\ ~InSeq(x, q)) => NoRepeats(Append(q, x))
<1> DEFINE n == Len(q)
           a == Append(q, x)
<1>1. n \in Nat /\ DOMAIN q = 1 .. n
  OBVIOUS
<1>2. a \in Seq(P) /\ DOMAIN a = 1 .. n + 1
  OBVIOUS
<1>3. a[n + 1] = x /\ \A i \in 1 .. n : a[i] = q[i]
  OBVIOUS
<1>4. ASSUME NEW r PROVE InSeq(r, a) <=> InSeq(r, q) \/ r = x
  BY <1>1, <1>2, <1>3 DEF InSeq
<1>5. ASSUME NoRepeats(q), ~InSeq(x, q) PROVE NoRepeats(a)
  BY <1>1, <1>2, <1>3, <1>5 DEF NoRepeats, InSeq
<1> QED BY <1>2, <1>4, <1>5

-----------------------------------------------------------------------------
(***************************************************************************)
(* Type correctness.                                                       *)
(***************************************************************************)

\* What the type invariant needs to be inductive: where the counters stand at
\* each stage, and that validated barriers have a PID.
ControlOK ==
  /\ stage = "task" => /\ fifo \in 1 .. NumFifos
                       /\ pos[fifo] <= Len(queue[fifo])
                       /\ step \in Nat \ {0}
  /\ mode = "static" => /\ realId \in [Vids(prog) -> 0 .. NumPids - 1]
                        /\ stage # "pages"

\* Ranks in a page count from 0, and a barrier with a larger VID ranks higher.
LEMMA PageRanks ==
  ASSUME WellFormed(prog), NEW g \in Nat, NEW v \in PageMembers(g)
  PROVE  /\ Cardinality(PageMembers(g)) \in Nat
         /\ RankInPage(g, v) \in 0 .. Cardinality(PageMembers(g)) - 1
         /\ \A w \in PageMembers(g) : w < v => RankInPage(g, w) < RankInPage(g, v)
<1> DEFINE members == PageMembers(g)
           below(u) == {w \in members : w < u}
<1>1. IsFiniteSet(Vids(prog))
  <2>1. 0 \in Int /\ prog.numBarriers - 1 \in Int
    BY DEF WellFormed
  <2> QED BY <2>1, FS_Interval DEF Vids
<1>2. members \in SUBSET Vids(prog) /\ members \subseteq Int
  BY DEF PageMembers, Vids
<1>3. IsFiniteSet(members)
  BY <1>1, <1>2, FS_Subset
<1>4. below(v) \in SUBSET members /\ v \in members /\ v \notin below(v)
  BY <1>2
<1>5. \A w \in members : w < v => below(w) \in SUBSET below(v) /\ w \in below(v) /\ w \notin below(w)
  BY <1>2
<1>6. \A u : RankInPage(g, u) = Cardinality(below(u))
  BY DEF RankInPage
<1> HIDE DEF members, below
<1>7. /\ IsFiniteSet(below(v)) /\ Cardinality(below(v)) <= Cardinality(members)
      /\ Cardinality(below(v)) # Cardinality(members)
  BY <1>3, <1>4, FS_Subset
<1>8. Cardinality(below(v)) \in Nat /\ Cardinality(members) \in Nat
  BY <1>3, <1>7, FS_CardinalityType
<1>9. ASSUME NEW w \in members, w < v PROVE Cardinality(below(w)) < Cardinality(below(v))
  <2>1. below(w) \in SUBSET below(v) /\ w \in below(v) /\ w \notin below(w)
    BY <1>5, <1>9
  <2>2. /\ IsFiniteSet(below(w)) /\ Cardinality(below(w)) <= Cardinality(below(v))
        /\ Cardinality(below(w)) # Cardinality(below(v))
    BY <2>1, <1>7, FS_Subset
  <2>3. Cardinality(below(w)) \in Nat
    BY <2>2, FS_CardinalityType
  <2> QED BY <2>2, <2>3, <1>8
<1>10. RankInPage(g, v) \in 0 .. Cardinality(members) - 1
  BY <1>6, <1>7, <1>8
<1>11. \A w \in members : w < v => RankInPage(g, w) < RankInPage(g, v)
  BY <1>6, <1>9
<1> QED BY <1>8, <1>10, <1>11 DEF members

\* A page that fits takes its PIDs from its half: the lower one if it is even,
\* the upper one if it is odd.
LEMMA PagePidInHalf ==
  ASSUME WellFormed(prog), NEW g \in Nat, NEW v \in PageMembers(g),
         Cardinality(PageMembers(g)) <= PageSize
  PROVE  /\ g % 2 = 0 => PagePid(g, v) \in 0 .. PageSize - 1
         /\ g % 2 = 1 => PagePid(g, v) \in PageSize .. NumPids - 1
<1>1. PageSize \in Nat /\ PageSize + PageSize <= NumPids
  BY NumPidsAssumption DEF PageSize
<1>2. /\ Cardinality(PageMembers(g)) \in Nat
      /\ RankInPage(g, v) \in 0 .. Cardinality(PageMembers(g)) - 1
  BY PageRanks
<1> QED BY <1>1, <1>2, NumPidsAssumption DEF PagePid

\* The PID a page hands to one of its barriers exists, if the page fits.
LEMMA PagePidInRange ==
  ASSUME WellFormed(prog), NEW g \in Nat, NEW v \in PageMembers(g),
         Cardinality(PageMembers(g)) <= PageSize
  PROVE  PagePid(g, v) \in 0 .. NumPids - 1
<1>1. PageSize \in Nat /\ PageSize + PageSize <= NumPids
  BY NumPidsAssumption DEF PageSize
<1>2. g % 2 = 0 \/ g % 2 = 1
  OBVIOUS
<1> QED BY <1>1, <1>2, PagePidInHalf, NumPidsAssumption

\* simulateBarriersForWlmPageApproach: two barriers of one page, or of two
\* neighbouring pages, never get the same PID, for any number of PIDs, odd ones
\* included, and in either order of handing them out.  It is why the barriers of
\* a page can be used while those of the next are being programmed.
THEOREM NeighbouringPagesShareNoPid ==
  ASSUME WellFormed(prog), NEW g \in Nat, NEW h \in {g, g + 1},
         NEW v \in PageMembers(g), NEW w \in PageMembers(h), v # w,
         Cardinality(PageMembers(g)) <= PageSize, Cardinality(PageMembers(h)) <= PageSize
  PROVE  PagePid(g, v) # PagePid(h, w)
<1>1. PageSize \in Nat
  BY NumPidsAssumption DEF PageSize
<1>2. CASE h = g
  <2>1. v \in Int /\ w \in Int
    BY DEF PageMembers, Vids
  <2>2. RankInPage(g, v) # RankInPage(g, w)
    <3>1. RankInPage(g, v) \in Int /\ RankInPage(g, w) \in Int
      BY <1>2, PageRanks
    <3>2. CASE v < w
      BY <3>1, <3>2, <1>2, PageRanks
    <3>3. CASE w < v
      BY <3>1, <3>3, <1>2, PageRanks
    <3> QED BY <2>1, <3>2, <3>3
  <2>3. /\ RankInPage(g, v) \in Int /\ RankInPage(g, w) \in Int
        /\ Cardinality(PageMembers(g)) \in Int
    BY <1>2, PageRanks
  <2> QED BY <1>1, <1>2, <2>2, <2>3 DEF PagePid
<1>3. CASE h = g + 1
  <2>1. \/ g % 2 = 0 /\ h % 2 = 1
        \/ g % 2 = 1 /\ h % 2 = 0
    BY <1>3
  <2>2. h \in Nat
    BY <1>3
  <2>3. /\ g % 2 = 0 => PagePid(g, v) \in 0 .. PageSize - 1
        /\ g % 2 = 1 => PagePid(g, v) \in PageSize .. NumPids - 1
    BY PagePidInHalf
  <2>4. /\ h % 2 = 0 => PagePid(h, w) \in 0 .. PageSize - 1
        /\ h % 2 = 1 => PagePid(h, w) \in PageSize .. NumPids - 1
    BY <2>2, PagePidInHalf
  <2> QED BY <2>1, <2>3, <2>4, <1>1, NumPidsAssumption
<1> QED BY <1>2, <1>3

\* The types of what a simulation reads and writes, with any set of PIDs: the simulator
\* of the legalization adds PIDs and drops them.
Types ==
  /\ WellFormed(prog)
  /\ mode \in AllModes
  /\ stage \in Stages
  /\ step \in Nat
  /\ fifo \in 1 .. NumFifos + 1
  /\ queue \in [1 .. NumFifos -> Seq(Tasks(prog))]
  /\ pos \in [1 .. NumFifos -> Nat \ {0}]
  /\ bar \in Nat
  /\ Pids \in SUBSET Nat
  /\ realId \in [Vids(prog) -> Nat \cup {None}]
  /\ producerCount \in [Vids(prog) -> Nat]
  /\ consumerCount \in [Vids(prog) -> Nat]
  /\ toVirtual \in [Pids -> Vids(prog) \cup {None}]
  /\ nextReal \in Seq(Pids)
  /\ progressed \in BOOLEAN

\* A simulator with the PIDs of the hardware has them.
LEMMA TypesOfTypeOK == TypeOK => Types /\ Pids = 0 .. NumPids - 1
<1> SUFFICES ASSUME TypeOK PROVE Types /\ Pids = 0 .. NumPids - 1
  OBVIOUS
<1>1. Pids = 0 .. NumPids - 1 /\ Pids \in SUBSET Nat
  BY NumPidsAssumption DEF TypeOK, Pids
<1>2. realId \in [Vids(prog) -> Nat \cup {None}]
  BY <1>1 DEF TypeOK
<1> QED BY <1>1, <1>2 DEF TypeOK, Types

\* What the mapping loop picks: the VID, ring position and PID it uses exist.
LEMMA NextVidExists ==
  ASSUME Types, HasBarrierToMap
  PROVE  bar \in Vids(prog)
BY DEF HasBarrierToMap, Types, WellFormed, Vids

\* What the dynamic modes take from the ring is a PID at a position of the ring.
LEMMA RingPick ==
  ASSUME Types, HasBarrierToMap, Dynamic
  PROVE  /\ Min(Acceptable) \in 1 .. Len(nextReal)
         /\ nextReal[Min(Acceptable)] \in Pids
<1>1. Acceptable # {}
  BY DEF HasBarrierToMap, Dynamic
<1>2. Acceptable \in SUBSET (1 .. Len(nextReal)) /\ Len(nextReal) \in Nat
  BY DEF Acceptable, Types
<1>3. Min(Acceptable) \in Acceptable
  BY <1>1, <1>2, MinIsMember
<1>4. nextReal \in Seq(Pids)
  BY DEF Types
<1>5. \A P : \A q \in Seq(P) : \A i \in 1 .. Len(q) : q[i] \in P
  OBVIOUS
<1> QED BY <1>2, <1>3, <1>4, <1>5, Zenon

\* What the page approach takes is a free PID.
LEMMA InstancePick ==
  ASSUME TypeOK, HasBarrierToMap, mode = "pages"
  PROVE  /\ Min(FreeInstances) \in 0 .. NumPids - 1
         /\ toVirtual[Min(FreeInstances)] = None
         /\ pidQueue[Min(FreeInstances)] # <<>>
<1>1. FreeInstances # {}
  BY DEF HasBarrierToMap, Dynamic
<1>2. FreeInstances \in SUBSET (0 .. NumPids - 1)
  BY DEF FreeInstances, Pids, TypeOK
<1>3. Min(FreeInstances) \in FreeInstances
  BY <1>1, <1>2, MinIsMember
<1> QED BY <1>2, <1>3 DEF FreeInstances

\* A simulator that was just built, by whichever pass.
Fresh ==
  \E p \in Programs, m \in AllModes : \E ids \in GivenIds(p, m) : Start(p, m, ids)

\* A behaviour starts with a simulator that was just built.
LEMMA InitIsFresh == Init => Fresh
BY ModesAssumption DEF Init, Fresh

\* A simulator that was just built has values of the right types.
LEMMA TypeInit == Fresh => TypeOK /\ ControlOK
<1> SUFFICES ASSUME Fresh PROVE TypeOK /\ ControlOK
  OBVIOUS
<1>0. PICK p \in Programs, m \in AllModes : \E ids \in GivenIds(p, m) : Start(p, m, ids)
  BY DEF Fresh
<1>1. PICK ids \in GivenIds(p, m) : Start(p, m, ids)
  BY <1>0
<1>2. prog = p /\ mode = m /\ realId = ids
  BY <1>1 DEF Start
<1>3. WellFormed(prog) /\ mode \in AllModes
  BY <1>2, ProgramsAssumption
<1>4. realId \in [Vids(prog) -> (0 .. NumPids - 1) \cup {None}]
      /\ (mode = "static" => realId \in [Vids(prog) -> 0 .. NumPids - 1])
  BY <1>2 DEF GivenIds, PerVid
<1>5. nextReal \in Seq(0 .. NumPids - 1)
  <2>1. nextReal = InitialRing(m)
    BY <1>1 DEF Start
  <2>2. [i \in 1 .. NumPids |-> i - 1] \in Seq(0 .. NumPids - 1)
    <3>1. [i \in 1 .. NumPids |-> i - 1] \in [1 .. NumPids -> 0 .. NumPids - 1]
      BY NumPidsAssumption
    <3> QED BY <3>1, NumPidsAssumption
  <2>3. <<>> \in Seq(0 .. NumPids - 1)
    OBVIOUS
  <2>4. CASE m \in {"dynamic", "wlm"}
    <3>1. InitialRing(m) = [i \in 1 .. NumPids |-> i - 1]
      BY <2>4 DEF InitialRing
    <3> QED BY <2>1, <2>2, <3>1, Zenon
  <2>5. CASE m \notin {"dynamic", "wlm"}
    BY <2>1, <2>3, <2>5 DEF InitialRing
  <2> QED BY <2>4, <2>5
<1>6. /\ queue = [f \in 1 .. NumFifos |-> <<>>]
      /\ pos = [f \in 1 .. NumFifos |-> 1]
      /\ producerCount = [v \in Vids(prog) |-> 0]
      /\ consumerCount = [v \in Vids(prog) |-> 0]
      /\ toVirtual = [r \in 0 .. NumPids - 1 |-> None]
      /\ prevVid = [r \in 0 .. NumPids - 1 |-> None]
      /\ pidQueue = [r \in 0 .. NumPids - 1 |-> <<>>]
  BY <1>1, <1>2 DEF Start, PerFifo, PerVid, PerPid
<1>7. bar = 0 /\ stage = "parse" /\ step = 1 /\ fifo = 1 /\ progressed = FALSE /\ result = "none"
  BY <1>1 DEF Start
<1>8. /\ queue \in [1 .. NumFifos -> Seq(Tasks(prog))]
      /\ pidQueue \in [0 .. NumPids - 1 -> Seq(Vids(prog))]
  <2>1. <<>> \in Seq(Tasks(prog)) /\ <<>> \in Seq(Vids(prog))
    OBVIOUS
  <2> QED BY <1>6, <2>1, Zenon
<1>9. /\ toVirtual \in [0 .. NumPids - 1 -> Vids(prog) \cup {None}]
      /\ prevVid \in [0 .. NumPids - 1 -> Vids(prog) \cup {None}]
  BY <1>6
<1>10. /\ pos \in [1 .. NumFifos -> Nat \ {0}]
       /\ producerCount \in [Vids(prog) -> Nat]
       /\ consumerCount \in [Vids(prog) -> Nat]
  BY <1>6
<1>11. /\ bar \in Nat /\ step \in Nat /\ fifo \in 1 .. NumFifos + 1
       /\ stage \in Stages /\ result \in Results
  BY <1>7, NumFifosAssumption DEF Stages, Results
<1>12. TypeOK
  BY <1>3, <1>4, <1>5, <1>8, <1>9, <1>10, <1>11, <1>7, Zenon DEF TypeOK
<1> QED BY <1>4, <1>7, <1>12 DEF ControlOK

\* The task being processed is one of the schedule.
LEMMA HeadTaskExists ==
  ASSUME Types, ControlOK, stage = "task"
  PROVE  HeadTask \in Tasks(prog)
<1>1. fifo \in 1 .. NumFifos /\ queue[fifo] \in Seq(Tasks(prog)) /\ pos[fifo] \in Nat \ {0}
      /\ pos[fifo] <= Len(queue[fifo])
  BY DEF Types, ControlOK
<1>2. \A q \in Seq(Tasks(prog)) : \A i \in Nat \ {0} : i <= Len(q) => q[i] \in Tasks(prog)
  OBVIOUS
<1> QED BY <1>1, <1>2, Zenon DEF HeadTask, Task

\* The barriers and slots that processSim reads for the running task.
LEMMA HeadTaskType ==
  ASSUME Types, ControlOK, stage = "task"
  PROVE  /\ Waits(HeadTask) \in Seq(Vids(prog)) /\ Posts(HeadTask) \in Seq(Vids(prog))
         /\ prog.count[HeadTask] \in Nat \ {0} /\ step \in Nat \ {0}
BY HeadTaskExists DEF Types, ControlOK, WellFormed, Waits, Posts

\* What consuming a barrier does: it fails and changes nothing, takes some of
\* the slots, or takes the last ones and gives the PID back.
LEMMA ConsumeEffect ==
  ASSUME Types, ControlOK, ConsumeBarrier
  PROVE  \/ /\ stage' = "done" /\ result' = "miscount" /\ step' = step
            /\ consumerCount' = consumerCount /\ toVirtual' = toVirtual /\ nextReal' = nextReal
         \/ /\ stage' = "task" /\ result' = result /\ step' \in Nat \ {0}
            /\ \E v \in Vids(prog) :
                 /\ realId[v] \in Pids
                 /\ Dynamic \/ toVirtual[realId[v]] = v
                 /\ consumerCount[v] # 0
                 /\ \/ /\ \E c \in Nat \ {0} : consumerCount' = [consumerCount EXCEPT ![v] = c]
                       /\ toVirtual' = toVirtual /\ nextReal' = nextReal
                    \/ /\ consumerCount' = [consumerCount EXCEPT ![v] = 0]
                       /\ toVirtual' = [toVirtual EXCEPT ![realId[v]] = None]
                       /\ nextReal' = IF Dynamic THEN Append(nextReal, realId[v]) ELSE nextReal
<1> DEFINE v == Waits(HeadTask)[step]
           n == prog.count[HeadTask]
           consumable == IsBarrierMapped(v) /\ producerCount[v] = 0 /\ consumerCount[v] >= n
           last == consumerCount[v] = n
<1>1. stage = "task" /\ step <= Len(Waits(HeadTask))
  BY DEF ConsumeBarrier
<1>2. v \in Vids(prog) /\ n \in Nat \ {0} /\ step \in Nat \ {0}
  <2>1. \A w \in Seq(Vids(prog)) : \A i \in Nat \ {0} : i <= Len(w) => w[i] \in Vids(prog)
    OBVIOUS
  <2> QED BY <1>1, <2>1, HeadTaskType, Zenon
<1>3. /\ consumerCount' = IF consumable THEN [consumerCount EXCEPT ![v] = @ - n] ELSE consumerCount
      /\ toVirtual' = IF consumable /\ last THEN [toVirtual EXCEPT ![realId[v]] = None] ELSE toVirtual
      /\ nextReal' = IF consumable /\ last /\ Dynamic THEN Append(nextReal, realId[v]) ELSE nextReal
      /\ ContinueIf(consumable)
  BY Zenon DEF ConsumeBarrier
<1>4. consumerCount[v] \in Nat
  BY <1>2 DEF Types
<1> HIDE DEF v, n
<1>5. CASE ~consumable
  BY <1>3, <1>5 DEF ContinueIf
<1>6. CASE consumable
  <2>1. stage' = "task" /\ result' = result /\ step' = step + 1
    BY <1>1, <1>3, <1>6 DEF ContinueIf
  <2>2. realId[v] \in Pids /\ (Dynamic \/ toVirtual[realId[v]] = v)
    BY <1>6 DEF IsBarrierMapped, Pids, Types
  <2>3. CASE last
    <3>1. consumerCount[v] - n = 0 /\ consumerCount[v] # 0
      BY <1>2, <1>4, <2>3
    <3>2. /\ consumerCount' = [consumerCount EXCEPT ![v] = 0]
          /\ toVirtual' = [toVirtual EXCEPT ![realId[v]] = None]
          /\ nextReal' = IF Dynamic THEN Append(nextReal, realId[v]) ELSE nextReal
      BY <1>3, <1>6, <2>3, <3>1, Zenon
    <3>3. step' \in Nat \ {0}
      BY <1>2, <2>1
    <3> QED BY <1>2, <2>1, <2>2, <3>1, <3>2, <3>3, Zenon
  <2>4. CASE ~last
    <3>1. consumerCount[v] - n \in Nat \ {0} /\ consumerCount[v] # 0
      BY <1>2, <1>4, <1>6, <2>4
    <3> QED BY <1>2, <1>3, <1>6, <2>1, <2>2, <2>4, <3>1
  <2> QED BY <2>3, <2>4
<1> QED BY <1>5, <1>6

\* Every step keeps the types, and keeps a running task inside its FIFO.
LEMMA TypeNext == TypeOK /\ ControlOK /\ [Next]_vars => TypeOK' /\ ControlOK'
<1> SUFFICES ASSUME TypeOK, ControlOK, [Next]_vars PROVE TypeOK' /\ ControlOK'
  OBVIOUS
<1> Types /\ Pids = 0 .. NumPids - 1
  BY TypesOfTypeOK
<1>1. CASE BeginIteration
  BY <1>1, Zenon DEF TypeOK, ControlOK, BeginIteration, Stages, parsed, mapping, Vids, Tasks
<1>2. CASE Succeed
  BY <1>2 DEF TypeOK, ControlOK, Succeed, Finish, Stages, Results, parsed, mapping
<1>3. CASE BeginPages
  BY <1>3 DEF TypeOK, ControlOK, BeginPages, Stages, Results, parsed, mapping
<1>4. CASE EndPages
  BY <1>4 DEF TypeOK, ControlOK, EndPages, Stages, Results, parsed, mapping
<1>5. CASE StopMapping
  BY <1>5, NumFifosAssumption DEF TypeOK, ControlOK, StopMapping, Stages, Results, parsed, mapping
<1>6. CASE EndIteration
  BY <1>6, NumFifosAssumption DEF TypeOK, ControlOK, EndIteration, IterationDone, Finish, Stages, Results, parsed, mapping
<1>7. CASE CheckSlots
  BY <1>7, NumFifosAssumption DEF TypeOK, ControlOK, CheckSlots, Finish, Stages, Results, parsed, mapping
<1>8. CASE ParseTask
  <2>1. step \in Tasks(prog) /\ prog.fifo[step] \in 1 .. NumFifos /\ prog.count[step] \in Nat
    BY <1>8 DEF ParseTask, TypeOK, WellFormed
  <2>2. queue' \in [1 .. NumFifos -> Seq(Tasks(prog))]
    BY <1>8, <2>1 DEF ParseTask, TypeOK
  <2>3. consumerCount' \in [Vids(prog) -> Nat] /\ producerCount' \in [Vids(prog) -> Nat]
    <3>1. ASSUME NEW slots \in [Vids(prog) -> Nat], NEW users
          PROVE  AddSlots(slots, users) \in [Vids(prog) -> Nat]
      BY <2>1 DEF AddSlots
    <3> QED BY <1>8, <3>1 DEF ParseTask, TypeOK
  <2>4. step' \in Nat
    BY <1>8 DEF ParseTask, TypeOK
  <2> QED BY <1>8, <2>2, <2>3, <2>4 DEF ParseTask, TypeOK, ControlOK, mapping
<1>9. CASE AssignPage
  <2>1. realId' \in [Vids(prog) -> (0 .. NumPids - 1) \cup {None}]
    BY <1>9, PagePidInRange, ZenonT(60) DEF AssignPage, TypeOK
  <2>2. pidQueue' \in [0 .. NumPids - 1 -> Seq(Vids(prog))]
    <3>1. CASE UNCHANGED pidQueue
      BY <3>1 DEF TypeOK
    <3>2. CASE ~UNCHANGED pidQueue
      <4> DEFINE takers(r) == {v \in PageMembers(step) : PagePid(step, v) = r}
      <4>1. pidQueue' = [r \in Pids |-> IF takers(r) = {} THEN pidQueue[r]
                                        ELSE Append(pidQueue[r], Min(takers(r)))]
        BY <1>9, <3>2 DEF AssignPage
      <4>2. Pids = 0 .. NumPids - 1
        BY DEF Pids, TypeOK
      <4>3. ASSUME NEW r, takers(r) # {} PROVE Min(takers(r)) \in Vids(prog)
        <5>1. takers(r) \in SUBSET Vids(prog)
          BY DEF PageMembers
        <5>2. Vids(prog) \in SUBSET Nat
          BY DEF Vids, TypeOK, WellFormed
        <5> HIDE DEF takers
        <5> QED BY <5>1, <5>2, <4>3, MinIsMember
      <4> HIDE DEF takers
      <4>4. ASSUME NEW r \in 0 .. NumPids - 1
            PROVE (IF takers(r) = {} THEN pidQueue[r] ELSE Append(pidQueue[r], Min(takers(r))))
                    \in Seq(Vids(prog))
        <5>1. pidQueue[r] \in Seq(Vids(prog))
          BY DEF TypeOK
        <5> QED BY <5>1, <4>3
      <4> QED BY <4>1, <4>2, <4>4, Zenon
    <3> QED BY <3>1, <3>2
  <2>3. step' \in Nat /\ stage' \in Stages /\ result' \in Results /\ stage' # "task"
    BY <1>9 DEF AssignPage, TypeOK, Finish, Stages, Results
  <2>4. mode # "static"
    BY <1>9 DEF AssignPage, ControlOK
  <2> QED BY <1>9, <2>1, <2>2, <2>3, <2>4 DEF AssignPage, TypeOK, ControlOK, parsed
<1>10. CASE MapBarrier
  <2>1. bar \in Vids(prog) /\ HasBarrierToMap
    BY <1>10, NextVidExists DEF MapBarrier
  <2>2. ASSUME NEW r \in 0 .. NumPids - 1, NEW v \in Vids(prog), Program(r, v)
        PROVE  /\ toVirtual' \in [0 .. NumPids - 1 -> Vids(prog) \cup {None}]
               /\ prevVid' \in [0 .. NumPids - 1 -> Vids(prog) \cup {None}]
    BY <2>2 DEF Program, TypeOK
  <2>3. /\ toVirtual' \in [0 .. NumPids - 1 -> Vids(prog) \cup {None}]
        /\ prevVid' \in [0 .. NumPids - 1 -> Vids(prog) \cup {None}]
        /\ nextReal' \in Seq(0 .. NumPids - 1)
        /\ realId' \in [Vids(prog) -> (0 .. NumPids - 1) \cup {None}]
        /\ pidQueue' \in [0 .. NumPids - 1 -> Seq(Vids(prog))]
        /\ mode = "static" => realId' = realId
    <3>1. CASE MapDynamic
      <4> DEFINE k == Min(Acceptable)
      <4>1. Dynamic /\ mode # "static"
        BY <3>1 DEF MapDynamic, Dynamic
      <4>2. k \in 1 .. Len(nextReal) /\ nextReal[k] \in 0 .. NumPids - 1
        BY <2>1, <4>1, RingPick
      <4> HIDE DEF k
      <4>3. /\ nextReal' = TakeFromRing(nextReal, k)
            /\ realId' = [realId EXCEPT ![bar] = nextReal[k]]
            /\ Program(nextReal[k], bar)
            /\ pidQueue' = pidQueue
        BY <3>1 DEF MapDynamic, k
      <4>4. nextReal' \in Seq(0 .. NumPids - 1)
        BY <4>2, <4>3, TakeFromRingKeepsOthers DEF TypeOK
      <4>5. realId' \in [Vids(prog) -> (0 .. NumPids - 1) \cup {None}]
        BY <4>2, <4>3, <2>1 DEF TypeOK
      <4> QED BY <2>1, <2>2, <4>1, <4>2, <4>3, <4>4, <4>5 DEF TypeOK
    <3>2. CASE MapInstance
      <4> DEFINE r == Min(FreeInstances)
      <4>1. mode = "pages"
        BY <3>2 DEF MapInstance
      <4>2. r \in 0 .. NumPids - 1 /\ pidQueue[r] \in Seq(Vids(prog)) /\ pidQueue[r] # <<>>
        BY <2>1, <4>1, InstancePick DEF TypeOK
      <4> HIDE DEF r
      <4>3. /\ pidQueue' = [pidQueue EXCEPT ![r] = Tail(pidQueue[r])]
            /\ Program(r, Head(pidQueue[r]))
            /\ nextReal' = nextReal /\ realId' = realId
        BY <3>2 DEF MapInstance, r
      <4>4. Head(pidQueue[r]) \in Vids(prog) /\ Tail(pidQueue[r]) \in Seq(Vids(prog))
        BY <4>2
      <4>5. pidQueue' \in [0 .. NumPids - 1 -> Seq(Vids(prog))]
        BY <4>3, <4>4 DEF TypeOK
      <4> QED BY <2>2, <4>2, <4>3, <4>4, <4>5 DEF TypeOK
    <3>3. CASE MapStatic
      <4>1. realId[bar] \in 0 .. NumPids - 1
        BY <2>1, <3>3 DEF MapStatic, ControlOK
      <4> QED BY <2>1, <2>2, <3>3, <4>1 DEF MapStatic, TypeOK
    <3> QED BY <1>10, <3>1, <3>2, <3>3 DEF MapBarrier
  <2>4. bar' \in Nat
    BY <1>10 DEF MapBarrier, TypeOK
  <2> QED BY <1>10, <2>3, <2>4 DEF MapBarrier, TypeOK, ControlOK, parsed
<1>11. CASE BeginTask
  BY <1>11, NumFifosAssumption DEF TypeOK, ControlOK, BeginTask, HeadCanRun, FifoComplete, Stages, Results, parsed, mapping
<1>12. CASE NextFifo
  BY <1>12, NumFifosAssumption DEF TypeOK, ControlOK, NextFifo, parsed, mapping
<1>13. CASE EndTask
  <2>1. pos' \in [1 .. NumFifos -> Nat \ {0}]
    <3>1. pos \in [1 .. NumFifos -> Nat \ {0}] /\ fifo \in 1 .. NumFifos
      BY <1>13 DEF EndTask, TypeOK, ControlOK
    <3>2. pos[fifo] + 1 \in Nat \ {0}
      BY <3>1
    <3>3. pos' = [pos EXCEPT ![fifo] = pos[fifo] + 1]
      BY <1>13 DEF EndTask
    <3> QED BY <3>1, <3>2, <3>3, Zenon
  <2> QED BY <1>13, <2>1 DEF TypeOK, ControlOK, EndTask, Stages, parsed, mapping
<1>14. CASE ConsumeBarrier
  <2>1. /\ consumerCount' \in [Vids(prog) -> Nat]
        /\ toVirtual' \in [0 .. NumPids - 1 -> Vids(prog) \cup {None}]
        /\ nextReal' \in Seq(0 .. NumPids - 1)
    <3>1. /\ consumerCount \in [Vids(prog) -> Nat]
          /\ toVirtual \in [0 .. NumPids - 1 -> Vids(prog) \cup {None}]
          /\ nextReal \in Seq(0 .. NumPids - 1)
      BY DEF TypeOK
    <3>2. ASSUME NEW v \in Vids(prog), realId[v] \in 0 .. NumPids - 1,
                 \/ /\ \E c \in Nat \ {0} : consumerCount' = [consumerCount EXCEPT ![v] = c]
                    /\ toVirtual' = toVirtual /\ nextReal' = nextReal
                 \/ /\ consumerCount' = [consumerCount EXCEPT ![v] = 0]
                    /\ toVirtual' = [toVirtual EXCEPT ![realId[v]] = None]
                    /\ nextReal' = IF Dynamic THEN Append(nextReal, realId[v]) ELSE nextReal
          PROVE  /\ consumerCount' \in [Vids(prog) -> Nat]
                 /\ toVirtual' \in [0 .. NumPids - 1 -> Vids(prog) \cup {None}]
                 /\ nextReal' \in Seq(0 .. NumPids - 1)
      <4>1. consumerCount' \in [Vids(prog) -> Nat]
        BY <3>1, <3>2
      <4>2. toVirtual' \in [0 .. NumPids - 1 -> Vids(prog) \cup {None}]
        BY <3>1, <3>2
      <4>3. nextReal' \in Seq(0 .. NumPids - 1)
        <5>1. Append(nextReal, realId[v]) \in Seq(0 .. NumPids - 1)
          BY <3>1, <3>2
        <5> QED BY <3>1, <3>2, <5>1, Zenon
      <4> QED BY <4>1, <4>2, <4>3
    <3> QED BY <1>14, <3>1, <3>2, ConsumeEffect, Zenon
  <2>2. stage' \in Stages /\ result' \in Results /\ step' \in Nat
        /\ (stage' = "task" => step' \in Nat \ {0}) /\ stage' # "pages"
    BY <1>14, ConsumeEffect DEF TypeOK, Stages, Results
  <2>3. stage = "task"
    BY <1>14 DEF ConsumeBarrier
  <2> QED BY <1>14, <2>1, <2>2, <2>3 DEF ConsumeBarrier, TypeOK, ControlOK
<1>15. CASE ProduceBarrier
  <2> DEFINE k == step - Len(Waits(HeadTask))
             v == Posts(HeadTask)[k]
             n == prog.count[HeadTask]
  <2>1. stage = "task" /\ step > Len(Waits(HeadTask))
        /\ step <= Len(Waits(HeadTask)) + Len(Posts(HeadTask))
    BY <1>15 DEF ProduceBarrier
  <2>2. v \in Vids(prog) /\ n \in Nat \ {0} /\ step \in Nat \ {0}
    <3>1. \A u, w \in Seq(Vids(prog)) : \A i \in Nat \ {0} :
            i > Len(u) /\ i <= Len(u) + Len(w) => w[i - Len(u)] \in Vids(prog)
      OBVIOUS
    <3> QED BY <2>1, <3>1, HeadTaskType, Zenon
  <2> HIDE DEF v, n
  <2>3. producerCount' \in [Vids(prog) -> Nat]
    BY <1>15, <2>2 DEF ProduceBarrier, TypeOK, v, n
  <2>4. stage' \in Stages /\ result' \in Results /\ step' \in Nat \ {0} /\ stage' # "pages"
    BY <1>15, <2>1, <2>2 DEF ProduceBarrier, ContinueIf, TypeOK, Stages, Results
  <2> QED BY <1>15, <2>1, <2>3, <2>4 DEF ProduceBarrier, TypeOK, ControlOK, mapping
<1>16. CASE UNCHANGED vars
  BY <1>16 DEF vars, parsed, mapping, control, TypeOK, ControlOK
<1> QED BY <1>1, <1>2, <1>3, <1>4, <1>5, <1>6, <1>7, <1>8, <1>9, <1>10, <1>11, <1>12, <1>13,
           <1>14, <1>15, <1>16 DEF Next, Construct, Simulate

\* TypeOK is an invariant of the simulator, for every set of schedules, every
\* number of PIDs and FIFOs and every way of mapping: no step of
\* simulateBarriers indexes outside its tables.
THEOREM TypeCorrect == Spec => []TypeOK
<1>1. TypeOK /\ ControlOK /\ [Next]_vars => (TypeOK /\ ControlOK)'
  BY TypeNext
<1> QED BY <1>1, TypeInit, InitIsFresh, PTL DEF Spec

-----------------------------------------------------------------------------
(***************************************************************************)
(* The mapping between VIDs and PIDs.                                      *)
(***************************************************************************)

\* A VID whose consumers have not all run keeps the PID it was given, and VIDs
\* not yet reached have none: this is why a consumed barrier frees its own PID
\* and nobody else's, although realId is never cleared.
UnconsumedKeepPid ==
  Dynamic => /\ \A v \in Vids(prog) :
                  realId[v] # None /\ consumerCount[v] # 0 =>
                    realId[v] \in Pids /\ toVirtual[realId[v]] = v
             /\ \A v \in Vids(prog) : v >= bar => realId[v] = None

\* In the page approach a VID waits in the queue of its own PID, and only VIDs
\* of the pages already assigned wait.
QueuedHavePid ==
  /\ stage = "pages" => mode = "pages"
  /\ stage = "parse" \/ mode # "pages" => \A r \in 0 .. NumPids - 1 : pidQueue[r] = <<>>
  /\ \A r \in 0 .. NumPids - 1 : \A i \in 1 .. Len(pidQueue[r]) :
       /\ realId[pidQueue[r][i]] = r
       /\ stage = "pages" => prog.page[pidQueue[r][i]] < step

\* No PID is programmed before simulateBarriers starts.
NothingMappedYet ==
  stage \in {"parse", "pages"} =>
    bar = 0 /\ \A r \in 0 .. NumPids - 1 : toVirtual[r] = None

MappingInv ==
  /\ MappingsAgree
  /\ RingHoldsFreePids
  /\ UnconsumedKeepPid
  /\ QueuedHavePid
  /\ NothingMappedYet

\* A fresh ring holds every PID once.
LEMMA InitialRingIsFull ==
  ASSUME NEW m \in {"dynamic", "wlm"}
  PROVE  /\ NoRepeats(InitialRing(m))
         /\ \A r \in 0 .. NumPids - 1 : InSeq(r, InitialRing(m))
<1>1. InitialRing(m) = [i \in 1 .. NumPids |-> i - 1]
  BY DEF InitialRing
<1>2. DOMAIN InitialRing(m) = 1 .. NumPids /\ \A i \in 1 .. NumPids : InitialRing(m)[i] = i - 1
  BY <1>1
<1>3. NoRepeats(InitialRing(m))
  BY <1>2, NumPidsAssumption DEF NoRepeats
<1>4. ASSUME NEW r \in 0 .. NumPids - 1 PROVE InSeq(r, InitialRing(m))
  <2>1. r + 1 \in 1 .. NumPids /\ (r + 1) - 1 = r
    BY NumPidsAssumption
  <2> QED BY <1>2, <2>1 DEF InSeq
<1> QED BY <1>3, <1>4

\* Nothing is mapped yet and the ring holds every PID.
LEMMA MappingInit == Fresh => MappingInv
<1> SUFFICES ASSUME Fresh PROVE MappingInv
  OBVIOUS
<1>0. PICK p \in Programs, m \in AllModes : \E ids \in GivenIds(p, m) : Start(p, m, ids)
  BY DEF Fresh
<1>1. PICK ids \in GivenIds(p, m) : Start(p, m, ids)
  BY <1>0
<1>2. /\ mode = m /\ prog = p /\ realId = ids /\ bar = 0 /\ stage = "parse"
      /\ nextReal = InitialRing(m)
      /\ toVirtual = [r \in 0 .. NumPids - 1 |-> None]
      /\ pidQueue = [r \in 0 .. NumPids - 1 |-> <<>>]
  BY <1>1 DEF Start, PerPid
<1>3. Pids = 0 .. NumPids - 1 /\ (\A r \in 0 .. NumPids - 1 : toVirtual[r] = None)
  BY <1>2 DEF Pids
<1>4. MappingsAgree
  BY <1>3 DEF MappingsAgree, Mismatch
<1>5. RingHoldsFreePids
  BY <1>2, <1>3, InitialRingIsFull DEF RingHoldsFreePids, Dynamic
<1>6. UnconsumedKeepPid
  BY <1>2 DEF UnconsumedKeepPid, Dynamic, GivenIds, PerVid
<1>7. QueuedHavePid
  <2>1. \A r \in 0 .. NumPids - 1 : pidQueue[r] = <<>> /\ Len(pidQueue[r]) = 0
    BY <1>2
  <2> QED BY <1>2, <2>1 DEF QueuedHavePid
<1>8. NothingMappedYet
  BY <1>2, <1>3 DEF NothingMappedYet
<1> QED BY <1>4, <1>5, <1>6, <1>7, <1>8 DEF MappingInv

\* Steps that leave the mapping alone.
LEMMA MappingQuiet ==
  ASSUME MappingInv, stage' \notin {"parse", "pages"},
         UNCHANGED <<prog, mode, consumerCount, bar, realId, toVirtual, nextReal, pidQueue>>
  PROVE  MappingInv'
<1>1. MappingsAgree' /\ RingHoldsFreePids'
  BY DEF MappingInv, MappingsAgree, Mismatch, RingHoldsFreePids, Dynamic, Pids
<1>2. UnconsumedKeepPid'
  BY DEF MappingInv, UnconsumedKeepPid, Dynamic, Pids
<1>3. QueuedHavePid' /\ NothingMappedYet'
  BY DEF MappingInv, QueuedHavePid, NothingMappedYet
<1> QED BY <1>1, <1>2, <1>3 DEF MappingInv

\* parseTasks maps nothing.
LEMMA MappingParse ==
  ASSUME Types, MappingInv, ParseTask
  PROVE  MappingInv'
<1>1. /\ stage = "parse" /\ stage' = "parse"
      /\ UNCHANGED <<prog, mode, bar, realId, toVirtual, nextReal, pidQueue>>
  BY DEF ParseTask, mapping
<1>2. MappingsAgree' /\ RingHoldsFreePids' /\ NothingMappedYet' /\ QueuedHavePid'
  BY <1>1 DEF MappingInv, MappingsAgree, Mismatch, RingHoldsFreePids, Dynamic, Pids,
              QueuedHavePid, NothingMappedYet
<1>3. UnconsumedKeepPid'
  <2>1. Dynamic => \A v \in Vids(prog) : realId[v] = None
    BY <1>1 DEF MappingInv, UnconsumedKeepPid, NothingMappedYet, Vids, Types, WellFormed
  <2> QED BY <1>1, <2>1 DEF UnconsumedKeepPid, Dynamic
<1> QED BY <1>2, <1>3 DEF MappingInv

\* A barrier that is consumed gives back its own PID and nobody else's.
LEMMA MappingConsume ==
  ASSUME Types, ControlOK, MappingInv, ConsumeBarrier
  PROVE  MappingInv'
<1>1. /\ stage = "task" /\ stage' \notin {"parse", "pages"}
      /\ UNCHANGED <<prog, mode, bar, realId, pidQueue>>
  BY ConsumeEffect DEF ConsumeBarrier
<1>2. QueuedHavePid' /\ NothingMappedYet'
  BY <1>1 DEF MappingInv, QueuedHavePid, NothingMappedYet
<1>3. CASE UNCHANGED <<consumerCount, toVirtual, nextReal>>
  BY <1>1, <1>3, MappingQuiet
<1>4. ASSUME NEW v \in Vids(prog), consumerCount[v] # 0,
             UNCHANGED <<toVirtual, nextReal>>,
             \E c \in Nat \ {0} : consumerCount' = [consumerCount EXCEPT ![v] = c]
      PROVE  MappingInv'
  <2>1. MappingsAgree' /\ RingHoldsFreePids'
    BY <1>1, <1>4 DEF MappingInv, MappingsAgree, Mismatch, RingHoldsFreePids, Dynamic, Pids
  <2>2. UnconsumedKeepPid'
    BY <1>1, <1>4 DEF MappingInv, UnconsumedKeepPid, Dynamic, Types, Pids
  <2> QED BY <1>2, <2>1, <2>2 DEF MappingInv
<1>5. ASSUME NEW v \in Vids(prog), consumerCount[v] # 0, realId[v] \in Pids,
             Dynamic \/ toVirtual[realId[v]] = v,
             consumerCount' = [consumerCount EXCEPT ![v] = 0],
             toVirtual' = [toVirtual EXCEPT ![realId[v]] = None],
             nextReal' = IF Dynamic THEN Append(nextReal, realId[v]) ELSE nextReal
      PROVE  MappingInv'
  <2> DEFINE r == realId[v]
  <2>1. toVirtual[r] = v /\ r # None /\ v # None
    BY <1>5 DEF MappingInv, UnconsumedKeepPid, None, Vids, Types, WellFormed
  <2> HIDE DEF r
  <2>2. MappingsAgree'
    BY <1>1, <1>5, <2>1 DEF MappingInv, MappingsAgree, Mismatch, Pids, Types, r
  <2>3. RingHoldsFreePids'
    <3> SUFFICES ASSUME Dynamic
                 PROVE  /\ NoRepeats(nextReal')
                        /\ \A s \in Pids : InSeq(s, nextReal') <=> toVirtual'[s] = None
      BY <1>1, <1>5 DEF RingHoldsFreePids, Dynamic, Pids, Types
    <3>1. nextReal \in Seq(Pids) /\ r \in Pids
      BY <1>5 DEF Types, r
    <3>2. NoRepeats(nextReal) /\ \A s \in Pids : InSeq(s, nextReal) <=> toVirtual[s] = None
      BY DEF MappingInv, RingHoldsFreePids, Pids, Types
    <3>3. nextReal' = Append(nextReal, r)
      BY <1>5 DEF r
    <3>4. NoRepeats(nextReal') /\ \A s : InSeq(s, nextReal') <=> InSeq(s, nextReal) \/ s = r
      <4>1. ~InSeq(r, nextReal)
        BY <2>1, <3>1, <3>2
      <4>2. /\ NoRepeats(Append(nextReal, r))
            /\ \A s : InSeq(s, Append(nextReal, r)) <=> InSeq(s, nextReal) \/ s = r
        <5> DEFINE P == Pids
        <5>1. nextReal \in Seq(P) /\ r \in P
          BY <3>1
        <5> HIDE DEF P
        <5> QED BY <4>1, <5>1, <3>2, AppendToRing
      <4> QED BY <4>2, <3>3
    <3>5. \A s \in Pids : toVirtual'[s] = None <=> toVirtual[s] = None \/ s = r
      BY <1>5 DEF Types, r
    <3> QED BY <3>2, <3>4, <3>5
  <2>4. UnconsumedKeepPid'
    <3> SUFFICES ASSUME Dynamic, NEW w \in Vids(prog), realId[w] # None, consumerCount'[w] # 0
                 PROVE  realId[w] \in Pids' /\ toVirtual'[realId[w]] = w
      BY <1>1 DEF UnconsumedKeepPid, MappingInv, Dynamic
    <3>1. w # v /\ consumerCount[w] # 0
      BY <1>5 DEF Types
    <3>2. toVirtual[realId[w]] = w /\ realId[w] \in Pids
      BY <3>1 DEF MappingInv, UnconsumedKeepPid, Types
    <3> QED BY <1>5, <2>1, <3>1, <3>2 DEF Types, Pids, r
  <2> QED BY <1>2, <2>2, <2>3, <2>4 DEF MappingInv
<1> QED BY <1>3, <1>4, <1>5, ConsumeEffect

\* The PID that the search takes from the ring is free, and its VID had none.
LEMMA MappingDynamic ==
  ASSUME Types, MappingInv, MapBarrier, MapDynamic
  PROVE  MappingInv'
<1> DEFINE k == Min(Acceptable)
           r == nextReal[k]
<1>1. /\ stage = "map" /\ stage' = "map" /\ bar' = bar + 1 /\ HasBarrierToMap
      /\ UNCHANGED <<prog, mode, consumerCount>>
  BY DEF MapBarrier, parsed
<1>2. bar \in Vids(prog) /\ bar \in Nat /\ bar # None
  BY <1>1, NextVidExists DEF Types, None
<1>3. NothingMappedYet'
  BY <1>1 DEF NothingMappedYet
<1>4. Dynamic
  BY DEF MapDynamic
<1>5. k \in 1 .. Len(nextReal) /\ r \in Pids /\ nextReal \in Seq(Pids)
  BY <1>1, <1>4, RingPick DEF Types
<1> HIDE DEF k, r
<1>6. /\ nextReal' = TakeFromRing(nextReal, k)
      /\ realId' = [realId EXCEPT ![bar] = r]
      /\ toVirtual' = [toVirtual EXCEPT ![r] = bar]
      /\ pidQueue' = pidQueue
  BY DEF MapDynamic, Program, k, r
<1>7. /\ NoRepeats(nextReal)
      /\ \A s \in Pids : InSeq(s, nextReal) <=> toVirtual[s] = None
  BY <1>4 DEF MappingInv, RingHoldsFreePids, Pids, Types
<1>8. toVirtual[r] = None
  <2>1. DOMAIN nextReal = 1 .. Len(nextReal)
    BY <1>5
  <2> QED BY <1>5, <1>7, <2>1 DEF InSeq, r
<1>9. MappingsAgree'
  <2> SUFFICES ASSUME NEW s \in Pids, toVirtual'[s] # None
               PROVE  realId'[toVirtual'[s]] = s
    <3>1. Pids' = Pids
      BY <1>6 DEF Pids, Types
    <3> QED BY <3>1, Zenon DEF MappingsAgree, Mismatch
  <2>1. CASE s = r
    BY <1>2, <1>5, <1>6, <2>1 DEF Types
  <2>2. CASE s # r
    <3>1. toVirtual'[s] = toVirtual[s] /\ toVirtual[s] \in Vids(prog)
      BY <1>5, <1>6, <2>2 DEF Types
    <3>2. realId[toVirtual[s]] = s /\ s # None
      BY <3>1 DEF MappingInv, MappingsAgree, Mismatch, Pids, Types, None
    <3>3. toVirtual[s] # bar
      BY <1>2, <1>4, <3>2 DEF MappingInv, UnconsumedKeepPid
    <3> QED BY <1>6, <3>1, <3>2, <3>3 DEF Types
  <2> QED BY <2>1, <2>2
<1>10. RingHoldsFreePids'
  <2>1. /\ NoRepeats(nextReal')
        /\ \A s : InSeq(s, nextReal') <=> InSeq(s, nextReal) /\ s # r
    BY <1>5, <1>6, <1>7, TakeFromRingKeepsOthers, Zenon DEF r
  <2>2. \A s \in Pids : toVirtual'[s] = None <=> toVirtual[s] = None /\ s # r
    BY <1>2, <1>5, <1>6 DEF Types
  <2>3. Pids' = Pids
    BY <1>6 DEF Pids, Types
  <2> QED BY <1>7, <2>1, <2>2, <2>3, Zenon DEF RingHoldsFreePids
<1>11. UnconsumedKeepPid'
  <2>1. ASSUME NEW v \in Vids(prog), realId'[v] # None, consumerCount[v] # 0
        PROVE  realId'[v] \in Pids' /\ toVirtual'[realId'[v]] = v
    <3>1. CASE v = bar
      BY <1>2, <1>5, <1>6, <3>1 DEF Types, Pids
    <3>2. CASE v # bar
      <4>1. realId'[v] = realId[v] /\ realId[v] # None
        BY <1>6, <2>1, <3>2 DEF Types
      <4>2. realId[v] \in Pids /\ toVirtual[realId[v]] = v /\ v # None
        BY <1>4, <2>1, <4>1 DEF MappingInv, UnconsumedKeepPid, Vids, Types, WellFormed, None
      <4> QED BY <1>5, <1>6, <1>8, <4>1, <4>2 DEF Types, Pids
    <3> QED BY <3>1, <3>2
  <2>2. ASSUME NEW v \in Vids(prog), v >= bar + 1
        PROVE  realId'[v] = None
    <3>1. v \in Int /\ v # bar /\ v >= bar
      BY <1>2, <2>2 DEF Vids, Types, WellFormed
    <3> QED BY <1>4, <1>6, <3>1 DEF MappingInv, UnconsumedKeepPid, Types
  <2> QED BY <1>1, <2>1, <2>2, Zenon DEF UnconsumedKeepPid
<1>12. QueuedHavePid'
  <2>1. mode # "pages"
    BY <1>4 DEF Dynamic
  <2>2. \A s \in 0 .. NumPids - 1 : pidQueue[s] = <<>> /\ Len(pidQueue[s]) = 0
    BY <2>1 DEF MappingInv, QueuedHavePid
  <2> QED BY <1>1, <1>6, <2>2 DEF QueuedHavePid
<1> QED BY <1>3, <1>9, <1>10, <1>11, <1>12 DEF MappingInv

\* Every step of the simulator keeps realId, toVirtual and the ring in agreement.
LEMMA MappingNext ==
  ASSUME TypeOK, ControlOK, MappingInv, [Next]_vars
  PROVE  MappingInv'
<1> Types /\ Pids = 0 .. NumPids - 1
  BY TypesOfTypeOK
<1>1. CASE BeginIteration \/ Succeed \/ EndPages \/ StopMapping \/ EndIteration \/ CheckSlots
           \/ BeginTask \/ NextFifo \/ EndTask
  BY <1>1, MappingQuiet DEF BeginIteration, Succeed, EndPages, StopMapping, EndIteration,
       IterationDone, CheckSlots, BeginTask, NextFifo, EndTask, Finish, parsed, mapping
<1>2. CASE ProduceBarrier
  BY <1>2, MappingQuiet DEF ProduceBarrier, ContinueIf, mapping
<1>3. CASE BeginPages
  <2>1. /\ stage = "parse" /\ stage' = "pages" /\ mode = "pages"
        /\ UNCHANGED <<prog, mode, consumerCount, bar, realId, toVirtual, nextReal, pidQueue>>
    BY <1>3 DEF BeginPages, parsed, mapping
  <2>2. MappingsAgree' /\ RingHoldsFreePids' /\ UnconsumedKeepPid' /\ NothingMappedYet'
    BY <2>1 DEF MappingInv, MappingsAgree, Mismatch, RingHoldsFreePids, Dynamic, Pids,
                UnconsumedKeepPid, NothingMappedYet
  <2>3. QueuedHavePid'
    <3>1. \A r \in 0 .. NumPids - 1 : Len(pidQueue[r]) = 0
      BY <2>1 DEF MappingInv, QueuedHavePid
    <3> QED BY <2>1, <3>1 DEF QueuedHavePid
  <2> QED BY <2>2, <2>3 DEF MappingInv
<1>4. CASE ParseTask
  BY <1>4, MappingParse
<1>5. CASE UNCHANGED vars
  BY <1>5 DEF vars, parsed, mapping, control, MappingInv, MappingsAgree, Mismatch,
       RingHoldsFreePids, Dynamic, Pids, UnconsumedKeepPid, QueuedHavePid, NothingMappedYet
<1>6. CASE AssignPage
  <2>1. /\ stage = "pages" /\ mode = "pages" /\ mode' = "pages"
        /\ UNCHANGED <<prog, consumerCount, bar, toVirtual>>
    BY <1>6 DEF AssignPage, parsed, MappingInv, QueuedHavePid
  <2>2. \A r \in 0 .. NumPids - 1 : toVirtual[r] = None
    BY <2>1 DEF MappingInv, NothingMappedYet
  <2>3. MappingsAgree' /\ RingHoldsFreePids' /\ UnconsumedKeepPid' /\ NothingMappedYet'
    BY <2>1, <2>2 DEF MappingInv, MappingsAgree, Mismatch, RingHoldsFreePids, Dynamic, Pids,
                UnconsumedKeepPid, NothingMappedYet, TypeOK
  <2>4. QueuedHavePid'
    <3> DEFINE members == PageMembers(step)
               takers(r) == {v \in members : PagePid(step, v) = r}
    <3>1. CASE UNCHANGED <<realId, pidQueue>> /\ stage' = "done"
      BY <2>1, <3>1 DEF MappingInv, QueuedHavePid
    <3>2. CASE /\ realId' = [v \in Vids(prog) |-> IF v \in members THEN PagePid(step, v) ELSE realId[v]]
               /\ pidQueue' = [r \in Pids |-> IF takers(r) = {} THEN pidQueue[r]
                                              ELSE Append(pidQueue[r], Min(takers(r)))]
               /\ step' = step + 1
               /\ stage' = stage
      <4> SUFFICES ASSUME NEW r \in 0 .. NumPids - 1, NEW i \in 1 .. Len(pidQueue'[r])
                   PROVE  realId'[pidQueue'[r][i]] = r /\ prog.page[pidQueue'[r][i]] < step'
        <5>1. stage' = "pages" /\ mode' = "pages" /\ prog' = prog
          BY <2>1, <3>2
        <5> QED BY <5>1, Zenon DEF QueuedHavePid
      <4>1. pidQueue[r] \in Seq(Vids(prog)) /\ r \in Pids /\ step \in Nat
        BY DEF TypeOK, Pids
      <4>2. ASSUME NEW v \in Vids(prog), realId[v] = r, prog.page[v] < step
            PROVE  realId'[v] = r /\ prog.page[v] < step'
        <5>1. prog.page[v] \in Nat
          BY DEF TypeOK, WellFormed
        <5>2. v \notin members
          BY <4>1, <4>2, <5>1 DEF PageMembers
        <5> QED BY <3>2, <4>1, <4>2, <5>1, <5>2
      <4>3. \A j \in 1 .. Len(pidQueue[r]) :
              pidQueue[r][j] \in Vids(prog) /\ realId[pidQueue[r][j]] = r /\ prog.page[pidQueue[r][j]] < step
        <5>1. \A q \in Seq(Vids(prog)) : \A j \in 1 .. Len(q) : q[j] \in Vids(prog)
          OBVIOUS
        <5> QED BY <2>1, <4>1, <5>1 DEF MappingInv, QueuedHavePid
      <4>4. CASE takers(r) = {}
        <5>1. pidQueue'[r] = pidQueue[r]
          BY <3>2, <4>1, <4>4, Zenon
        <5> QED BY <4>2, <4>3, <5>1
      <4>5. CASE takers(r) # {}
        <5> DEFINE m == Min(takers(r))
        <5>1. m \in takers(r)
          <6>1. takers(r) \in SUBSET Nat
            BY DEF PageMembers, Vids, TypeOK, WellFormed
          <6> HIDE DEF takers
          <6> QED BY <4>5, <6>1, MinIsMember
        <5>2. m \in members /\ m \in Vids(prog) /\ PagePid(step, m) = r /\ prog.page[m] = step
          <6> HIDE DEF m
          <6> QED BY <5>1 DEF PageMembers
        <5>3. pidQueue'[r] = Append(pidQueue[r], m)
          BY <3>2, <4>1, <4>5, Zenon
        <5> HIDE DEF m, takers, members
        <5>4. realId'[m] = r /\ prog.page[m] < step'
          BY <3>2, <4>1, <5>2
        <5>5. \/ i \in 1 .. Len(pidQueue[r]) /\ pidQueue'[r][i] = pidQueue[r][i]
              \/ pidQueue'[r][i] = m
          BY <4>1, <5>2, <5>3
        <5> QED BY <4>2, <4>3, <5>4, <5>5
      <4> QED BY <4>4, <4>5
    <3> QED BY <1>6, <3>1, <3>2 DEF AssignPage, Finish
  <2> QED BY <2>3, <2>4 DEF MappingInv
<1>7. CASE ConsumeBarrier
  BY <1>7, MappingConsume
<1>8. CASE MapBarrier
  <2>1. /\ stage = "map" /\ stage' = "map" /\ bar' = bar + 1 /\ HasBarrierToMap
        /\ UNCHANGED <<prog, mode, consumerCount>>
    BY <1>8 DEF MapBarrier, parsed
  <2>2. bar \in Vids(prog) /\ bar \in Nat /\ bar # None
    <3>1. bar \in Vids(prog) /\ bar \in Nat
      BY <2>1, NextVidExists DEF TypeOK
    <3>2. bar # None
      BY <3>1 DEF None
    <3> QED BY <3>1, <3>2
  <2>3. NothingMappedYet'
    BY <2>1 DEF NothingMappedYet
  <2>4. CASE MapDynamic
    BY <1>8, <2>4, MappingDynamic
  <2>5. CASE MapInstance
    <3> DEFINE r == Min(FreeInstances)
               v == Head(pidQueue[r])
    <3>1. mode = "pages" /\ ~Dynamic
      BY <2>5 DEF MapInstance, Dynamic
    <3>2. r \in 0 .. NumPids - 1 /\ pidQueue[r] \in Seq(Vids(prog)) /\ pidQueue[r] # <<>>
      BY <2>1, <3>1, InstancePick DEF TypeOK
    <3> HIDE DEF r
    <3>3. /\ pidQueue' = [pidQueue EXCEPT ![r] = Tail(pidQueue[r])]
          /\ toVirtual' = [toVirtual EXCEPT ![r] = v]
          /\ UNCHANGED realId
      BY <2>5 DEF MapInstance, Program, r
    <3>4. v = pidQueue[r][1] /\ 1 \in 1 .. Len(pidQueue[r])
      BY <3>2
    <3>5. v \in Vids(prog) /\ realId[v] = r
      BY <3>2, <3>4 DEF MappingInv, QueuedHavePid
    <3> HIDE DEF v
    <3>6. MappingsAgree'
      BY <3>2, <3>3, <3>5 DEF MappingInv, MappingsAgree, Mismatch, Pids, TypeOK
    <3>7. RingHoldsFreePids' /\ UnconsumedKeepPid'
      BY <2>1, <3>1 DEF RingHoldsFreePids, UnconsumedKeepPid, Dynamic
    <3>8. QueuedHavePid'
      <4> SUFFICES ASSUME NEW s \in 0 .. NumPids - 1, NEW i \in 1 .. Len(pidQueue'[s])
                   PROVE  realId[pidQueue'[s][i]] = s
        <5>1. stage' = "map" /\ mode' = "pages" /\ UNCHANGED realId
          BY <2>1, <3>1, <3>3
        <5> QED BY <5>1, Zenon DEF QueuedHavePid
      <4>1. CASE s # r
        BY <3>2, <3>3, <4>1 DEF MappingInv, QueuedHavePid, TypeOK
      <4>2. CASE s = r
        <5>1. pidQueue'[s] = Tail(pidQueue[r])
          BY <3>2, <3>3, <4>2 DEF TypeOK
        <5>2. i + 1 \in 1 .. Len(pidQueue[r]) /\ pidQueue'[s][i] = pidQueue[r][i + 1]
          BY <3>2, <5>1
        <5> QED BY <3>2, <4>2, <5>2 DEF MappingInv, QueuedHavePid
      <4> QED BY <4>1, <4>2
    <3> QED BY <2>3, <3>6, <3>7, <3>8 DEF MappingInv
  <2>6. CASE MapStatic
    <3>1. /\ mode = "static" /\ UNCHANGED <<realId, pidQueue>>
          /\ toVirtual' = [toVirtual EXCEPT ![realId[bar]] = bar]
      BY <2>6 DEF MapStatic, Program
    <3>2. realId[bar] \in 0 .. NumPids - 1
      BY <2>2, <3>1 DEF ControlOK
    <3>3. MappingsAgree'
      BY <2>1, <2>2, <3>1, <3>2 DEF MappingInv, MappingsAgree, Mismatch, Pids, TypeOK
    <3>4. RingHoldsFreePids' /\ UnconsumedKeepPid'
      BY <2>1, <3>1 DEF RingHoldsFreePids, UnconsumedKeepPid, Dynamic
    <3>5. QueuedHavePid'
      BY <2>1, <3>1 DEF MappingInv, QueuedHavePid
    <3> QED BY <2>3, <3>3, <3>4, <3>5 DEF MappingInv
  <2> QED BY <1>8, <2>4, <2>5, <2>6 DEF MapBarrier
<1> QED BY <1>1, <1>2, <1>3, <1>4, <1>5, <1>6, <1>7, <1>8 DEF Next, Construct, Simulate

\* The invariant holds in every reachable state.
LEMMA MappingInvHolds == Spec => []MappingInv
<1>1. Init => TypeOK /\ ControlOK /\ MappingInv
  BY InitIsFresh, TypeInit, MappingInit
<1>2. TypeOK /\ ControlOK /\ MappingInv /\ [Next]_vars => (TypeOK /\ ControlOK /\ MappingInv)'
  BY TypeNext, MappingNext
<1> QED BY <1>1, <1>2, PTL DEF Spec

\* For every schedule and every number of PIDs, whichever way PIDs are chosen,
\* the two views of the mapping agree (so the VPUX_THROW of the blocked branch of
\* simulateBarriers is unreachable).
THEOREM MappingCorrect == Spec => []MappingsAgree
<1>1. MappingInv => MappingsAgree
  BY DEF MappingInv
<1> QED BY <1>1, MappingInvHolds, PTL

\* The ring buffer of free PIDs holds each free PID exactly once: its unchecked push
\* and pop are used only as its capacity and contents allow, and never lose a PID.
THEOREM RingCorrect == Spec => []RingHoldsFreePids
<1>1. MappingInv => RingHoldsFreePids
  BY DEF MappingInv
<1> QED BY <1>1, MappingInvHolds, PTL

-----------------------------------------------------------------------------
(***************************************************************************)
(* The slots of the barriers: the counts of producers and consumers are,   *)
(* at every moment, the slots of the tasks that have still to run.         *)
(***************************************************************************)

\* A FIFO holds tasks of its own, each once, and parseTasks has only put in those
\* it has reached.
QueueOK ==
  \A f \in 1 .. NumFifos :
    /\ \A i \in 1 .. Len(queue[f]) :
         /\ prog.fifo[queue[f][i]] = f
         /\ stage = "parse" => queue[f][i] < step
    /\ NoRepeats(queue[f])
    /\ stage = "parse" => pos[f] = 1

\* The tasks that were parsed and have not run to their end.
StillQueued(t) ==
  \E i \in 1 .. Len(queue[prog.fifo[t]]) : pos[prog.fifo[t]] <= i /\ queue[prog.fifo[t]][i] = t
Pending == {t \in Tasks(prog) : StillQueued(t)}

\* What the task that is running has already done.
Consumed(t, v) ==
  stage = "task" /\ t = HeadTask /\ \E i \in 1 .. Len(Waits(t)) : i < step /\ Waits(t)[i] = v
Produced(t, v) ==
  /\ stage = "task" /\ t = HeadTask
  /\ \E i \in 1 .. Len(Posts(t)) : i + Len(Waits(t)) < step /\ Posts(t)[i] = v

WaitingOn(v) == {t \in Pending : InSeq(v, Waits(t)) /\ ~Consumed(t, v)}
StillToPost(v) == {t \in Pending : InSeq(v, Posts(t)) /\ ~Produced(t, v)}

\* The counts are the slots of the tasks that have still to use the barrier.
CountsOK ==
  \A v \in Vids(prog) : /\ consumerCount[v] = Sum(prog.count, WaitingOn(v))
                        /\ producerCount[v] = Sum(prog.count, StillToPost(v))

\* A VID that has still to be produced keeps its PID.
UnproducedKeepPid ==
  Dynamic => \A v \in Vids(prog) :
               realId[v] # None /\ producerCount[v] # 0 =>
                 realId[v] \in Pids /\ toVirtual[realId[v]] = v

\* The barriers that the running task has still to use are programmed, and nobody
\* has still to produce the ones it waits on.
OnItsPid(v) == realId[v] \in Pids /\ toVirtual[realId[v]] = v
TaskOK ==
  stage = "task" =>
    /\ \A i \in 1 .. Len(Waits(HeadTask)) :
         i >= step => OnItsPid(Waits(HeadTask)[i]) /\ producerCount[Waits(HeadTask)[i]] = 0
    /\ \A i \in 1 .. Len(Posts(HeadTask)) :
         i + Len(Waits(HeadTask)) >= step => OnItsPid(Posts(HeadTask)[i])

ResultOK == (result # "none" => stage = "done") /\ SlotsBalance

SimOK == Types /\ ControlOK /\ MappingInv
BaseInv == TypeOK /\ SimOK
SlotInv == QueueOK /\ CountsOK /\ UnproducedKeepPid /\ TaskOK /\ ResultOK

-----------------------------------------------------------------------------
\* The slots of a set of tasks: they include those of each, and change by those of
\* the task that leaves or joins.
LEMMA ScheduleSlots ==
  ASSUME WellFormed(prog), NEW S \in SUBSET Tasks(prog)
  PROVE  /\ Sum(prog.count, S) \in Nat
         /\ \A t \in S : prog.count[t] <= Sum(prog.count, S)
         /\ \A t \in S : Sum(prog.count, S) = prog.count[t] + Sum(prog.count, S \ {t})
         /\ \A t \in Tasks(prog) \ S : Sum(prog.count, S \cup {t}) = Sum(prog.count, S) + prog.count[t]
<1>1. IsFiniteSet(Tasks(prog))
  <2>1. 1 \in Int /\ prog.numTasks \in Int
    BY DEF WellFormed
  <2> QED BY <2>1, FS_Interval DEF Tasks
<1>2. IsFiniteSet(S)
  BY <1>1, FS_Subset
<1>3. \A t \in Tasks(prog) : prog.count[t] \in Nat /\ prog.count[t] \in Int
  BY DEF WellFormed
<1>4. \A t \in S : prog.count[t] \in Nat /\ prog.count[t] \in Int
  BY <1>3
<1>5. Sum(prog.count, S) \in Nat /\ \A t \in S : prog.count[t] <= Sum(prog.count, S)
  BY <1>2, <1>4, SumOfNaturals
<1>6. \A t \in S : Sum(prog.count, S) = prog.count[t] + Sum(prog.count, S \ {t})
  BY <1>2, <1>4, SumRemove
<1>7. ASSUME NEW t \in Tasks(prog) \ S PROVE Sum(prog.count, S \cup {t}) = Sum(prog.count, S) + prog.count[t]
  <2>1. \A x \in S \cup {t} : prog.count[x] \in Int
    BY <1>3
  <2> QED BY <1>2, <2>1, SumAdd
<1> QED BY <1>5, <1>6, <1>7

\* The same in a state of the simulator.
LEMMA SlotSums ==
  ASSUME Types, NEW S \in SUBSET Tasks(prog)
  PROVE  /\ Sum(prog.count, S) \in Nat
         /\ \A t \in S : prog.count[t] <= Sum(prog.count, S)
         /\ \A t \in S : Sum(prog.count, S) = prog.count[t] + Sum(prog.count, S \ {t})
         /\ \A t \in Tasks(prog) \ S : Sum(prog.count, S \cup {t}) = Sum(prog.count, S) + prog.count[t]
BY ScheduleSlots DEF Types

\* The users of a barrier that are left are tasks of the schedule.
LEMMA LeftAreTasks ==
  \A v : WaitingOn(v) \in SUBSET Tasks(prog) /\ StillToPost(v) \in SUBSET Tasks(prog)
BY DEF WaitingOn, StillToPost, Pending

\* The task at the head of a FIFO has still to run, and no other entry of a queue is it.
LEMMA HeadIsPending ==
  ASSUME Types, QueueOK, fifo \in 1 .. NumFifos, pos[fifo] <= Len(queue[fifo])
  PROVE  /\ HeadTask \in Pending /\ HeadTask \in Tasks(prog) /\ prog.fifo[HeadTask] = fifo
         /\ pos[fifo] \in 1 .. Len(queue[fifo]) /\ queue[fifo][pos[fifo]] = HeadTask
         /\ \A i \in 1 .. Len(queue[fifo]) : queue[fifo][i] = HeadTask => i = pos[fifo]
<1>1. pos[fifo] \in Nat \ {0} /\ queue[fifo] \in Seq(Tasks(prog))
  BY DEF Types
<1>2. pos[fifo] \in 1 .. Len(queue[fifo]) /\ DOMAIN queue[fifo] = 1 .. Len(queue[fifo])
  BY <1>1
<1>3. HeadTask \in Tasks(prog) /\ HeadTask = queue[fifo][pos[fifo]]
  <2>1. \A P : \A q \in Seq(P) : \A i \in 1 .. Len(q) : q[i] \in P
    OBVIOUS
  <2> QED BY <1>1, <1>2, <2>1 DEF HeadTask, Task
<1>4. prog.fifo[HeadTask] = fifo /\ NoRepeats(queue[fifo])
  BY <1>2, <1>3 DEF QueueOK
<1>5. pos[fifo] <= pos[fifo]
  BY <1>1
<1>6. HeadTask \in Pending
  BY <1>2, <1>3, <1>4, <1>5 DEF Pending, StillQueued
<1> QED BY <1>2, <1>3, <1>4, <1>6 DEF NoRepeats

\* The lists of barriers of a task name each barrier once.
LEMMA TaskBarrierLists ==
  ASSUME Types, NEW t \in Tasks(prog)
  PROVE  /\ Waits(t) \in Seq(Vids(prog)) /\ Posts(t) \in Seq(Vids(prog))
         /\ Len(Waits(t)) \in Nat /\ Len(Posts(t)) \in Nat
         /\ DOMAIN Waits(t) = 1 .. Len(Waits(t)) /\ DOMAIN Posts(t) = 1 .. Len(Posts(t))
         /\ \A i \in 1 .. Len(Waits(t)) : Waits(t)[i] \in Vids(prog)
         /\ \A i \in 1 .. Len(Posts(t)) : Posts(t)[i] \in Vids(prog)
         /\ \A i, j \in 1 .. Len(Waits(t)) : Waits(t)[i] = Waits(t)[j] => i = j
         /\ \A i, j \in 1 .. Len(Posts(t)) : Posts(t)[i] = Posts(t)[j] => i = j
<1>1. Waits(t) \in Seq(Vids(prog)) /\ Posts(t) \in Seq(Vids(prog)) /\ NoRepeats(Waits(t)) /\ NoRepeats(Posts(t))
  BY DEF Types, WellFormed, Waits, Posts
<1>2. \A P : \A q \in Seq(P) : Len(q) \in Nat /\ DOMAIN q = 1 .. Len(q) /\ \A i \in 1 .. Len(q) : q[i] \in P
  OBVIOUS
<1>3. ASSUME NEW q \in Seq(Vids(prog)), NoRepeats(q)
      PROVE  /\ Len(q) \in Nat /\ DOMAIN q = 1 .. Len(q)
             /\ \A i \in 1 .. Len(q) : q[i] \in Vids(prog)
             /\ \A i, j \in 1 .. Len(q) : q[i] = q[j] => i = j
  <2>1. Len(q) \in Nat /\ DOMAIN q = 1 .. Len(q)
    BY <1>3
  <2>2. \A i \in 1 .. Len(q) : q[i] \in Vids(prog)
    BY <1>2
  <2> QED BY <1>3, <2>1, <2>2 DEF NoRepeats
<1> QED BY <1>1, <1>3, Zenon

\* Nothing is parsed yet.
LEMMA SlotInit == Fresh => SlotInv
<1> SUFFICES ASSUME Fresh PROVE SlotInv
  OBVIOUS
<1>1. TypeOK
  BY TypeInit
<1>2. PICK p, m, ids : Start(p, m, ids)
  BY DEF Fresh
<1>3. /\ queue = [f \in 1 .. NumFifos |-> <<>>] /\ pos = [f \in 1 .. NumFifos |-> 1]
      /\ producerCount = [v \in Vids(prog) |-> 0] /\ consumerCount = [v \in Vids(prog) |-> 0]
      /\ stage = "parse" /\ result = "none"
  BY <1>2 DEF Start, PerFifo, PerVid
<1>4. \A f \in 1 .. NumFifos : Len(queue[f]) = 0 /\ DOMAIN queue[f] = {}
  BY <1>3
<1>5. QueueOK
  BY <1>3, <1>4 DEF QueueOK, NoRepeats
<1>6. \A t \in Tasks(prog) : prog.fifo[t] \in 1 .. NumFifos
  BY <1>1 DEF TypeOK, WellFormed
<1>7. Pending = {}
  BY <1>4, <1>6 DEF Pending, StillQueued
<1>8. CountsOK
  <2>1. \A v : WaitingOn(v) = {} /\ StillToPost(v) = {}
    BY <1>7 DEF WaitingOn, StillToPost
  <2> QED BY <1>3, <2>1, SumEmpty DEF CountsOK
<1> QED BY <1>3, <1>5, <1>8 DEF SlotInv, UnproducedKeepPid, TaskOK, ResultOK, SlotsBalance

\* A step that neither parses, starts, runs nor ends a task.
LEMMA SlotsQuiet ==
  ASSUME SlotInv, UNCHANGED <<prog, queue, pos, producerCount, consumerCount>>,
         stage # "task", stage' \notin {"task", "parse"},
         UnproducedKeepPid', ResultOK'
  PROVE  SlotInv'
<1>1. QueueOK' /\ TaskOK'
  BY DEF SlotInv, QueueOK, TaskOK
<1>2. Pending' = Pending
  BY DEF Pending, StillQueued
<1>3. \A v : WaitingOn(v)' = WaitingOn(v) /\ StillToPost(v)' = StillToPost(v)
  BY <1>2 DEF WaitingOn, StillToPost, Consumed, Produced, Waits, Posts
<1>4. CountsOK'
  BY <1>3 DEF SlotInv, CountsOK
<1> QED BY <1>1, <1>4 DEF SlotInv

\* parseTasks: a task joins its FIFO and adds its slots to each barrier it uses.
LEMMA SlotsParse ==
  ASSUME SimOK, SlotInv, ParseTask
  PROVE  SlotInv'
<1> DEFINE f == prog.fifo[step]
<1>1. /\ stage = "parse" /\ stage' = "parse" /\ step \in Tasks(prog) /\ step' = step + 1
      /\ queue' = [queue EXCEPT ![f] = Append(queue[f], step)]
      /\ UNCHANGED <<prog, mode, pos, result, realId, toVirtual, fifo>>
      /\ consumerCount' = AddSlots(consumerCount, Waits(step))
      /\ producerCount' = AddSlots(producerCount, Posts(step))
  BY DEF ParseTask, mapping
<1>2. Types /\ QueueOK /\ CountsOK /\ MappingInv
  BY DEF SimOK, SlotInv
<1>3. /\ f \in 1 .. NumFifos /\ step \in Nat /\ queue \in [1 .. NumFifos -> Seq(Tasks(prog))]
      /\ prog.fifo \in [Tasks(prog) -> 1 .. NumFifos]
  BY <1>1, <1>2 DEF Types, WellFormed
<1> HIDE DEF f
<1>4. /\ Len(queue[f]) \in Nat /\ Len(queue'[f]) = Len(queue[f]) + 1 /\ DOMAIN queue'[f] = 1 .. Len(queue[f]) + 1
      /\ DOMAIN queue[f] = 1 .. Len(queue[f])
      /\ queue'[f][Len(queue[f]) + 1] = step
      /\ \A i \in 1 .. Len(queue[f]) : queue'[f][i] = queue[f][i]
      /\ \A g \in 1 .. NumFifos : g # f => queue'[g] = queue[g]
  <2>1. queue[f] \in Seq(Tasks(prog)) /\ queue'[f] = Append(queue[f], step)
    BY <1>1, <1>3
  <2> QED BY <1>1, <1>3, <2>1
<1>5. \A i \in 1 .. Len(queue[f]) : queue[f][i] < step /\ queue[f][i] # step
  <2>1. \A i \in 1 .. Len(queue[f]) : queue[f][i] < step
    BY <1>1, <1>2, <1>3 DEF QueueOK
  <2> QED BY <1>3, <2>1
<1>6. QueueOK'
  <2> SUFFICES ASSUME NEW g \in 1 .. NumFifos
               PROVE  /\ \A i \in 1 .. Len(queue'[g]) : prog.fifo[queue'[g][i]] = g /\ queue'[g][i] < step + 1
                      /\ NoRepeats(queue'[g]) /\ pos[g] = 1
    BY <1>1 DEF QueueOK
  <2>1. /\ \A i \in 1 .. Len(queue[g]) : prog.fifo[queue[g][i]] = g /\ queue[g][i] < step
        /\ NoRepeats(queue[g]) /\ pos[g] = 1
    BY <1>1, <1>2 DEF QueueOK
  <2>2. \A i \in 1 .. Len(queue[g]) : queue[g][i] \in Int
    <3>1. queue[g] \in Seq(Tasks(prog)) /\ Tasks(prog) \subseteq Int
      BY <1>3 DEF Tasks
    <3>2. \A P : \A q \in Seq(P) : \A i \in 1 .. Len(q) : q[i] \in P
      OBVIOUS
    <3> QED BY <3>1, <3>2
  <2>3. CASE g # f
    <3>1. queue'[g] = queue[g]
      BY <1>4, <2>3
    <3> QED BY <1>3, <2>1, <2>2, <3>1
  <2>4. CASE g = f
    <3>1. \A i \in 1 .. Len(queue'[f]) : i \in 1 .. Len(queue[f]) \/ i = Len(queue[f]) + 1
      BY <1>4
    <3>2. \A i \in 1 .. Len(queue'[g]) : prog.fifo[queue'[g][i]] = g /\ queue'[g][i] < step + 1
      <4> SUFFICES ASSUME NEW i \in 1 .. Len(queue'[f])
                   PROVE  prog.fifo[queue'[f][i]] = f /\ queue'[f][i] < step + 1
        BY <2>4
      <4>1. CASE i \in 1 .. Len(queue[f])
        BY <1>3, <1>4, <2>1, <2>2, <2>4, <4>1
      <4>2. CASE i = Len(queue[f]) + 1
        BY <1>3, <1>4, <4>2, SMTT(30) DEF f
      <4> QED BY <3>1, <4>1, <4>2
    <3>3. NoRepeats(queue'[f])
      <4>1. ~InSeq(step, queue[f]) /\ NoRepeats(queue[f])
        BY <1>4, <1>5, <2>1, <2>4 DEF InSeq
      <4>2. queue[f] \in Seq(Tasks(prog)) /\ queue'[f] = Append(queue[f], step)
        BY <1>1, <1>3
      <4> HIDE DEF f
      <4> QED BY <1>1, <4>1, <4>2, AppendToRing
    <3> QED BY <2>1, <2>4, <3>2, <3>3
  <2> QED BY <2>3, <2>4
<1>7. Pending' = Pending \cup {step} /\ step \notin Pending
  <2>1. step \notin Pending
    BY <1>5 DEF Pending, StillQueued, f
  <2>2. ASSUME NEW t \in Tasks(prog) PROVE StillQueued(t)' <=> StillQueued(t) \/ t = step
    <3> DEFINE g == prog.fifo[t]
    <3>1. g \in 1 .. NumFifos /\ pos[g] = 1
      BY <1>1, <1>2, <1>3 DEF QueueOK
    <3> HIDE DEF g
    <3>2. CASE g # f
      <4>1. queue'[g] = queue[g] /\ t # step
        BY <1>4, <3>1, <3>2 DEF f, g
      <4> QED BY <1>1, <4>1 DEF StillQueued, g
    <3>3. CASE g = f
      <4>1. StillQueued(t)' <=> \E i \in 1 .. Len(queue[f]) + 1 : queue'[f][i] = t
        BY <1>1, <1>4, <3>1, <3>3 DEF StillQueued, g
      <4>2. StillQueued(t) <=> \E i \in 1 .. Len(queue[f]) : queue[f][i] = t
        BY <1>1, <1>4, <3>1, <3>3 DEF StillQueued, g
      <4> QED BY <1>4, <4>1, <4>2, SMTT(30)
    <3> QED BY <3>2, <3>3
  <2>3. Pending' = {t \in Tasks(prog) : StillQueued(t)'}
    BY <1>1 DEF Pending
  <2> QED BY <1>1, <2>1, <2>2, <2>3 DEF Pending
<1>8. ASSUME NEW v \in Vids(prog)
      PROVE  /\ consumerCount'[v] = Sum(prog.count, WaitingOn(v)')
             /\ producerCount'[v] = Sum(prog.count, StillToPost(v)')
  <2>1. prog.count[step] \in Nat /\ consumerCount[v] \in Nat /\ producerCount[v] \in Nat
    BY <1>1, <1>2 DEF Types, WellFormed
  <2>2. /\ WaitingOn(v)' = {t \in Pending \cup {step} : InSeq(v, Waits(t))}
        /\ StillToPost(v)' = {t \in Pending \cup {step} : InSeq(v, Posts(t))}
        /\ WaitingOn(v) = {t \in Pending : InSeq(v, Waits(t))}
        /\ StillToPost(v) = {t \in Pending : InSeq(v, Posts(t))}
    BY <1>1, <1>7 DEF WaitingOn, StillToPost, Consumed, Produced, Waits, Posts
  <2>3. /\ InSeq(v, Waits(step)) => WaitingOn(v)' = WaitingOn(v) \cup {step}
        /\ ~InSeq(v, Waits(step)) => WaitingOn(v)' = WaitingOn(v)
        /\ InSeq(v, Posts(step)) => StillToPost(v)' = StillToPost(v) \cup {step}
        /\ ~InSeq(v, Posts(step)) => StillToPost(v)' = StillToPost(v)
    BY <2>2
  <2>4. step \in Tasks(prog) \ WaitingOn(v) /\ step \in Tasks(prog) \ StillToPost(v)
    BY <1>1, <1>7, <2>2
  <2>5. /\ Sum(prog.count, WaitingOn(v) \cup {step}) = Sum(prog.count, WaitingOn(v)) + prog.count[step]
        /\ Sum(prog.count, StillToPost(v) \cup {step}) = Sum(prog.count, StillToPost(v)) + prog.count[step]
    BY <1>2, <2>4, SlotSums, LeftAreTasks
  <2>6. /\ consumerCount[v] = Sum(prog.count, WaitingOn(v))
        /\ producerCount[v] = Sum(prog.count, StillToPost(v))
    BY <1>2 DEF CountsOK
  <2>7. /\ consumerCount'[v] = consumerCount[v] + (IF InSeq(v, Waits(step)) THEN prog.count[step] ELSE 0)
        /\ producerCount'[v] = producerCount[v] + (IF InSeq(v, Posts(step)) THEN prog.count[step] ELSE 0)
    BY <1>1 DEF AddSlots
  <2>8. consumerCount'[v] = Sum(prog.count, WaitingOn(v)')
    <3>1. CASE InSeq(v, Waits(step))
      BY <2>3, <2>5, <2>6, <2>7, <3>1
    <3>2. CASE ~InSeq(v, Waits(step))
      BY <2>1, <2>3, <2>6, <2>7, <3>2
    <3> QED BY <3>1, <3>2
  <2>9. producerCount'[v] = Sum(prog.count, StillToPost(v)')
    <3>1. CASE InSeq(v, Posts(step))
      BY <2>3, <2>5, <2>6, <2>7, <3>1
    <3>2. CASE ~InSeq(v, Posts(step))
      BY <2>1, <2>3, <2>6, <2>7, <3>2
    <3> QED BY <3>1, <3>2
  <2> QED BY <2>8, <2>9
<1>9. CountsOK'
  BY <1>1, <1>8 DEF CountsOK
<1>10. UnproducedKeepPid'
  <2>1. Dynamic => \A v \in Vids(prog) : realId[v] = None
    BY <1>1, <1>2 DEF MappingInv, UnconsumedKeepPid, NothingMappedYet, Vids, Types, WellFormed
  <2> QED BY <1>1, <2>1 DEF UnproducedKeepPid, Dynamic
<1>11. TaskOK' /\ ResultOK'
  BY <1>1 DEF TaskOK, ResultOK, SlotsBalance, SlotInv
<1> QED BY <1>6, <1>9, <1>10, <1>11 DEF SlotInv

\* The mapping loop keeps the PIDs of the VIDs that have still to be produced: it
\* takes only free ones.
LEMMA MapKeepsUnproduced ==
  ASSUME SimOK, SlotInv, MapBarrier
  PROVE  UnproducedKeepPid'
<1>1. /\ UNCHANGED <<prog, mode, producerCount>> /\ HasBarrierToMap
      /\ Types /\ MappingInv /\ UnproducedKeepPid
  BY DEF MapBarrier, parsed, SimOK, SlotInv
<1> SUFFICES ASSUME Dynamic, NEW v \in Vids(prog), realId'[v] # None, producerCount[v] # 0
             PROVE  realId'[v] \in Pids' /\ toVirtual'[realId'[v]] = v
  BY <1>1 DEF UnproducedKeepPid, Dynamic
<1> DEFINE k == Min(Acceptable)
           r == nextReal[k]
<1>2. MapDynamic
  BY DEF MapBarrier, MapInstance, MapStatic, Dynamic
<1>3. k \in 1 .. Len(nextReal) /\ r \in Pids /\ nextReal \in Seq(Pids)
  BY <1>1, RingPick DEF Types
<1> HIDE DEF k, r
<1>4. realId' = [realId EXCEPT ![bar] = r] /\ toVirtual' = [toVirtual EXCEPT ![r] = bar]
  BY <1>2 DEF MapDynamic, Program, k, r
<1>5. toVirtual[r] = None
  <2>1. InSeq(r, nextReal)
    <3> DOMAIN nextReal = 1 .. Len(nextReal)
      BY <1>3
    <3> QED BY <1>3 DEF InSeq, r
  <2> QED BY <1>1, <1>3, <2>1 DEF MappingInv, RingHoldsFreePids, Pids, Types
<1>6. bar \in Vids(prog)
  BY <1>1, NextVidExists
<1>7. CASE v = bar
  BY <1>1, <1>3, <1>4, <1>6, <1>7 DEF Types, Pids
<1>8. CASE v # bar
  <2>1. realId'[v] = realId[v] /\ realId[v] # None
    BY <1>1, <1>4, <1>8 DEF Types
  <2>2. realId[v] \in Pids /\ toVirtual[realId[v]] = v /\ v # None
    BY <1>1, <2>1 DEF UnproducedKeepPid, Vids, Types, WellFormed, None
  <2> QED BY <1>1, <1>3, <1>4, <1>5, <2>1, <2>2 DEF Types, Pids
<1> QED BY <1>7, <1>8

\* The steps between the tasks.
LEMMA SlotsBetween ==
  ASSUME SimOK, SlotInv,
         \/ CheckSlots \/ BeginPages \/ AssignPage \/ EndPages \/ BeginIteration \/ Succeed
         \/ MapBarrier \/ StopMapping \/ NextFifo \/ EndIteration
  PROVE  SlotInv'
<1>1. Types /\ UnproducedKeepPid /\ ResultOK /\ CountsOK /\ MappingInv
  BY DEF SimOK, SlotInv
<1>2. /\ UNCHANGED <<prog, mode, queue, pos, producerCount, consumerCount>>
      /\ stage \in {"parse", "pages", "loop", "map", "fifos"} /\ stage' \notin {"task", "parse"}
  BY DEF CheckSlots, BeginPages, AssignPage, EndPages, BeginIteration, Succeed, MapBarrier, StopMapping,
         NextFifo, EndIteration, IterationDone, Finish, parsed
<1>3. UnproducedKeepPid'
  <2>1. CASE UNCHANGED <<realId, toVirtual>>
    BY <1>1, <1>2, <2>1 DEF UnproducedKeepPid, Dynamic, Pids
  <2>2. CASE AssignPage
    BY <1>1, <1>2, <2>2 DEF AssignPage, MappingInv, QueuedHavePid, UnproducedKeepPid, Dynamic
  <2>3. CASE MapBarrier
    BY <2>3, MapKeepsUnproduced
  <2>4. CASE \/ CheckSlots \/ BeginPages \/ EndPages \/ BeginIteration \/ Succeed \/ StopMapping \/ NextFifo
             \/ EndIteration
    BY <2>1, <2>4 DEF CheckSlots, BeginPages, EndPages, BeginIteration, Succeed, StopMapping,
         NextFifo, EndIteration, mapping
  <2> QED BY <2>2, <2>3, <2>4
<1>4. ResultOK'
  <2>1. result = "none"
    BY <1>1, <1>2 DEF ResultOK
  <2>2. CASE Succeed
    <3>1. stage' = "done" /\ result' = "success" /\ \A f \in 1 .. NumFifos : pos[f] > Len(queue[f])
      BY <2>2 DEF Succeed, Finish, SomethingLeft, FifoComplete
    <3>2. \A f \in 1 .. NumFifos : pos[f] \in Int /\ Len(queue[f]) \in Int
      <4> SUFFICES ASSUME NEW f \in 1 .. NumFifos PROVE pos[f] \in Int /\ Len(queue[f]) \in Int
        OBVIOUS
      <4>1. pos[f] \in Nat \ {0} /\ queue[f] \in Seq(Tasks(prog))
        BY <1>1 DEF Types
      <4> QED BY <4>1
    <3>3. Pending = {}
      <4>1. \A t \in Tasks(prog) : prog.fifo[t] \in 1 .. NumFifos
        BY <1>1 DEF Types, WellFormed
      <4> QED BY <3>1, <3>2, <4>1 DEF Pending, StillQueued
    <3>4. \A v : WaitingOn(v) = {} /\ StillToPost(v) = {}
      BY <3>3 DEF WaitingOn, StillToPost
    <3>5. \A v \in Vids(prog) : producerCount[v] = 0 /\ consumerCount[v] = 0
      BY <1>1, <3>4, SumEmpty DEF CountsOK
    <3> QED BY <1>2, <3>1, <3>5 DEF ResultOK, SlotsBalance
  <2>3. CASE \/ CheckSlots \/ BeginPages \/ AssignPage \/ EndPages \/ BeginIteration
             \/ MapBarrier \/ StopMapping \/ NextFifo \/ EndIteration
    <3>1. \/ result' = "none"
          \/ stage' = "done" /\ result' \in {"slots", "throw", "blocked"}
      BY <2>1, <2>3 DEF CheckSlots, BeginPages, AssignPage, EndPages, BeginIteration, MapBarrier,
           StopMapping, NextFifo, EndIteration, Finish
    <3> QED BY <3>1 DEF ResultOK, SlotsBalance
  <2> QED BY <2>2, <2>3
<1> QED BY <1>2, <1>3, <1>4, SlotsQuiet

\* A task starts only when its barriers are mapped; virtual barriers are then
\* programmed, too, because it has still to use them.
LEMMA SlotsBegin ==
  ASSUME SimOK, SlotInv, BeginTask
  PROVE  SlotInv'
<1>1. /\ stage = "fifos" /\ stage' = "task" /\ step' = 1 /\ fifo <= NumFifos
      /\ ~FifoComplete(fifo) /\ TaskReady(HeadTask)
      /\ UNCHANGED <<prog, mode, queue, pos, fifo, producerCount, consumerCount, realId, toVirtual, result>>
  BY DEF BeginTask, HeadCanRun, parsed, mapping
<1>2. Types /\ MappingInv /\ QueueOK /\ CountsOK /\ UnproducedKeepPid /\ ResultOK
  BY DEF SimOK, SlotInv
<1>3. fifo \in 1 .. NumFifos /\ pos[fifo] <= Len(queue[fifo])
  BY <1>1, <1>2, NumFifosAssumption DEF Types, FifoComplete
<1>4. HeadTask \in Pending /\ HeadTask \in Tasks(prog) /\ HeadTask' = HeadTask
  BY <1>1, <1>2, <1>3, HeadIsPending DEF HeadTask, Task
<1>5. QueueOK' /\ Pending' = Pending
  BY <1>1, <1>2 DEF QueueOK, Pending, StillQueued
<1>6. \A t \in Tasks(prog) : \A v : ~Consumed(t, v) /\ ~Produced(t, v) /\ ~Consumed(t, v)' /\ ~Produced(t, v)'
  <2>1. \A t \in Tasks(prog) : \A v : ~Consumed(t, v)'
    BY <1>1 DEF Consumed
  <2>2. \A t \in Tasks(prog) : \A v : ~Produced(t, v)'
    <3>1. \A t \in Tasks(prog) : \A i \in 1 .. Len(Posts(t)) : ~(i + Len(Waits(t)) < 1)
      BY <1>2, TaskBarrierLists
    <3> QED BY <1>1, <3>1 DEF Produced, Waits, Posts
  <2> QED BY <1>1, <2>1, <2>2 DEF Consumed, Produced
<1>7. CountsOK'
  <2>1. \A v : WaitingOn(v)' = WaitingOn(v) /\ StillToPost(v)' = StillToPost(v)
    BY <1>1, <1>5, <1>6 DEF WaitingOn, StillToPost, Pending, Waits, Posts
  <2> QED BY <1>1, <1>2, <2>1 DEF CountsOK
<1>8. ASSUME NEW v \in Vids(prog), IsBarrierMapped(v), HeadTask \in WaitingOn(v) \/ HeadTask \in StillToPost(v)
      PROVE  OnItsPid(v)
  <2>1. realId[v] \in Pids
    BY <1>2, <1>8 DEF IsBarrierMapped, Pids, Types
  <2>2. CASE ~Dynamic
    BY <1>8, <2>1, <2>2 DEF IsBarrierMapped, OnItsPid
  <2>3. CASE Dynamic
    <3>1. prog.count[HeadTask] \in Nat \ {0}
      BY <1>2, <1>4 DEF Types, WellFormed
    <3>2. consumerCount[v] # 0 \/ producerCount[v] # 0
      <4>1. CASE HeadTask \in WaitingOn(v)
        <5>1. prog.count[HeadTask] <= consumerCount[v] /\ consumerCount[v] \in Nat
          BY <1>2, <4>1, SlotSums, LeftAreTasks DEF CountsOK
        <5> QED BY <3>1, <5>1
      <4>2. CASE HeadTask \in StillToPost(v)
        <5>1. prog.count[HeadTask] <= producerCount[v] /\ producerCount[v] \in Nat
          BY <1>2, <4>2, SlotSums, LeftAreTasks DEF CountsOK
        <5> QED BY <3>1, <5>1
      <4> QED BY <1>8, <4>1, <4>2
    <3>3. realId[v] # None
      BY <1>2, <2>1 DEF None, Types
    <3> QED BY <1>2, <2>1, <2>3, <3>2, <3>3 DEF OnItsPid, MappingInv, UnconsumedKeepPid, UnproducedKeepPid
  <2> QED BY <2>2, <2>3
<1>9. TaskOK'
  <2> DEFINE t == HeadTask
  <2>1. ASSUME NEW i \in 1 .. Len(Waits(t))
        PROVE  OnItsPid(Waits(t)[i]) /\ producerCount[Waits(t)[i]] = 0
    <3>1. IsBarrierMapped(Waits(t)[i]) /\ producerCount[Waits(t)[i]] = 0 /\ Waits(t)[i] \in Vids(prog)
          /\ InSeq(Waits(t)[i], Waits(t))
      BY <1>1, <1>2, <1>4, TaskBarrierLists DEF TaskReady, InSeq
    <3>2. t \in WaitingOn(Waits(t)[i])
      BY <1>4, <1>6, <3>1 DEF WaitingOn
    <3> QED BY <1>8, <3>1, <3>2
  <2>2. ASSUME NEW i \in 1 .. Len(Posts(t))
        PROVE  OnItsPid(Posts(t)[i])
    <3>1. IsBarrierMapped(Posts(t)[i]) /\ Posts(t)[i] \in Vids(prog) /\ InSeq(Posts(t)[i], Posts(t))
      BY <1>1, <1>2, <1>4, TaskBarrierLists DEF TaskReady, InSeq
    <3>2. t \in StillToPost(Posts(t)[i])
      BY <1>4, <1>6, <3>1 DEF StillToPost
    <3> QED BY <1>8, <3>1, <3>2
  <2> HIDE DEF t
  <2>3. HeadTask = t /\ HeadTask' = t
    BY <1>4 DEF t
  <2> QED BY <1>1, <2>1, <2>2, <2>3 DEF TaskOK, OnItsPid, Pids, Waits, Posts
<1>10. UnproducedKeepPid' /\ ResultOK'
  BY <1>1, <1>2 DEF UnproducedKeepPid, Dynamic, Pids, ResultOK, SlotsBalance
<1> QED BY <1>5, <1>7, <1>9, <1>10 DEF SlotInv

\* A task that has used all its barriers leaves its FIFO.
LEMMA SlotsEnd ==
  ASSUME SimOK, SlotInv, EndTask
  PROVE  SlotInv'
<1> DEFINE h == HeadTask
<1>1. /\ stage = "task" /\ stage' = "fifos" /\ step > Len(Waits(h)) + Len(Posts(h))
      /\ pos' = [pos EXCEPT ![fifo] = pos[fifo] + 1]
      /\ UNCHANGED <<prog, mode, queue, producerCount, consumerCount, realId, toVirtual, result>>
  BY DEF EndTask, parsed, mapping
<1>2. Types /\ ControlOK /\ QueueOK /\ CountsOK /\ UnproducedKeepPid /\ ResultOK
  BY DEF SimOK, SlotInv
<1>3. fifo \in 1 .. NumFifos /\ pos[fifo] <= Len(queue[fifo]) /\ pos \in [1 .. NumFifos -> Nat \ {0}]
  BY <1>1, <1>2 DEF Types, ControlOK
<1>4. /\ h \in Pending /\ h \in Tasks(prog) /\ prog.fifo[h] = fifo
      /\ pos[fifo] \in 1 .. Len(queue[fifo]) /\ queue[fifo][pos[fifo]] = h
      /\ \A i \in 1 .. Len(queue[fifo]) : queue[fifo][i] = h => i = pos[fifo]
  BY <1>2, <1>3, HeadIsPending
<1>5. QueueOK'
  BY <1>1, <1>2 DEF QueueOK
<1>6. Pending' = Pending \ {h}
  <2>1. ASSUME NEW t \in Tasks(prog) PROVE StillQueued(t)' <=> StillQueued(t) /\ t # h
    <3> DEFINE g == prog.fifo[t]
    <3>1. g \in 1 .. NumFifos /\ Len(queue[g]) \in Nat
      BY <1>2 DEF Types, WellFormed
    <3> HIDE DEF g
    <3>2. CASE g # fifo
      <4>1. pos'[g] = pos[g] /\ t # h
        BY <1>1, <1>3, <1>4, <3>1, <3>2 DEF g
      <4> QED BY <1>1, <4>1 DEF StillQueued, g
    <3>3. CASE g = fifo
      <4>1. pos'[fifo] = pos[fifo] + 1 /\ pos[fifo] \in Int
        BY <1>1, <1>3
      <4>2. \A i \in 1 .. Len(queue[fifo]) : pos[fifo] + 1 <= i <=> (pos[fifo] <= i /\ i # pos[fifo])
        BY <4>1
      <4>3. StillQueued(t)' <=> \E i \in 1 .. Len(queue[fifo]) : pos[fifo] + 1 <= i /\ queue[fifo][i] = t
        BY <1>1, <3>3, <4>1 DEF StillQueued, g
      <4>4. StillQueued(t) <=> \E i \in 1 .. Len(queue[fifo]) : pos[fifo] <= i /\ queue[fifo][i] = t
        BY <3>3 DEF StillQueued, g
      <4> HIDE DEF h
      <4> QED BY <1>4, <4>2, <4>3, <4>4
    <3> QED BY <3>2, <3>3
  <2>2. Pending' = {t \in Tasks(prog) : StillQueued(t)'}
    BY <1>1 DEF Pending
  <2> QED BY <2>1, <2>2 DEF Pending
<1>7. CountsOK'
  <2>1. \A v : (InSeq(v, Waits(h)) => Consumed(h, v)) /\ (InSeq(v, Posts(h)) => Produced(h, v))
    <3>1. /\ Len(Waits(h)) \in Nat /\ Len(Posts(h)) \in Nat /\ step \in Nat
          /\ DOMAIN Waits(h) = 1 .. Len(Waits(h)) /\ DOMAIN Posts(h) = 1 .. Len(Posts(h))
      BY <1>2, <1>4, TaskBarrierLists DEF Types
    <3>2. (\A i \in 1 .. Len(Waits(h)) : i < step) /\ (\A i \in 1 .. Len(Posts(h)) : i + Len(Waits(h)) < step)
      BY <1>1, <3>1
    <3> QED BY <1>1, <3>1, <3>2 DEF InSeq, Consumed, Produced
  <2>2. \A t \in Tasks(prog) : \A v : ~Consumed(t, v)' /\ ~Produced(t, v)'
    BY <1>1 DEF Consumed, Produced
  <2>3. \A t \in Tasks(prog) : \A v : t # h => ~Consumed(t, v) /\ ~Produced(t, v)
    BY DEF Consumed, Produced
  <2>4. \A v : WaitingOn(v)' = WaitingOn(v) /\ StillToPost(v)' = StillToPost(v)
    <3> HIDE DEF h
    <3>1. \A v, t : t \in Pending => t \in Tasks(prog)
      BY DEF Pending
    <3>2. /\ \A v : WaitingOn(v)' = {t \in Pending \ {h} : InSeq(v, Waits(t))}
          /\ \A v : StillToPost(v)' = {t \in Pending \ {h} : InSeq(v, Posts(t))}
      BY <1>1, <1>6, <2>2, <3>1 DEF WaitingOn, StillToPost, Waits, Posts
    <3> QED BY <2>1, <2>3, <3>1, <3>2 DEF WaitingOn, StillToPost
  <2> QED BY <1>1, <1>2, <2>4 DEF CountsOK
<1>8. TaskOK' /\ UnproducedKeepPid' /\ ResultOK'
  BY <1>1, <1>2 DEF TaskOK, UnproducedKeepPid, Dynamic, Pids, ResultOK, SlotsBalance
<1> QED BY <1>5, <1>7, <1>8 DEF SlotInv

\* Where the running task stands.
LEMMA RunningTask ==
  ASSUME SimOK, SlotInv, stage = "task"
  PROVE  /\ HeadTask \in Pending /\ HeadTask \in Tasks(prog)
         /\ step \in Nat \ {0} /\ prog.count[HeadTask] \in Nat \ {0}
         /\ Len(Waits(HeadTask)) \in Nat /\ Len(Posts(HeadTask)) \in Nat
         /\ Pids \in SUBSET Nat
<1>1. Types /\ ControlOK /\ QueueOK
  BY DEF SimOK, SlotInv
<1>2. fifo \in 1 .. NumFifos /\ pos[fifo] <= Len(queue[fifo]) /\ step \in Nat \ {0}
  BY <1>1 DEF ControlOK
<1>3. HeadTask \in Pending /\ HeadTask \in Tasks(prog)
  BY <1>1, <1>2, HeadIsPending
<1>4. prog.count[HeadTask] \in Nat \ {0} /\ Pids \in SUBSET Nat
  BY <1>1, <1>3 DEF Types, WellFormed, Pids
<1> QED BY <1>1, <1>2, <1>3, <1>4, TaskBarrierLists

\* Every wait barrier of the running task can be consumed, and giving back its PID
\* takes it from no barrier that is still needed.
LEMMA SlotsConsume ==
  ASSUME SimOK, SlotInv, ConsumeBarrier
  PROVE  SlotInv'
<1>0. PICK h : h = HeadTask
  OBVIOUS
<1> USE <1>0
<1> DEFINE v == Waits(h)[step]
           n == prog.count[h]
<1>1. /\ stage = "task" /\ step <= Len(Waits(h))
      /\ UNCHANGED <<prog, mode, queue, producerCount, realId, pos, fifo>>
  BY DEF ConsumeBarrier
<1>2. /\ Types /\ QueueOK /\ CountsOK /\ UnproducedKeepPid /\ TaskOK /\ ResultOK
      /\ h \in Pending /\ h \in Tasks(prog) /\ step \in Nat \ {0} /\ n \in Nat \ {0}
      /\ Len(Waits(h)) \in Nat /\ Len(Posts(h)) \in Nat /\ Pids \in SUBSET Nat
  BY <1>1, RunningTask DEF SimOK, SlotInv
<1>3. /\ step \in 1 .. Len(Waits(h)) /\ v \in Vids(prog) /\ InSeq(v, Waits(h))
      /\ \A i, j \in 1 .. Len(Waits(h)) : Waits(h)[i] = Waits(h)[j] => i = j
  <2>1. step \in 1 .. Len(Waits(h))
    BY <1>1, <1>2
  <2> QED BY <1>2, <2>1, TaskBarrierLists DEF InSeq
<1>4. OnItsPid(v) /\ producerCount[v] = 0
  BY <1>1, <1>2, <1>3 DEF TaskOK
<1>5. h \in WaitingOn(v)
  <2>1. ~Consumed(h, v)
    BY <1>2, <1>3 DEF Consumed
  <2> QED BY <1>2, <1>3, <2>1 DEF WaitingOn
<1>6. n <= consumerCount[v] /\ consumerCount[v] \in Nat
  BY <1>2, <1>3, <1>5, SlotSums, LeftAreTasks DEF CountsOK
<1>7. IsBarrierMapped(v) /\ consumerCount[v] >= n
  BY <1>2, <1>4, <1>6 DEF IsBarrierMapped, OnItsPid
<1>8. /\ consumerCount' = [consumerCount EXCEPT ![v] = consumerCount[v] - n]
      /\ toVirtual' = toVirtual \/ toVirtual' = [toVirtual EXCEPT ![realId[v]] = None]
      /\ step' = step + 1 /\ stage' = "task" /\ result' = result
  BY <1>1, <1>4, <1>7 DEF ConsumeBarrier, ContinueIf
<1>9. HeadTask' = h
  BY <1>1 DEF HeadTask, Task
<1>10. Pending' = Pending /\ QueueOK'
  BY <1>1, <1>2, <1>8 DEF Pending, StillQueued, QueueOK
<1> HIDE DEF v, n
<1>11. ASSUME NEW t \in Tasks(prog), NEW w
       PROVE  /\ Consumed(t, w)' <=> (Consumed(t, w) \/ (t = h /\ w = v))
              /\ Produced(t, w)' <=> Produced(t, w)
  <2>1. CASE t # h
    BY <1>9, <2>1 DEF Consumed, Produced
  <2>2. CASE t = h
    <3>1. Waits(h)' = Waits(h) /\ Posts(h)' = Posts(h)
      BY <1>1, <1>9 DEF Waits, Posts
    <3>2. \A i \in 1 .. Len(Waits(h)) : i < step + 1 <=> (i < step \/ i = step)
      BY <1>2
    <3>3. Consumed(h, w)' <=> \E i \in 1 .. Len(Waits(h)) : i < step + 1 /\ Waits(h)[i] = w
      BY <1>8, <1>9, <3>1 DEF Consumed
    <3>4. Consumed(h, w) <=> \E i \in 1 .. Len(Waits(h)) : i < step /\ Waits(h)[i] = w
      BY <1>1 DEF Consumed
    <3>5. Waits(h)[step] = v
      BY DEF v
    <3>6. Consumed(h, w)' <=> Consumed(h, w) \/ w = v
      BY <1>3, <3>2, <3>3, <3>4, <3>5
    <3>7. \A i \in 1 .. Len(Posts(h)) : ~(i + Len(Waits(h)) < step) /\ ~(i + Len(Waits(h)) < step + 1)
      BY <1>1, <1>2
    <3>8. ~Produced(h, w) /\ ~Produced(h, w)'
      BY <1>8, <1>9, <3>1, <3>7 DEF Produced
    <3> QED BY <2>2, <3>6, <3>8
  <2> QED BY <2>1, <2>2
<1>12. CountsOK'
  <2> SUFFICES ASSUME NEW w \in Vids(prog)
               PROVE  /\ consumerCount'[w] = Sum(prog.count, WaitingOn(w)')
                      /\ producerCount[w] = Sum(prog.count, StillToPost(w)')
    BY <1>1 DEF CountsOK
  <2>1. \A t \in Pending : t \in Tasks(prog)
    BY DEF Pending
  <2>2. StillToPost(w)' = StillToPost(w)
    BY <1>1, <1>10, <1>11, <2>1 DEF StillToPost, Waits, Posts
  <2>3. WaitingOn(w)' = IF w = v THEN WaitingOn(w) \ {h} ELSE WaitingOn(w)
    BY <1>1, <1>10, <1>11, <2>1 DEF WaitingOn, Waits, Posts
  <2>4. producerCount[w] = Sum(prog.count, StillToPost(w)')
    BY <1>2, <2>2 DEF CountsOK
  <2>5. CASE w # v
    <3>1. consumerCount'[w] = consumerCount[w]
      BY <1>2, <1>8, <2>5 DEF Types
    <3> QED BY <1>2, <2>3, <2>4, <2>5, <3>1 DEF CountsOK
  <2>6. CASE w = v
    <3>1. consumerCount'[v] = consumerCount[v] - n
      BY <1>2, <1>3, <1>8 DEF Types
    <3>2. consumerCount[v] = n + Sum(prog.count, WaitingOn(v) \ {h})
      BY <1>2, <1>3, <1>5, SlotSums, LeftAreTasks DEF CountsOK, n
    <3>3. WaitingOn(v) \ {h} \in SUBSET Tasks(prog)
      BY LeftAreTasks
    <3>4. Sum(prog.count, WaitingOn(v) \ {h}) \in Nat
      BY <1>2, <3>3, SlotSums
    <3> QED BY <1>2, <1>6, <2>3, <2>4, <2>6, <3>1, <3>2, <3>4
  <2> QED BY <2>5, <2>6
<1>13. \A u \in Vids(prog) : (u # v /\ realId[u] \in Pids /\ toVirtual[realId[u]] = u)
                               => realId[u] \in Pids' /\ toVirtual'[realId[u]] = u
  BY <1>2, <1>4, <1>8 DEF OnItsPid, Types, Pids
<1>14. TaskOK'
  <2>1. ASSUME NEW i \in 1 .. Len(Waits(h)), i >= step + 1
        PROVE  OnItsPid(Waits(h)[i])' /\ producerCount[Waits(h)[i]] = 0
    <3>1. i >= step /\ i # step
      BY <1>2, <2>1
    <3>2. OnItsPid(Waits(h)[i]) /\ producerCount[Waits(h)[i]] = 0
      BY <1>1, <1>2, <2>1, <3>1 DEF TaskOK
    <3>3. Waits(h)[i] # v /\ Waits(h)[i] \in Vids(prog)
      BY <1>2, <1>3, <3>1, TaskBarrierLists DEF v
    <3>4. Waits(h)' = Waits(h) /\ realId' = realId
      BY <1>1, <1>9 DEF Waits
    <3> QED BY <1>13, <3>2, <3>3, <3>4 DEF OnItsPid
  <2>2. ASSUME NEW i \in 1 .. Len(Posts(h)), i + Len(Waits(h)) >= step + 1
        PROVE  OnItsPid(Posts(h)[i])'
    <3>1. i + Len(Waits(h)) >= step
      BY <1>2, <2>2
    <3>2. OnItsPid(Posts(h)[i])
      BY <1>1, <1>2, <2>2, <3>1 DEF TaskOK
    <3>3. Posts(h)[i] \in Vids(prog) /\ InSeq(Posts(h)[i], Posts(h))
      BY <1>2, TaskBarrierLists DEF InSeq
    <3>4. h \in StillToPost(Posts(h)[i])
      <4>1. \A j \in 1 .. Len(Posts(h)) : ~(j + Len(Waits(h)) < step)
        BY <1>1, <1>2
      <4>2. ~Produced(h, Posts(h)[i])
        BY <4>1 DEF Produced
      <4> QED BY <1>2, <3>3, <4>2 DEF StillToPost
    <3>5. producerCount[Posts(h)[i]] # 0
      <4>1. n <= producerCount[Posts(h)[i]]
        BY <1>2, <3>3, <3>4, SlotSums, LeftAreTasks DEF CountsOK, n
      <4>2. producerCount[Posts(h)[i]] \in Nat
        BY <1>2, <3>3 DEF Types
      <4> QED BY <1>2, <4>1, <4>2
    <3>6. Posts(h)[i] # v
      BY <1>4, <3>5
    <3>7. Posts(h)' = Posts(h) /\ realId' = realId
      BY <1>1, <1>9 DEF Posts
    <3> QED BY <1>13, <3>2, <3>3, <3>6, <3>7 DEF OnItsPid
  <2>3. Waits(h)' = Waits(h) /\ Posts(h)' = Posts(h)
    BY <1>1, <1>9 DEF Waits, Posts
  <2> QED BY <1>1, <1>8, <1>9, <2>1, <2>2, <2>3 DEF TaskOK, OnItsPid, Waits, Posts
<1>15. UnproducedKeepPid'
  <2> SUFFICES ASSUME Dynamic, NEW w \in Vids(prog), realId[w] # None, producerCount[w] # 0
               PROVE  realId[w] \in Pids' /\ toVirtual'[realId[w]] = w
    BY <1>1 DEF UnproducedKeepPid, Dynamic
  <2>1. w # v /\ toVirtual[realId[w]] = w /\ realId[w] \in Pids
    BY <1>2, <1>4 DEF UnproducedKeepPid, Types
  <2> QED BY <1>13, <2>1
<1>16. ResultOK'
  BY <1>1, <1>2, <1>8 DEF ResultOK, SlotsBalance
<1> QED BY <1>10, <1>12, <1>14, <1>15, <1>16 DEF SlotInv

\* Every update barrier of the running task can be produced.
LEMMA SlotsProduce ==
  ASSUME SimOK, SlotInv, ProduceBarrier
  PROVE  SlotInv'
<1>0. PICK h : h = HeadTask
  OBVIOUS
<1> USE <1>0
<1> DEFINE k == step - Len(Waits(h))
           v == Posts(h)[k]
           n == prog.count[h]
<1>1. /\ stage = "task" /\ step > Len(Waits(h)) /\ step <= Len(Waits(h)) + Len(Posts(h))
      /\ UNCHANGED <<prog, mode, queue, consumerCount, realId, toVirtual, pos, fifo>>
  BY DEF ProduceBarrier, mapping
<1>2. /\ Types /\ QueueOK /\ CountsOK /\ UnproducedKeepPid /\ TaskOK /\ ResultOK
      /\ h \in Pending /\ h \in Tasks(prog) /\ step \in Nat \ {0} /\ n \in Nat \ {0}
      /\ Len(Waits(h)) \in Nat /\ Len(Posts(h)) \in Nat /\ Pids \in SUBSET Nat
  BY <1>1, RunningTask DEF SimOK, SlotInv
<1>3. /\ k \in 1 .. Len(Posts(h)) /\ k + Len(Waits(h)) = step /\ v \in Vids(prog) /\ InSeq(v, Posts(h))
      /\ \A i, j \in 1 .. Len(Posts(h)) : Posts(h)[i] = Posts(h)[j] => i = j
  <2>1. k \in 1 .. Len(Posts(h)) /\ k + Len(Waits(h)) = step
    BY <1>1, <1>2
  <2> HIDE DEF k
  <2> QED BY <1>2, <2>1, TaskBarrierLists DEF InSeq
<1>4. OnItsPid(v)
  <2>1. k + Len(Waits(h)) >= step
    BY <1>2, <1>3
  <2> HIDE DEF k
  <2> QED BY <1>1, <1>2, <1>3, <2>1 DEF TaskOK
<1> HIDE DEF k, n
<1>5. h \in StillToPost(v)
  <2>1. ~Produced(h, v)
    <3> SUFFICES ASSUME NEW i \in 1 .. Len(Posts(h)), i + Len(Waits(h)) < step, Posts(h)[i] = v PROVE FALSE
      BY DEF Produced
    <3>1. i = k
      BY <1>3
    <3> QED BY <1>2, <1>3, <3>1
  <2> QED BY <1>2, <1>3, <2>1 DEF StillToPost
<1> HIDE DEF v
<1>6. n <= producerCount[v] /\ producerCount[v] \in Nat
  BY <1>2, <1>3, <1>5, SlotSums, LeftAreTasks DEF CountsOK, n
<1>7. IsBarrierMapped(v) /\ producerCount[v] >= n
  BY <1>2, <1>4, <1>6 DEF IsBarrierMapped, OnItsPid
<1>8. /\ producerCount' = [producerCount EXCEPT ![v] = producerCount[v] - n]
      /\ step' = step + 1 /\ stage' = "task" /\ result' = result
  BY <1>1, <1>7 DEF ProduceBarrier, ContinueIf, k, v, n
<1>9. HeadTask' = h
  BY <1>1 DEF HeadTask, Task
<1>10. Pending' = Pending /\ QueueOK'
  BY <1>1, <1>2, <1>8 DEF Pending, StillQueued, QueueOK
<1>11. ASSUME NEW t \in Tasks(prog), NEW w
       PROVE  /\ Consumed(t, w)' <=> Consumed(t, w)
              /\ Produced(t, w)' <=> (Produced(t, w) \/ (t = h /\ w = v))
  <2>1. CASE t # h
    BY <1>9, <2>1 DEF Consumed, Produced
  <2>2. CASE t = h
    <3>1. Waits(h)' = Waits(h) /\ Posts(h)' = Posts(h)
      BY <1>1, <1>9 DEF Waits, Posts
    <3>2. \A i \in 1 .. Len(Posts(h)) :
            i + Len(Waits(h)) < step + 1 <=> (i + Len(Waits(h)) < step \/ i = k)
      BY <1>2, <1>3
    <3>3. Produced(h, w)' <=> \E i \in 1 .. Len(Posts(h)) : i + Len(Waits(h)) < step + 1 /\ Posts(h)[i] = w
      BY <1>8, <1>9, <3>1 DEF Produced
    <3>4. Produced(h, w) <=> \E i \in 1 .. Len(Posts(h)) : i + Len(Waits(h)) < step /\ Posts(h)[i] = w
      BY <1>1 DEF Produced
    <3>5. Posts(h)[k] = v
      BY DEF v
    <3>6. Produced(h, w)' <=> Produced(h, w) \/ w = v
      BY <1>3, <3>2, <3>3, <3>4, <3>5
    <3>7. \A i \in 1 .. Len(Waits(h)) : i < step /\ i < step + 1
      BY <1>1, <1>2
    <3>8. Consumed(h, w)' <=> Consumed(h, w)
      BY <1>1, <1>8, <1>9, <3>1, <3>7 DEF Consumed
    <3> QED BY <2>2, <3>6, <3>8
  <2> QED BY <2>1, <2>2
<1>12. CountsOK'
  <2> SUFFICES ASSUME NEW w \in Vids(prog)
               PROVE  /\ consumerCount[w] = Sum(prog.count, WaitingOn(w)')
                      /\ producerCount'[w] = Sum(prog.count, StillToPost(w)')
    BY <1>1 DEF CountsOK
  <2>1. \A t \in Pending : t \in Tasks(prog)
    BY DEF Pending
  <2>2. WaitingOn(w)' = WaitingOn(w)
    BY <1>1, <1>10, <1>11, <2>1 DEF WaitingOn, Waits, Posts
  <2>3. StillToPost(w)' = IF w = v THEN StillToPost(w) \ {h} ELSE StillToPost(w)
    BY <1>1, <1>10, <1>11, <2>1 DEF StillToPost, Waits, Posts
  <2>4. consumerCount[w] = Sum(prog.count, WaitingOn(w)')
    BY <1>2, <2>2 DEF CountsOK
  <2>5. CASE w # v
    <3>1. producerCount'[w] = producerCount[w]
      BY <1>2, <1>8, <2>5 DEF Types
    <3> QED BY <1>2, <2>3, <2>4, <2>5, <3>1 DEF CountsOK
  <2>6. CASE w = v
    <3>1. producerCount'[v] = producerCount[v] - n
      BY <1>2, <1>3, <1>8 DEF Types
    <3>2. producerCount[v] = n + Sum(prog.count, StillToPost(v) \ {h})
      BY <1>2, <1>3, <1>5, SlotSums, LeftAreTasks DEF CountsOK, n
    <3>3. StillToPost(v) \ {h} \in SUBSET Tasks(prog)
      BY LeftAreTasks
    <3>4. Sum(prog.count, StillToPost(v) \ {h}) \in Nat
      BY <1>2, <3>3, SlotSums
    <3> QED BY <1>2, <1>6, <2>3, <2>4, <2>6, <3>1, <3>2, <3>4
  <2> QED BY <2>5, <2>6
<1>13. TaskOK'
  <2>1. \A i \in 1 .. Len(Waits(h)) : ~(i >= step + 1)
    BY <1>1, <1>2
  <2>2. \A i \in 1 .. Len(Posts(h)) : i + Len(Waits(h)) >= step + 1 => i + Len(Waits(h)) >= step
    BY <1>2
  <2>3. \A i \in 1 .. Len(Posts(h)) : i + Len(Waits(h)) >= step + 1 => OnItsPid(Posts(h)[i])
    BY <1>1, <1>2, <2>2 DEF TaskOK
  <2>4. Waits(h)' = Waits(h) /\ Posts(h)' = Posts(h)
    BY <1>1, <1>9 DEF Waits, Posts
  <2> QED BY <1>1, <1>8, <1>9, <2>1, <2>3, <2>4 DEF TaskOK, OnItsPid, Pids, Waits, Posts
<1>14. UnproducedKeepPid'
  <2> SUFFICES ASSUME Dynamic, NEW w \in Vids(prog), realId[w] # None, producerCount'[w] # 0
               PROVE  realId[w] \in Pids /\ toVirtual[realId[w]] = w
    BY <1>1 DEF UnproducedKeepPid, Dynamic, Pids
  <2>1. producerCount[w] # 0
    <3>1. CASE w = v
      BY <1>2, <1>6, <3>1
    <3>2. CASE w # v
      BY <1>2, <1>8, <3>2 DEF Types
    <3> QED BY <3>1, <3>2
  <2> QED BY <1>2, <2>1 DEF UnproducedKeepPid
<1>15. ResultOK'
  BY <1>1, <1>2, <1>8 DEF ResultOK, SlotsBalance
<1> QED BY <1>10, <1>12, <1>13, <1>14, <1>15 DEF SlotInv

LEMMA SlotsStutter ==
  ASSUME SlotInv, UNCHANGED vars
  PROVE  SlotInv'
<1>1. UNCHANGED <<prog, mode, stage, step, fifo, pos, result, queue, producerCount, consumerCount, realId, toVirtual>>
  BY DEF vars, parsed, mapping, control
<1>2. HeadTask' = HeadTask /\ Pending' = Pending
  BY <1>1 DEF HeadTask, Task, Pending, StillQueued
<1>3. \A v : WaitingOn(v)' = WaitingOn(v) /\ StillToPost(v)' = StillToPost(v)
  BY <1>1, <1>2 DEF WaitingOn, StillToPost, Consumed, Produced, Waits, Posts
<1>4. QueueOK' /\ CountsOK' /\ UnproducedKeepPid'
  BY <1>1, <1>3 DEF SlotInv, QueueOK, CountsOK, UnproducedKeepPid, Dynamic, Pids
<1>5. TaskOK' /\ ResultOK'
  BY <1>1, <1>2 DEF SlotInv, TaskOK, OnItsPid, Pids, Waits, Posts, ResultOK, SlotsBalance
<1> QED BY <1>4, <1>5 DEF SlotInv

\* Every step keeps the slots in balance.
LEMMA SlotNext == BaseInv /\ SlotInv /\ [Next]_vars => BaseInv' /\ SlotInv'
<1>1. ASSUME BaseInv, [Next]_vars PROVE BaseInv'
  <2>1. TypeOK' /\ ControlOK' /\ MappingInv'
    BY <1>1, TypeNext, MappingNext DEF BaseInv, SimOK
  <2>2. (TypeOK => Types /\ Pids = 0 .. NumPids - 1)'
    BY TypesOfTypeOK, PTL
  <2> QED BY <2>1, <2>2 DEF BaseInv, SimOK
<1>2. ASSUME SimOK, SlotInv, Next PROVE SlotInv'
  BY <1>2, SlotsParse, SlotsBetween, SlotsBegin, SlotsConsume, SlotsProduce, SlotsEnd
     DEF Next, Construct, Simulate
<1> QED BY <1>1, <1>2, SlotsStutter DEF BaseInv

\* The invariant of the simulator and of its slots.
LEMMA SlotsHold == Spec => [](BaseInv /\ SlotInv)
<1>1. Init => BaseInv /\ SlotInv
  BY InitIsFresh, TypeInit, MappingInit, SlotInit, TypesOfTypeOK DEF BaseInv, SimOK
<1> QED BY <1>1, SlotNext, PTL DEF Spec

\* No simulation ends because a task finds a barrier with too few slots, whichever
\* way PIDs are chosen, and one that succeeds has consumed and produced every slot
\* that parseTasks counted.
THEOREM SlotsCorrect == Spec => []SlotsBalance
<1>1. SlotInv => SlotsBalance
  BY DEF SlotInv, ResultOK
<1> QED BY <1>1, SlotsHold, PTL

\* isBarrierMapped may trust realId alone when PIDs are being assigned: the barriers
\* that a running task has still to consume or to produce are programmed.
THEOREM TaskBarriersCorrect == Spec => []TaskBarriersProgrammed
<1>1. ASSUME BaseInv, SlotInv PROVE TaskBarriersProgrammed
  <2> SUFFICES ASSUME stage = "task", NEW i \in step .. Len(Waits(HeadTask) \o Posts(HeadTask))
               PROVE  LET b == (Waits(HeadTask) \o Posts(HeadTask))[i] IN toVirtual[realId[b]] = b
    BY DEF TaskBarriersProgrammed
  <2> DEFINE w == Waits(HeadTask)
             p == Posts(HeadTask)
  <2>1. w \in Seq(Vids(prog)) /\ p \in Seq(Vids(prog)) /\ step \in Nat \ {0} /\ TaskOK
    BY <1>1, RunningTask, TaskBarrierLists DEF BaseInv, SimOK, SlotInv
  <2>2. /\ \A j \in 1 .. Len(w) : j >= step => OnItsPid(w[j])
        /\ \A j \in 1 .. Len(p) : j + Len(w) >= step => OnItsPid(p[j])
    BY <2>1 DEF TaskOK
  <2> HIDE DEF w, p
  <2>3. \/ i \in 1 .. Len(w) /\ i >= step /\ (w \o p)[i] = w[i]
        \/ /\ i - Len(w) \in 1 .. Len(p) /\ (i - Len(w)) + Len(w) >= step
           /\ (w \o p)[i] = p[i - Len(w)]
    BY <2>1 DEF w, p
  <2>4. OnItsPid((w \o p)[i])
    BY <2>2, <2>3
  <2> QED BY <2>4 DEF OnItsPid, w, p
<1>2. BaseInv /\ SlotInv => TaskBarriersProgrammed
  BY <1>1
<1> QED BY <1>2, SlotsHold, PTL

-----------------------------------------------------------------------------
(***************************************************************************)
(* The order in which a simulation runs the tasks.                         *)
(***************************************************************************)

\* The barriers of a task, and a simulation that has nothing left to do.
Uses(t, v) == InSeq(v, Waits(t)) \/ InSeq(v, Posts(t))
AllDone == bar >= prog.numBarriers /\ Pending = {}

\* parseTasks has reached t.
Parsed(t) == stage = "parse" => t < step

\* Every parsed task is in its FIFO, in the order of the schedule.  This holds of
\* the simulators of both passes and is all that the NPU is given.
QueuesInOrder ==
  /\ queue \in [1 .. NumFifos -> Seq(Tasks(prog))]
  /\ step \in Nat
  /\ \A f \in 1 .. NumFifos :
       /\ \A i, j \in 1 .. Len(queue[f]) : i < j => queue[f][i] < queue[f][j]
       /\ \A i \in 1 .. Len(queue[f]) : prog.fifo[queue[f][i]] = f /\ Parsed(queue[f][i])
  /\ \A t \in Tasks(prog) :
       Parsed(t) => \E i \in 1 .. Len(queue[prog.fifo[t]]) : queue[prog.fifo[t]][i] = t

\* No task has run that uses a VID without a PID.
UsersPending ==
  \A t \in Tasks(prog), v \in Vids(prog) :
    Parsed(t) /\ Uses(t, v) /\ realId[v] = None => t \in Pending

\* The simulation runs a task only after the tasks directly before it.
SimulatedInOrder ==
  \A t, u \in Tasks(prog) :
    DirectlyBefore(prog, t, u) /\ t \in Pending /\ Parsed(u) => u \in Pending

\* What was true when the running task began, and still is.
TaskBegun ==
  stage = "task" =>
    /\ \A i \in 1 .. Len(Waits(HeadTask)) :
         realId[Waits(HeadTask)[i]] # None /\ producerCount[Waits(HeadTask)[i]] = 0
    /\ \A i \in 1 .. Len(Posts(HeadTask)) : realId[Posts(HeadTask)[i]] # None

\* How the tasks run in every simulation.
SimOrder == SimulatedInOrder /\ TaskBegun

\* The largest and the smallest member of a set of VIDs or tasks.
LEMMA Extremes ==
  ASSUME NEW n \in Nat, NEW S \in SUBSET (0 .. n), S # {}
  PROVE  /\ \E x \in S : \A y \in S : y <= x
         /\ \E x \in S : \A y \in S : x <= y
<1> DEFINE f == [x \in S |-> x]
           g == [x \in S |-> n - x]
<1>1. IsFiniteSet(S)
  <2>1. 0 \in Int /\ n \in Int
    OBVIOUS
  <2> QED BY <2>1, FS_Interval, FS_Subset
<1>2. \A x \in S : x \in 0 .. n /\ f[x] = x /\ f[x] \in Int /\ g[x] = n - x /\ g[x] \in Int
  OBVIOUS
<1> HIDE DEF f, g
<1>3. \E x \in S : \A y \in S : f[y] <= f[x]
  BY <1>1, <1>2, LargestValue
<1>4. \E x \in S : \A y \in S : g[y] <= g[x]
  BY <1>1, <1>2, LargestValue
<1>5. ASSUME NEW x \in S, NEW y \in S PROVE g[y] <= g[x] => x <= y
  BY <1>2
<1>6. \E x \in S : \A y \in S : y <= x
  BY <1>2, <1>3
<1>7. \E x \in S : \A y \in S : x <= y
  BY <1>4, <1>5
<1> QED BY <1>6, <1>7

\* Tasks and VIDs of a schedule are small numbers.
LEMMA SmallNumbers ==
  ASSUME NEW p, WellFormed(p)
  PROVE  /\ p.numTasks \in Nat /\ Tasks(p) \in SUBSET (0 .. p.numTasks)
         /\ p.numBarriers \in Nat /\ Vids(p) \in SUBSET (0 .. p.numBarriers)
BY DEF WellFormed, Tasks, Vids

\* The next task of a FIFO is pending, and those of its FIFO that come before it in
\* the schedule are not.
LEMMA NextOfFifo ==
  ASSUME prog \in Programs, QueuesInOrder, pos \in [1 .. NumFifos -> Nat \ {0}],
         NEW f \in 1 .. NumFifos, ~FifoComplete(f)
  PROVE  /\ Task(f) \in Tasks(prog) /\ prog.fifo[Task(f)] = f /\ Task(f) \in Pending
         /\ pos[f] \in 1 .. Len(queue[f]) /\ queue[f][pos[f]] = Task(f)
         /\ \A i \in 1 .. Len(queue[f]) : queue[f][i] = Task(f) => i = pos[f]
         /\ \A t \in Tasks(prog) : prog.fifo[t] = f /\ t < Task(f) => t \notin Pending
<1>1. /\ queue[f] \in Seq(Tasks(prog)) /\ pos[f] \in Nat \ {0} /\ Len(queue[f]) \in Nat
      /\ pos[f] <= Len(queue[f])
  BY DEF QueuesInOrder, FifoComplete
<1>2. pos[f] \in 1 .. Len(queue[f])
  BY <1>1
<1>3. \A i \in 1 .. Len(queue[f]) : queue[f][i] \in Tasks(prog) /\ queue[f][i] \in Nat
  <2>1. \A P : \A q \in Seq(P) : \A i \in 1 .. Len(q) : q[i] \in P
    OBVIOUS
  <2>2. Tasks(prog) \in SUBSET Nat
    BY DEF Tasks
  <2> QED BY <1>1, <2>1, <2>2
<1>4. \A i, j \in 1 .. Len(queue[f]) : i < j => queue[f][i] < queue[f][j]
  BY DEF QueuesInOrder
<1>5. \A i \in 1 .. Len(queue[f]) : prog.fifo[queue[f][i]] = f
  BY DEF QueuesInOrder
<1>6. Task(f) = queue[f][pos[f]]
  BY DEF Task
<1>7. \A i \in 1 .. Len(queue[f]) : queue[f][i] = Task(f) => i = pos[f]
  BY <1>2, <1>3, <1>4, <1>6
<1>8. ASSUME NEW t \in Tasks(prog), prog.fifo[t] = f, t < Task(f), t \in Pending PROVE FALSE
  <2>1. PICK i \in 1 .. Len(queue[f]) : pos[f] <= i /\ queue[f][i] = t
    BY <1>8 DEF Pending, StillQueued
  <2> QED BY <1>1, <1>2, <1>3, <1>4, <1>6, <1>8, <2>1
<1>9. Task(f) \in Pending
  <2>1. pos[f] <= pos[f]
    BY <1>2
  <2> QED BY <1>2, <1>3, <1>5, <1>6, <2>1 DEF Pending, StillQueued
<1> QED BY <1>2, <1>3, <1>5, <1>6, <1>7, <1>8, <1>9

\* When the next task of a FIFO has run, it is the only one that is no longer pending.
LEMMA NextOfFifoRuns ==
  ASSUME prog \in Programs, QueuesInOrder, pos \in [1 .. NumFifos -> Nat \ {0}],
         NEW f \in 1 .. NumFifos, ~FifoComplete(f),
         pos' = [pos EXCEPT ![f] = @ + 1], UNCHANGED <<prog, queue>>
  PROVE  Pending' = Pending \ {Task(f)}
<1> DEFINE h == Task(f)
<1>1. /\ h \in Tasks(prog) /\ prog.fifo[h] = f /\ h \in Pending
      /\ pos[f] \in 1 .. Len(queue[f]) /\ queue[f][pos[f]] = h
      /\ \A i \in 1 .. Len(queue[f]) : queue[f][i] = h => i = pos[f]
  BY NextOfFifo
<1>2. prog.fifo \in [Tasks(prog) -> 1 .. NumFifos]
  BY ProgramsAssumption DEF WellFormed
<1> HIDE DEF h
<1>3. ASSUME NEW t \in Tasks(prog)
      PROVE  StillQueued(t)' <=> StillQueued(t) /\ t # h
  <2>1. CASE prog.fifo[t] # f
    <3>1. pos'[prog.fifo[t]] = pos[prog.fifo[t]] /\ t # h
      BY <1>1, <1>2, <2>1
    <3> QED BY <3>1 DEF StillQueued
  <2>2. CASE prog.fifo[t] = f
    <3>1. pos'[f] = pos[f] + 1
      OBVIOUS
    <3>2. StillQueued(t)' <=> \E i \in 1 .. Len(queue[f]) : pos[f] + 1 <= i /\ queue[f][i] = t
      BY <2>2, <3>1 DEF StillQueued
    <3>3. StillQueued(t) <=> \E i \in 1 .. Len(queue[f]) : pos[f] <= i /\ queue[f][i] = t
      BY <2>2 DEF StillQueued
    <3>4. \A i \in 1 .. Len(queue[f]) : pos[f] + 1 <= i <=> pos[f] <= i /\ i # pos[f]
      BY <1>1
    <3> QED BY <1>1, <3>2, <3>3, <3>4
  <2> QED BY <2>1, <2>2
<1>4. Pending' = {t \in Tasks(prog) : StillQueued(t)'}
  BY DEF Pending
<1> QED BY <1>1, <1>3, <1>4 DEF Pending, h

\* parseTasks puts the tasks into their FIFOs in the order of the schedule.
LEMMA ParseInOrder ==
  ASSUME prog \in Programs, QueuesInOrder, ParseTask
  PROVE  QueuesInOrder'
<1> DEFINE f == prog.fifo[step]
<1>1. /\ stage = "parse" /\ stage' = "parse" /\ step \in Tasks(prog) /\ step' = step + 1
      /\ queue' = [queue EXCEPT ![f] = Append(queue[f], step)]
      /\ prog' = prog
  BY DEF ParseTask
<1>2. /\ queue \in [1 .. NumFifos -> Seq(Tasks(prog))] /\ step \in Nat
      /\ f \in 1 .. NumFifos
      /\ prog.fifo \in [Tasks(prog) -> 1 .. NumFifos]
  BY <1>1, ProgramsAssumption DEF QueuesInOrder, WellFormed
<1> HIDE DEF f
<1>3. /\ Len(queue[f]) \in Nat /\ Len(queue'[f]) = Len(queue[f]) + 1
      /\ queue'[f][Len(queue[f]) + 1] = step
      /\ \A i \in 1 .. Len(queue[f]) : queue'[f][i] = queue[f][i]
      /\ \A g \in 1 .. NumFifos : g # f => queue'[g] = queue[g]
  <2>1. queue[f] \in Seq(Tasks(prog)) /\ queue'[f] = Append(queue[f], step)
    BY <1>1, <1>2
  <2> QED BY <1>1, <1>2, <2>1
<1>4. queue' \in [1 .. NumFifos -> Seq(Tasks(prog))]
  <2>1. Append(queue[f], step) \in Seq(Tasks(prog))
    BY <1>1, <1>2, SMTT(30)
  <2> QED BY <1>1, <1>2, <2>1
<1>5. ASSUME NEW g \in 1 .. NumFifos
      PROVE  /\ Len(queue[g]) \in Nat
             /\ \A i \in 1 .. Len(queue[g]) :
                  /\ queue[g][i] \in Nat /\ queue[g][i] < step /\ prog.fifo[queue[g][i]] = g
             /\ \A i, j \in 1 .. Len(queue[g]) : i < j => queue[g][i] < queue[g][j]
  <2>1. \A P : \A q \in Seq(P) : Len(q) \in Nat /\ \A i \in 1 .. Len(q) : q[i] \in P
    OBVIOUS
  <2>2. Tasks(prog) \in SUBSET Nat
    BY DEF Tasks
  <2>3. queue[g] \in Seq(Tasks(prog))
    BY <1>2
  <2> QED BY <1>1, <2>1, <2>2, <2>3 DEF QueuesInOrder, Parsed
<1>6. ASSUME NEW g \in 1 .. NumFifos
      PROVE  /\ \A i, j \in 1 .. Len(queue'[g]) : i < j => queue'[g][i] < queue'[g][j]
             /\ \A i \in 1 .. Len(queue'[g]) : prog.fifo[queue'[g][i]] = g /\ queue'[g][i] < step + 1
  <2>1. CASE g # f
    <3>1. queue'[g] = queue[g]
      BY <1>3, <2>1
    <3> QED BY <1>2, <1>5, <3>1
  <2>2. CASE g = f
    <3>1. \A i \in 1 .. Len(queue'[f]) : i \in 1 .. Len(queue[f]) \/ i = Len(queue[f]) + 1
      BY <1>3
    <3>2. ASSUME NEW i \in 1 .. Len(queue'[f]), NEW j \in 1 .. Len(queue'[f]), i < j
          PROVE  queue'[f][i] < queue'[f][j]
      <4>1. i \in 1 .. Len(queue[f])
        BY <1>3, <3>2
      <4>2. CASE j \in 1 .. Len(queue[f])
        BY <1>3, <1>5, <2>2, <3>2, <4>1, <4>2
      <4>3. CASE j = Len(queue[f]) + 1
        BY <1>3, <1>5, <2>2, <4>1, <4>3
      <4> QED BY <3>1, <4>2, <4>3
    <3>3. ASSUME NEW i \in 1 .. Len(queue'[f])
          PROVE  prog.fifo[queue'[f][i]] = f /\ queue'[f][i] < step + 1
      <4>1. CASE i \in 1 .. Len(queue[f])
        <5>1. /\ queue'[f][i] = queue[f][i] /\ queue[f][i] \in Nat
              /\ queue[f][i] < step /\ prog.fifo[queue[f][i]] = f
          BY <1>3, <1>5, <2>2, <4>1
        <5> QED BY <1>2, <5>1
      <4>2. CASE i = Len(queue[f]) + 1
        BY <1>2, <1>3, <4>2 DEF f
      <4> QED BY <3>1, <4>1, <4>2
    <3> QED BY <2>2, <3>2, <3>3
  <2> QED BY <2>1, <2>2
<1>7. ASSUME NEW t \in Tasks(prog), t < step + 1
      PROVE  \E i \in 1 .. Len(queue'[prog.fifo[t]]) : queue'[prog.fifo[t]][i] = t
  <2>1. CASE t = step
    <3>1. Len(queue[f]) + 1 \in 1 .. Len(queue'[f])
      BY <1>3
    <3> QED BY <1>3, <2>1, <3>1 DEF f
  <2>2. CASE t # step
    <3>1. t < step
      BY <1>2, <1>7, <2>2 DEF Tasks
    <3>2. PICK i \in 1 .. Len(queue[prog.fifo[t]]) : queue[prog.fifo[t]][i] = t
      BY <3>1 DEF QueuesInOrder, Parsed
    <3>3. prog.fifo[t] \in 1 .. NumFifos
      BY <1>2
    <3>4. i \in 1 .. Len(queue'[prog.fifo[t]]) /\ queue'[prog.fifo[t]][i] = t
      <4>1. CASE prog.fifo[t] = f
        BY <1>3, <3>2, <4>1
      <4>2. CASE prog.fifo[t] # f
        BY <1>3, <3>2, <3>3, <4>2
      <4> QED BY <4>1, <4>2
    <3> QED BY <3>4
  <2> QED BY <2>1, <2>2
<1>8. step' \in Nat
  BY <1>1, <1>2
<1>9. Tasks(prog)' = Tasks(prog) /\ \A t : Parsed(t)' <=> t < step + 1
  BY <1>1 DEF Parsed
<1> QED BY <1>1, <1>4, <1>6, <1>7, <1>8, <1>9, ZenonT(60) DEF QueuesInOrder

\* A step that leaves the queues alone and has parseTasks behind it.
LEMMA QueuesStay ==
  ASSUME QueuesInOrder, UNCHANGED <<prog, queue>>, step' \in Nat, stage' # "parse",
         stage = "parse" => step > prog.numTasks, prog \in Programs
  PROVE  QueuesInOrder'
<1>1. \A t \in Tasks(prog) : Parsed(t)
  <2>1. prog.numTasks \in Nat /\ step \in Nat
    BY ProgramsAssumption DEF WellFormed, QueuesInOrder
  <2> QED BY <2>1 DEF Parsed, Tasks
<1> QED BY <1>1 DEF QueuesInOrder, Parsed

\* The queues of both passes: every step of a simulator.
LEMMA QueuesNext ==
  ASSUME prog \in Programs, QueuesInOrder, Next
  PROVE  QueuesInOrder' /\ prog' = prog
<1>1. CASE ParseTask
  BY <1>1, ParseInOrder DEF ParseTask
<1>2. step \in Nat
  BY DEF QueuesInOrder
<1>3. CASE CheckSlots \/ BeginPages \/ AssignPage \/ EndPages
  <2>1. /\ UNCHANGED <<prog, queue>> /\ stage' # "parse" /\ step' \in Nat
        /\ stage = "parse" => step > prog.numTasks
    BY <1>2, <1>3 DEF CheckSlots, BeginPages, AssignPage, EndPages, Finish, parsed
  <2> QED BY <2>1, QueuesStay
<1>4. CASE BeginIteration \/ Succeed \/ MapBarrier \/ StopMapping \/ NextFifo \/ EndIteration
  <2>1. UNCHANGED <<prog, queue>> /\ stage' # "parse" /\ step' \in Nat /\ stage # "parse"
    BY <1>2, <1>4 DEF BeginIteration, Succeed, MapBarrier, StopMapping, NextFifo, EndIteration,
                      IterationDone, Finish, parsed
  <2> QED BY <2>1, QueuesStay
<1>5. CASE BeginTask \/ ConsumeBarrier \/ ProduceBarrier \/ EndTask
  <2>1. UNCHANGED <<prog, queue>> /\ stage' # "parse" /\ step' \in Nat /\ stage # "parse"
    BY <1>2, <1>5 DEF BeginTask, ConsumeBarrier, ProduceBarrier, EndTask, ContinueIf, parsed
  <2> QED BY <2>1, QueuesStay
<1> QED BY <1>1, <1>3, <1>4, <1>5, QueuesStay DEF Next, Construct, Simulate

\* A new simulator has parsed nothing.
LEMMA QueuesEmpty ==
  ASSUME stage = "parse", step = 1, queue = [f \in 1 .. NumFifos |-> <<>>]
  PROVE  QueuesInOrder
<1>1. \A f \in 1 .. NumFifos : Len(queue[f]) = 0
  OBVIOUS
<1>2. \A t \in Tasks(prog) : ~Parsed(t)
  BY DEF Parsed, Tasks
<1>3. queue \in [1 .. NumFifos -> Seq(Tasks(prog))]
  OBVIOUS
<1> QED BY <1>1, <1>2, <1>3 DEF QueuesInOrder

\* Nothing is parsed yet.
LEMMA SimInit == Fresh => SimOrder
<1> SUFFICES ASSUME Fresh PROVE SimOrder
  OBVIOUS
<1>1. stage = "parse" /\ step = 1
  BY DEF Fresh, Start
<1>2. \A t \in Tasks(prog) : ~Parsed(t)
  BY <1>1 DEF Parsed, Tasks
<1> QED BY <1>1, <1>2 DEF SimOrder, SimulatedInOrder, TaskBegun

\* Every parsed task is in its FIFO and none has run while parseTasks runs.
LEMMA ParsedArePending ==
  Types /\ QueuesInOrder /\ QueueOK /\ stage = "parse"
    => \A t \in Tasks(prog) : Parsed(t) => t \in Pending
<1> SUFFICES ASSUME Types, QueuesInOrder, QueueOK, stage = "parse", NEW t \in Tasks(prog), Parsed(t)
             PROVE  StillQueued(t)
  BY DEF Pending
<1>1. PICK i \in 1 .. Len(queue[prog.fifo[t]]) : queue[prog.fifo[t]][i] = t
  BY DEF QueuesInOrder
<1>2. prog.fifo[t] \in 1 .. NumFifos
  BY DEF Types, WellFormed
<1>3. pos[prog.fifo[t]] = 1 /\ 1 <= i
  BY <1>2 DEF QueueOK
<1> QED BY <1>1, <1>3 DEF StillQueued

\* The same after a step of parseTasks.
LEMMA ParsedNext ==
  ASSUME SimOK', SlotInv', QueuesInOrder', ParseTask
  PROVE  \A t \in Tasks(prog) : Parsed(t)' => t \in Pending'
<1>1. prog' = prog /\ stage' = "parse"
  BY DEF ParseTask
<1>2. (Types /\ QueuesInOrder /\ QueueOK /\ stage = "parse"
        => \A t \in Tasks(prog) : Parsed(t) => t \in Pending)'
  BY ParsedArePending, PTL
<1> QED BY <1>1, <1>2 DEF SimOK, SlotInv

\* When parseTasks is done, every task of the schedule is parsed.
LEMMA AllParsed ==
  ASSUME prog \in Programs, QueuesInOrder, stage = "parse" => step > prog.numTasks
  PROVE  \A t \in Tasks(prog) : Parsed(t)
<1>1. prog.numTasks \in Nat /\ step \in Nat
  BY ProgramsAssumption DEF WellFormed, QueuesInOrder
<1> QED BY <1>1 DEF Parsed, Tasks

\* A step that neither parses nor ends a task.
LEMMA SimQuiet ==
  ASSUME prog \in Programs, QueuesInOrder, SimOrder, UNCHANGED <<prog, queue, pos>>,
         stage' # "parse", stage = "parse" => step > prog.numTasks, TaskBegun'
  PROVE  SimOrder'
<1>1. \A t \in Tasks(prog) : Parsed(t)
  BY AllParsed
<1>2. Pending' = Pending /\ Tasks(prog)' = Tasks(prog)
  BY DEF Pending, StillQueued
<1> QED BY <1>1, <1>2 DEF SimOrder, SimulatedInOrder

\* A task begins when its barriers are mapped and produced.
LEMMA BegunAtStart ==
  ASSUME SimOK, SlotInv, BeginTask
  PROVE  TaskBegun'
<1>1. /\ UNCHANGED <<prog, queue, pos, fifo, realId, producerCount>>
      /\ TaskReady(HeadTask) /\ ~FifoComplete(fifo) /\ fifo <= NumFifos
  BY DEF BeginTask, HeadCanRun, parsed, mapping
<1>2. HeadTask' = HeadTask
  BY <1>1 DEF HeadTask, Task
<1>3. Types /\ QueueOK /\ fifo \in 1 .. NumFifos /\ pos[fifo] <= Len(queue[fifo])
  <2>1. Types /\ QueueOK
    BY DEF SimOK, SlotInv
  <2>2. fifo \in 1 .. NumFifos
    BY <1>1, <2>1, NumFifosAssumption DEF Types
  <2>3. pos[fifo] \in Nat /\ Len(queue[fifo]) \in Nat
    <3>1. pos[fifo] \in Nat \ {0} /\ queue[fifo] \in Seq(Tasks(prog))
      BY <2>1, <2>2 DEF Types
    <3> QED BY <3>1
  <2> QED BY <1>1, <2>1, <2>2, <2>3 DEF FifoComplete
<1>4. HeadTask \in Tasks(prog)
  BY <1>3, HeadIsPending
<1>5. /\ DOMAIN Waits(HeadTask) = 1 .. Len(Waits(HeadTask))
      /\ DOMAIN Posts(HeadTask) = 1 .. Len(Posts(HeadTask))
  BY <1>3, <1>4, TaskBarrierLists
<1>6. \A v : IsBarrierMapped(v) => realId[v] # None
  <2>1. Pids \in SUBSET Nat
    BY <1>3 DEF Types
  <2> QED BY <2>1 DEF IsBarrierMapped, None
<1>7. Waits(HeadTask)' = Waits(HeadTask) /\ Posts(HeadTask)' = Posts(HeadTask)
  BY <1>1, <1>2 DEF Waits, Posts
<1> QED BY <1>1, <1>5, <1>6, <1>7 DEF TaskBegun, TaskReady

\* Producing a barrier leaves those the task waited on as they were.
LEMMA BegunWhileProducing ==
  ASSUME SimOK, SlotInv, TaskBegun, ProduceBarrier
  PROVE  TaskBegun'
<1>1. /\ UNCHANGED <<prog, queue, pos, fifo, realId>> /\ stage = "task"
      /\ step > Len(Waits(HeadTask)) /\ step <= Len(Waits(HeadTask)) + Len(Posts(HeadTask))
  BY DEF ProduceBarrier, mapping
<1> SUFFICES ASSUME stage' = "task" PROVE TaskBegun'
  BY DEF TaskBegun
<1>2. HeadTask' = HeadTask /\ Waits(HeadTask)' = Waits(HeadTask) /\ Posts(HeadTask)' = Posts(HeadTask)
  BY <1>1 DEF HeadTask, Task, Waits, Posts
<1>3. Types /\ HeadTask \in Tasks(prog) /\ prog.count[HeadTask] \in Nat \ {0}
  BY <1>1, RunningTask DEF SimOK
<1> DEFINE b == Posts(HeadTask)[step - Len(Waits(HeadTask))]
<1>4. /\ producerCount' = [producerCount EXCEPT ![b] = @ - prog.count[HeadTask]]
      /\ producerCount[b] >= prog.count[HeadTask]
  BY DEF ProduceBarrier, ContinueIf
<1> HIDE DEF b
<1>5. producerCount \in [Vids(prog) -> Nat]
  BY <1>3 DEF Types
<1>6. \A i \in 1 .. Len(Waits(HeadTask)) :
        Waits(HeadTask)[i] \in Vids(prog) /\ producerCount[Waits(HeadTask)[i]] = 0
  BY <1>1, <1>3, TaskBarrierLists DEF TaskBegun
<1>7. \A i \in 1 .. Len(Waits(HeadTask)) : producerCount'[Waits(HeadTask)[i]] = 0
  <2> SUFFICES ASSUME NEW i \in 1 .. Len(Waits(HeadTask)) PROVE producerCount'[Waits(HeadTask)[i]] = 0
    OBVIOUS
  <2>1. Waits(HeadTask)[i] # b
    BY <1>3, <1>4, <1>6
  <2> QED BY <1>4, <1>5, <1>6, <2>1
<1> QED BY <1>1, <1>2, <1>7 DEF TaskBegun

\* The task that ends is the next one of its FIFO, all tasks directly before it have
\* run, and its barriers have PIDs.
LEMMA EndingTask ==
  ASSUME prog \in Programs, QueuesInOrder, SimOK, SlotInv, SimOrder, EndTask
  PROVE  /\ HeadTask \in Tasks(prog) /\ HeadTask \in Pending /\ Pending' = Pending \ {HeadTask}
         /\ \A t \in Tasks(prog) : DirectlyBefore(prog, t, HeadTask) => t \notin Pending
         /\ \A v \in Vids(prog) : Uses(HeadTask, v) => realId[v] # None
<1> DEFINE h == HeadTask
<1>1. /\ UNCHANGED <<prog, queue, fifo, realId, toVirtual, prevVid, bar, result>>
      /\ stage = "task" /\ stage' = "fifos"
      /\ pos' = [pos EXCEPT ![fifo] = @ + 1]
  BY DEF EndTask, parsed, mapping
<1>2. /\ Types /\ QueueOK /\ CountsOK /\ h \in Tasks(prog) /\ h \in Pending
      /\ fifo \in 1 .. NumFifos /\ ~FifoComplete(fifo) /\ pos \in [1 .. NumFifos -> Nat \ {0}]
  <2>1. Types /\ QueueOK /\ CountsOK /\ ControlOK /\ h \in Tasks(prog) /\ h \in Pending
    BY <1>1, RunningTask DEF SimOK, SlotInv
  <2>2. /\ fifo \in 1 .. NumFifos /\ pos \in [1 .. NumFifos -> Nat \ {0}]
        /\ queue[fifo] \in Seq(Tasks(prog)) /\ pos[fifo] <= Len(queue[fifo])
    BY <1>1, <2>1 DEF Types, ControlOK
  <2>3. ~FifoComplete(fifo)
    BY <2>2 DEF FifoComplete
  <2> QED BY <2>1, <2>2, <2>3
<1>3. Task(fifo) = h
  BY DEF Task, HeadTask
<1>4. Pending' = Pending \ {h}
  BY <1>1, <1>2, <1>3, NextOfFifoRuns
<1>5. prog.fifo[h] = fifo /\ \A t \in Tasks(prog) : prog.fifo[t] = fifo /\ t < h => t \notin Pending
  BY <1>2, <1>3, NextOfFifo
<1> HIDE DEF h
<1>6. ASSUME NEW t \in Tasks(prog), DirectlyBefore(prog, t, h), t \in Pending PROVE FALSE
  <2>1. CASE prog.fifo[t] = prog.fifo[h]
    BY <1>5, <1>6, <2>1 DEF DirectlyBefore
  <2>2. CASE \E v \in Vids(prog) : InSeq(v, prog.posts[t]) /\ InSeq(v, prog.waits[h])
    <3>1. PICK v \in Vids(prog) : InSeq(v, Posts(t)) /\ InSeq(v, Waits(h))
      BY <2>2 DEF Waits, Posts
    <3>2. PICK i \in 1 .. Len(Waits(h)) : Waits(h)[i] = v
      BY <1>2, <3>1, TaskBarrierLists DEF InSeq
    <3>3. producerCount[v] = 0
      BY <1>1, <3>2 DEF SimOrder, TaskBegun, h
    <3>4. Sum(prog.count, StillToPost(v)) = 0 /\ StillToPost(v) \in SUBSET Tasks(prog)
      BY <1>2, <3>3, LeftAreTasks DEF CountsOK
    <3>5. t \notin StillToPost(v)
      <4>1. \A x \in StillToPost(v) : prog.count[x] <= 0
        BY <1>2, <3>4, SlotSums
      <4>2. prog.count[t] \in Nat \ {0}
        BY <1>2 DEF Types, WellFormed
      <4> QED BY <4>1, <4>2
    <3>6. t = h
      BY <1>6, <3>1, <3>5 DEF StillToPost, Produced, h
    <3>7. t < h /\ t \in Nat
      BY <1>6 DEF DirectlyBefore, Tasks
    <3> QED BY <3>6, <3>7
  <2> QED BY <1>6, <2>1, <2>2 DEF DirectlyBefore
<1>7. ASSUME NEW v \in Vids(prog), Uses(h, v) PROVE realId[v] # None
  <2>1. CASE InSeq(v, Waits(h))
    <3>1. PICK i \in 1 .. Len(Waits(h)) : Waits(h)[i] = v
      BY <1>2, <2>1, TaskBarrierLists DEF InSeq
    <3> QED BY <1>1, <3>1 DEF SimOrder, TaskBegun, h
  <2>2. CASE InSeq(v, Posts(h))
    <3>1. PICK i \in 1 .. Len(Posts(h)) : Posts(h)[i] = v
      BY <1>2, <2>2, TaskBarrierLists DEF InSeq
    <3> QED BY <1>1, <3>1 DEF SimOrder, TaskBegun, h
  <2> QED BY <1>7, <2>1, <2>2 DEF Uses
<1> QED BY <1>2, <1>4, <1>6, <1>7 DEF h

\* A simulation runs the tasks in order, whichever way it maps the VIDs.
LEMMA SimNext ==
  ASSUME prog \in Programs, QueuesInOrder, QueuesInOrder', SimOK, SimOK', SlotInv, SlotInv',
         SimOrder, Next
  PROVE  SimOrder'
<1>1. CASE ParseTask
  <2>1. \A t \in Tasks(prog) : Parsed(t)' => t \in Pending'
    BY <1>1, ParsedNext
  <2>2. prog' = prog /\ stage' = "parse"
    BY <1>1 DEF ParseTask
  <2> QED BY <2>1, <2>2 DEF SimOrder, SimulatedInOrder, TaskBegun
<1>2. CASE CheckSlots \/ BeginPages \/ AssignPage \/ EndPages \/ BeginIteration \/ Succeed
           \/ MapBarrier \/ StopMapping \/ NextFifo \/ EndIteration
  <2>1. /\ UNCHANGED <<prog, queue, pos>> /\ stage' \notin {"parse", "task"}
        /\ stage = "parse" => step > prog.numTasks
    BY <1>2 DEF CheckSlots, BeginPages, AssignPage, EndPages, BeginIteration, Succeed, MapBarrier,
                StopMapping, NextFifo, EndIteration, IterationDone, Finish, parsed, mapping
  <2>2. TaskBegun'
    BY <2>1 DEF TaskBegun
  <2> QED BY <2>1, <2>2, SimQuiet
<1>3. CASE BeginTask
  <2>1. UNCHANGED <<prog, queue, pos>> /\ stage' # "parse" /\ stage # "parse"
    BY <1>3 DEF BeginTask, parsed
  <2> QED BY <1>3, <2>1, BegunAtStart, SimQuiet
<1>4. CASE ConsumeBarrier
  <2>1. /\ UNCHANGED <<prog, queue, pos, fifo, realId, producerCount>>
        /\ stage' \in {"task", "done"} /\ stage = "task"
    BY <1>4 DEF ConsumeBarrier, ContinueIf
  <2>2. TaskBegun'
    BY <2>1 DEF SimOrder, TaskBegun, HeadTask, Task, Waits, Posts
  <2> QED BY <2>1, <2>2, SimQuiet
<1>5. CASE ProduceBarrier
  <2>1. UNCHANGED <<prog, queue, pos>> /\ stage' # "parse" /\ stage # "parse"
    BY <1>5 DEF ProduceBarrier, ContinueIf
  <2> QED BY <1>5, <2>1, BegunWhileProducing, SimQuiet DEF SimOrder
<1>6. CASE EndTask
  <2>1. prog' = prog /\ stage = "task" /\ stage' = "fifos"
    BY <1>6 DEF EndTask
  <2>2. \A t, u \in Tasks(prog) : DirectlyBefore(prog, t, u) /\ t \in Pending' => u \in Pending'
    <3> SUFFICES ASSUME NEW t \in Tasks(prog), NEW u \in Tasks(prog),
                        DirectlyBefore(prog, t, u), t \in Pending'
                 PROVE  u \in Pending'
      OBVIOUS
    <3>1. t \in Pending /\ u # HeadTask /\ Pending' = Pending \ {HeadTask}
      BY <1>6, EndingTask
    <3> QED BY <2>1, <3>1 DEF SimOrder, SimulatedInOrder, Parsed
  <2> QED BY <2>1, <2>2 DEF SimOrder, SimulatedInOrder, TaskBegun
<1> QED BY <1>1, <1>2, <1>3, <1>4, <1>5, <1>6 DEF Next, Construct, Simulate

\* A barrier without a consumer slot left has no consumer left, unless a task runs.
LEMMA ConsumersHaveRun ==
  ASSUME SimOK, SlotInv, stage # "task", NEW v \in Vids(prog), consumerCount[v] = 0
  PROVE  \A c \in Consumers(v) : c \in Tasks(prog) /\ c \notin Pending
<1>1. Types /\ CountsOK
  BY DEF SimOK, SlotInv
<1>2. Sum(prog.count, WaitingOn(v)) = 0
  BY <1>1 DEF CountsOK
<1>3. \A x \in WaitingOn(v) : x \in Tasks(prog) /\ prog.count[x] \in Nat \ {0} /\ prog.count[x] <= 0
  <2>1. WaitingOn(v) \in SUBSET Tasks(prog)
    BY LeftAreTasks
  <2>2. \A x \in WaitingOn(v) : prog.count[x] <= 0
    BY <1>1, <1>2, <2>1, SlotSums
  <2>3. \A x \in Tasks(prog) : prog.count[x] \in Nat \ {0}
    BY <1>1 DEF Types, WellFormed
  <2> QED BY <2>1, <2>2, <2>3
<1>4. \A c : c \notin WaitingOn(v)
  BY <1>3
<1> QED BY <1>4 DEF WaitingOn, Consumers, Consumed

\* A barrier whose consumers are all pending has consumer slots left.
LEMMA PendingConsumer ==
  ASSUME SimOK, SlotInv, stage # "task", NEW v \in Vids(prog),
         NEW c \in Consumers(v), c \in Pending
  PROVE  consumerCount[v] # 0
BY ConsumersHaveRun

\* A simulation that has nothing left has mapped every VID and run every task.
LEMMA NothingLeft ==
  ASSUME Types, ~SomethingLeft
  PROVE  AllDone
<1>1. bar \in Nat /\ prog.numBarriers \in Nat /\ prog.fifo \in [Tasks(prog) -> 1 .. NumFifos]
  BY DEF Types, WellFormed
<1>2. ASSUME NEW t \in Tasks(prog) PROVE ~StillQueued(t)
  <2>1. pos[prog.fifo[t]] \in Nat /\ Len(queue[prog.fifo[t]]) \in Nat
    <3>1. pos[prog.fifo[t]] \in Nat \ {0} /\ queue[prog.fifo[t]] \in Seq(Tasks(prog))
      BY <1>1 DEF Types
    <3> QED BY <3>1
  <2>2. pos[prog.fifo[t]] > Len(queue[prog.fifo[t]])
    BY <1>1 DEF SomethingLeft, FifoComplete
  <2> QED BY <2>1, <2>2 DEF StillQueued
<1> QED BY <1>1, <1>2 DEF AllDone, SomethingLeft, Pending

\* What an iteration that has not changed anything has found so far.
WhyStuck ==
  ~progressed =>
    /\ stage \in {"map", "fifos"} => SomethingLeft
    /\ stage = "fifos" =>
         /\ ~HasBarrierToMap
         /\ \A g \in 1 .. NumFifos : g < fifo => FifoComplete(g) \/ ~TaskReady(Task(g))

\* Whether a VID can be mapped depends on the mapping and the schedule only.
LEMMA NothingToMapStays ==
  ASSUME mode # "pages", UNCHANGED <<prog, mode, mapping>>
  PROVE  HasBarrierToMap' = HasBarrierToMap
<1>1. UNCHANGED <<bar, realId, toVirtual, prevVid, nextReal>>
  BY DEF mapping
<1>2. \A v : Consumers(v)' = Consumers(v) /\ Producers(v)' = Producers(v)
  BY DEF Consumers, Producers, Waits, Posts
<1>3. Acceptable' = Acceptable
  BY <1>1, <1>2 DEF Acceptable, CanBarrierReusePid, ControlPath
<1> QED BY <1>1, <1>3 DEF HasBarrierToMap, Dynamic

\* Every step of a simulator that does not map by pages keeps what a fruitless
\* iteration found.
LEMMA WhyStuckNext ==
  ASSUME Types, mode # "pages", stage # "pages", WhyStuck, Next
  PROVE  WhyStuck'
<1>2. ~BeginPages /\ ~AssignPage /\ ~EndPages
  BY DEF BeginPages, AssignPage, EndPages
<1>3. CASE ParseTask \/ CheckSlots \/ Succeed \/ BeginTask \/ EndIteration
  <2>1. stage' \notin {"map", "fifos"}
    BY <1>3 DEF ParseTask, CheckSlots, Succeed, BeginTask, EndIteration, Finish
  <2> QED BY <2>1 DEF WhyStuck
<1>4. CASE ConsumeBarrier \/ ProduceBarrier
  <2>1. stage' \notin {"map", "fifos"}
    BY <1>4 DEF ConsumeBarrier, ProduceBarrier, ContinueIf
  <2> QED BY <2>1 DEF WhyStuck
<1>5. CASE MapBarrier \/ EndTask
  <2>1. progressed' = TRUE
    BY <1>5 DEF MapBarrier, EndTask
  <2> QED BY <2>1 DEF WhyStuck
<1>6. CASE BeginIteration
  <2>1. SomethingLeft /\ stage' = "map" /\ UNCHANGED <<prog, bar, pos, queue>>
    BY <1>6 DEF BeginIteration, parsed, mapping
  <2>2. SomethingLeft'
    BY <2>1 DEF SomethingLeft, FifoComplete
  <2> QED BY <2>1, <2>2 DEF WhyStuck
<1>7. CASE StopMapping
  <2>1. /\ ~HasBarrierToMap /\ stage = "map" /\ stage' = "fifos" /\ fifo' = 1
        /\ UNCHANGED <<prog, mode, mapping, pos, queue, progressed>>
    BY <1>7 DEF StopMapping, parsed
  <2>2. ~HasBarrierToMap' /\ SomethingLeft' = SomethingLeft
    BY <2>1, NothingToMapStays DEF SomethingLeft, FifoComplete, mapping
  <2>3. \A g \in 1 .. NumFifos : ~(g < 1)
    OBVIOUS
  <2> QED BY <2>1, <2>2, <2>3 DEF WhyStuck
<1>8. CASE NextFifo
  <2>1. /\ ~HeadCanRun /\ stage = "fifos" /\ stage' = "fifos" /\ fifo' = fifo + 1
        /\ UNCHANGED <<prog, mode, mapping, producerCount, pos, queue, progressed>>
    BY <1>8 DEF NextFifo, parsed
  <2>2. HasBarrierToMap' = HasBarrierToMap /\ SomethingLeft' = SomethingLeft
    BY <2>1, NothingToMapStays DEF SomethingLeft, FifoComplete, mapping
  <2>3. \A g \in 1 .. NumFifos : /\ FifoComplete(g)' = FifoComplete(g)
                                 /\ TaskReady(Task(g))' = TaskReady(Task(g))
    BY <2>1 DEF FifoComplete, TaskReady, Task, IsBarrierMapped, Pids, Dynamic, Waits, Posts, mapping
  <2>4. \A g \in 1 .. NumFifos : g < fifo + 1 => g < fifo \/ g = fifo
    BY DEF Types
  <2>5. FifoComplete(fifo) \/ ~TaskReady(Task(fifo))
    BY <2>1 DEF HeadCanRun, Task, HeadTask
  <2> QED BY <2>3, <2>4, <2>5, <2>1, <2>2 DEF WhyStuck
<1> QED BY <1>2, <1>3, <1>4, <1>5, <1>6, <1>7, <1>8 DEF Next, Construct, Simulate

\* No step of a simulator changes its schedule or how it maps; one with fixed PIDs keeps them.
LEMMA ModeStays ==
  ASSUME Next
  PROVE  /\ mode' = mode /\ prog' = prog
         /\ mode = "static" /\ stage # "pages" => realId' = realId /\ stage' # "pages"
<1>1. mode' = mode /\ prog' = prog
  BY DEF Next, Construct, Simulate, ParseTask, CheckSlots, BeginPages, AssignPage, EndPages,
         BeginIteration, Succeed, MapBarrier, StopMapping, BeginTask, NextFifo, ConsumeBarrier,
         ProduceBarrier, EndTask, EndIteration
<1>2. ASSUME mode = "static", stage # "pages" PROVE realId' = realId /\ stage' # "pages"
  BY <1>2 DEF Next, Construct, Simulate, ParseTask, CheckSlots, BeginPages, AssignPage, EndPages,
         BeginIteration, Succeed, MapBarrier, StopMapping, BeginTask, NextFifo, ConsumeBarrier,
         ProduceBarrier, EndTask, EndIteration, Finish, ContinueIf, MapDynamic, MapInstance,
         MapStatic, Dynamic, mapping
<1> QED BY <1>1, <1>2
=============================================================================
