-------------------------- MODULE PartitionerProofs --------------------------
(***************************************************************************)
(* For every memory size and all sizes and alignments a client asks for:   *)
(* Partitioner keeps its gaps in order and apart, loses no memory, hands   *)
(* none out twice, and finds room whenever there is any.                   *)
(***************************************************************************)
EXTENDS Partitioner, DataTheorems

-----------------------------------------------------------------------------
\* The inductive invariant: no part of it is inductive alone.  An address alloc
\* takes must be in no block of the client (MemoryPartitioned), and free merges
\* the right gaps only in a list in order (GapsSeparated).
Inv == TypeOK /\ GapsSeparated /\ MemoryPartitioned

\* The invariant in terms of what the gaps cover.
LEMMA InvMeans ==
  ASSUME Inv
  PROVE  /\ IsGapList(gaps, TotalSize)
         /\ used \subseteq [addr : Nat, size : Nat \ {0}]
         /\ \A x \in Addresses : Covers(gaps, x) <=> ~InUse(x)
         /\ \A b \in used : b.addr + b.size <= TotalSize
         /\ \A b, c \in used : b # c => b.addr + b.size <= c.addr \/ c.addr + c.size <= b.addr
<1>1. IsGapList(gaps, TotalSize) /\ used \subseteq [addr : Nat, size : Nat \ {0}]
  BY DEF Inv, TypeOK, GapsSeparated, IsGapList, GapRec
<1>2. \A x : Covers(gaps, x) <=> InGap(x)
  BY DEF Covers, In, InGap
<1> QED BY <1>1, <1>2 DEF Inv, MemoryPartitioned

\* The same for the next state.
LEMMA InvNext ==
  ASSUME IsGapList(gaps', TotalSize),
         used' \subseteq [addr : Nat, size : Nat \ {0}],
         \A x \in Addresses : Covers(gaps', x) <=> ~InUse(x)',
         \A b \in used' : b.addr + b.size <= TotalSize,
         \A b, c \in used' : b # c => b.addr + b.size <= c.addr \/ c.addr + c.size <= b.addr
  PROVE  Inv'
<1>1. TypeOK' /\ GapsSeparated'
  BY DEF TypeOK, GapsSeparated, IsGapList, GapRec
<1>2. \A x : Covers(gaps', x) <=> InGap(x)'
  BY DEF Covers, In, InGap
<1>3. MemoryPartitioned'
  BY <1>2 DEF MemoryPartitioned, Addresses
<1> QED BY <1>1, <1>3 DEF Inv

\* What alloc and allocFixed have in common: they hand out a free block.
LEMMA HandOut ==
  ASSUME Inv, NEW addr \in Nat, NEW size \in Nat \ {0}, NEW i \in DOMAIN gaps,
         gaps[i].begin <= addr, addr + size <= gaps[i].end,
         gaps' = UseGap(gaps, i, addr, size),
         used' = used \cup {Block(addr, size)}
  PROVE  Inv'
<1>1. /\ IsGapList(gaps, TotalSize)
      /\ used \subseteq [addr : Nat, size : Nat \ {0}]
      /\ \A x \in Addresses : Covers(gaps, x) <=> ~InUse(x)
      /\ \A b \in used : b.addr + b.size <= TotalSize
      /\ \A b, c \in used : b # c => b.addr + b.size <= c.addr \/ c.addr + c.size <= b.addr
  BY InvMeans
<1>2. /\ gaps[i].begin \in Nat /\ gaps[i].end \in Nat /\ gaps[i].end <= TotalSize
      /\ TotalSize \in Nat
  BY <1>1, GapListFacts, TotalSizeAssumption
<1>3. /\ IsGapList(gaps', TotalSize)
      /\ \A x \in Nat : Covers(gaps', x) <=> Covers(gaps, x) /\ ~(addr <= x /\ x < addr + size)
  BY <1>1, UseGapTakesBlock, TotalSizeAssumption
<1> DEFINE b0 == Block(addr, size)
<1>4. /\ b0 \in [addr : Nat, size : Nat \ {0}]
      /\ b0.addr = addr /\ b0.size = size
      /\ addr + size <= TotalSize
      /\ used' = used \cup {b0}
  BY <1>2 DEF Block
<1> HIDE DEF b0
<1>5. \A x : InUse(x)' <=> InUse(x) \/ (addr <= x /\ x < addr + size)
  BY <1>4 DEF InUse, InBlock
<1>6. \A x \in Addresses : Covers(gaps', x) <=> ~InUse(x)'
  BY <1>1, <1>2, <1>3, <1>5 DEF Addresses
<1>7. ASSUME NEW c \in used
      PROVE  addr + size <= c.addr \/ c.addr + c.size <= addr
  <2> SUFFICES ASSUME c.addr < addr + size, addr < c.addr + c.size
               PROVE  FALSE
    BY <1>1
  <2>1. c.addr \in Nat /\ c.size \in Nat \ {0} /\ c.addr + c.size <= TotalSize
    BY <1>1
  <2>2. PICK x \in Addresses : /\ addr <= x /\ x < addr + size
                               /\ c.addr <= x /\ x < c.addr + c.size
    <3>1. CASE c.addr <= addr
      BY <1>2, <1>4, <2>1, <3>1 DEF Addresses
    <3>2. CASE addr < c.addr
      BY <1>2, <1>4, <2>1, <3>2 DEF Addresses
    <3> QED BY <2>1, <3>1, <3>2
  <2>3. InUse(x)
    BY <2>2 DEF InUse, InBlock
  <2>4. In(gaps[i], x)
    BY <1>2, <2>2 DEF In, Addresses
  <2> QED BY <1>1, <2>3, <2>4 DEF Covers
<1>8. /\ used' \subseteq [addr : Nat, size : Nat \ {0}]
      /\ \A b \in used' : b.addr + b.size <= TotalSize
      /\ \A b, c \in used' : b # c => b.addr + b.size <= c.addr \/ c.addr + c.size <= b.addr
  BY <1>1, <1>4, <1>7
<1> QED BY <1>3, <1>6, <1>8, InvNext

\* free of a block the client holds.
LEMMA TakeBack ==
  ASSUME Inv, NEW b0 \in used, Free(b0)
  PROVE  Inv'
<1>1. /\ IsGapList(gaps, TotalSize)
      /\ used \subseteq [addr : Nat, size : Nat \ {0}]
      /\ \A x \in Addresses : Covers(gaps, x) <=> ~InUse(x)
      /\ \A b \in used : b.addr + b.size <= TotalSize
      /\ \A b, c \in used : b # c => b.addr + b.size <= c.addr \/ c.addr + c.size <= b.addr
  BY InvMeans
<1> DEFINE addr == b0.addr
           size == b0.size
<1>2. /\ addr \in Nat /\ size \in Nat \ {0} /\ addr + size <= TotalSize /\ TotalSize \in Nat
      /\ gaps' = FreeInto(gaps, addr, size)
      /\ used' = used \ {b0}
  BY <1>1, TotalSizeAssumption DEF Free
<1>3. ASSUME NEW x \in Addresses
      PROVE  InUse(x)' <=> InUse(x) /\ ~(addr <= x /\ x < addr + size)
  <2>1. \A c \in used : c # b0 => ~(InBlock(x, c) /\ InBlock(x, b0))
    BY <1>1, <1>2 DEF InBlock, Addresses
  <2> QED BY <1>2, <2>1 DEF InUse, InBlock
<1> HIDE DEF addr, size
<1>4. \A x \in addr .. addr + size - 1 : ~Covers(gaps, x)
  <2> SUFFICES ASSUME NEW x \in addr .. addr + size - 1
               PROVE  x \in Addresses /\ InUse(x)
    BY <1>1
  <2>1. x \in Addresses /\ addr <= x /\ x < addr + size
    BY <1>2 DEF Addresses
  <2> QED BY <2>1 DEF InUse, InBlock, addr, size
<1>5. Adds(gaps', gaps, addr, addr + size, TotalSize)
  BY <1>1, <1>2, <1>4, FreeIntoAdds, TotalSizeAssumption
<1>6. \A x \in Addresses : Covers(gaps', x) <=> ~InUse(x)'
  <2> SUFFICES ASSUME NEW x \in Addresses
               PROVE  Covers(gaps', x) <=> ~InUse(x)'
    OBVIOUS
  <2>1. x \in Nat
    BY DEF Addresses
  <2>2. Covers(gaps', x) <=> Covers(gaps, x) \/ (addr <= x /\ x < addr + size)
    BY <1>5, <2>1 DEF Adds
  <2> QED BY <1>1, <1>3, <2>2 DEF addr, size
<1>7. /\ used' \subseteq [addr : Nat, size : Nat \ {0}]
      /\ \A b \in used' : b.addr + b.size <= TotalSize
      /\ \A b, c \in used' : b # c => b.addr + b.size <= c.addr \/ c.addr + c.size <= b.addr
  BY <1>1, <1>2
<1> QED BY <1>5, <1>6, <1>7, InvNext DEF Adds

\* The constructor establishes the invariant.
LEMMA InvInit == Init => Inv
<1> SUFFICES ASSUME Init PROVE Inv
  OBVIOUS
<1>1. TotalSize \in Nat /\ 0 < TotalSize
  BY TotalSizeAssumption
<1>2. /\ IsGapList(gaps, TotalSize)
      /\ \A x \in Nat : Covers(gaps, x) <=> 0 <= x /\ x < TotalSize
  <2>1. gaps = <<Gap(0, TotalSize)>> /\ 0 \in Nat /\ TotalSize <= TotalSize
    BY <1>1 DEF Init
  <2> QED BY <1>1, <2>1, OneGap, TotalSizeAssumption
<1>3. TypeOK /\ GapsSeparated
  BY <1>2 DEF Init, TypeOK, GapsSeparated, IsGapList, GapRec
<1>4. \A x \in Addresses : Covers(gaps, x)
  BY <1>1, <1>2 DEF Addresses
<1>5. MemoryPartitioned
  BY <1>4 DEF Init, MemoryPartitioned, Covers, In, InGap, InUse
<1> QED BY <1>3, <1>5 DEF Inv

\* alloc, allocFixed and free keep the invariant.
LEMMA InvPreserved == Inv /\ [Next]_vars => Inv'
<1> SUFFICES ASSUME Inv, [Next]_vars PROVE Inv'
  OBVIOUS
<1>1. IsGapList(gaps, TotalSize)
  BY InvMeans
<1>2. ASSUME NEW size \in Sizes, NEW alignment \in Alignments, NEW dir \in Directions,
             Alloc(size, alignment, dir)
      PROVE  Inv'
  <2> DEFINE i == ChooseMinimalGap(gaps, size, alignment, dir)
             addr == GetAddrFromGap(gaps[i], size, alignment, dir)
  <2>1. size \in Nat \ {0} /\ alignment \in Nat \ {0}
    BY SizesAssumption, AlignmentsAssumption
  <2>2. /\ i # 0
        /\ gaps' = UseGap(gaps, i, addr, size)
        /\ used' = used \cup {Block(addr, size)}
    BY <1>2 DEF Alloc
  <2>3. i \in DOMAIN gaps /\ addr # InvalidAddress
    BY <1>1, <2>2, ChosenGapFits, TotalSizeAssumption DEF Fits
  <2>4. gaps[i] \in GapRec
    BY <1>1, <2>3, GapListFacts, TotalSizeAssumption
  <2>5. addr \in Nat /\ gaps[i].begin <= addr /\ addr + size <= gaps[i].end
    BY <2>1, <2>3, <2>4, AddrFromGap
  <2> HIDE DEF i, addr
  <2> QED BY <2>3, <2>5, <2>1, <2>2, HandOut
<1>3. ASSUME NEW addr \in Addresses, NEW size \in Sizes, AllocFixed(addr, size)
      PROVE  Inv'
  <2> DEFINE i == GapAt(gaps, addr)
  <2>1. addr \in Nat /\ size \in Nat \ {0}
    BY SizesAssumption DEF Addresses
  <2>2. /\ gaps' = UseGap(gaps, i, addr, size)
        /\ used' = used \cup {Block(addr, size)}
    BY <1>3 DEF AllocFixed, AllocFixedFrom
  <2>3. \A x \in addr .. addr + size - 1 : Covers(gaps, x)
    BY <1>3 DEF AllocFixed, InGap, Covers, In
  <2>4. i \in DOMAIN gaps /\ gaps[i].begin <= addr /\ addr + size <= gaps[i].end
    BY <1>1, <2>1, <2>3, GapAtHoldsBlock, TotalSizeAssumption
  <2> HIDE DEF i
  <2> QED BY <2>1, <2>2, <2>4, HandOut
<1>4. ASSUME NEW b \in used, Free(b)
      PROVE  Inv'
  BY <1>4, TakeBack
<1>5. CASE UNCHANGED vars
  BY <1>5 DEF vars, Inv, TypeOK, GapsSeparated, MemoryPartitioned, InGap, InUse, Addresses
<1> QED BY <1>2, <1>3, <1>4, <1>5 DEF Next

\* Addresses and sizes stay natural numbers: no alignment or direction makes alloc
\* compute an address below 0.
THEOREM TypeCorrect == Spec => []TypeOK
<1>1. Inv => TypeOK
  BY DEF Inv
<1> QED BY <1>1, InvInit, InvPreserved, PTL DEF Spec

\* What PartitionerValidator asserts in debug builds holds in every state, and free
\* leaves no two gaps that touch.
THEOREM GapsStaySeparated == Spec => []GapsSeparated
<1>1. Inv => GapsSeparated
  BY DEF Inv
<1> QED BY <1>1, InvInit, InvPreserved, PTL DEF Spec

\* Partitioner loses no memory and hands none out twice.
THEOREM MemoryStaysPartitioned == Spec => []MemoryPartitioned
<1>1. Inv => MemoryPartitioned
  BY DEF Inv
<1> QED BY <1>1, InvInit, InvPreserved, PTL DEF Spec

\* alloc returns InvalidAddress only if the request cannot be met.
THEOREM AllocStaysComplete == Spec => []AllocFindsRoom
<1>1. Inv => AllocFindsRoom
  <2> SUFFICES ASSUME Inv, NEW size \in Sizes, NEW alignment \in Alignments, NEW dir \in Directions,
                      ChooseMinimalGap(gaps, size, alignment, dir) = 0,
                      NEW addr \in Addresses, addr % alignment = 0,
                      \A x \in addr .. addr + size - 1 : InGap(x)
               PROVE  FALSE
    BY DEF AllocFindsRoom
  <2>1. IsGapList(gaps, TotalSize)
    BY InvMeans
  <2>2. size \in Nat \ {0} /\ alignment \in Nat \ {0} /\ addr \in Nat
    BY SizesAssumption, AlignmentsAssumption DEF Addresses
  <2>3. \A x \in addr .. addr + size - 1 : Covers(gaps, x)
    BY DEF InGap, Covers, In
  <2> DEFINE i == GapAt(gaps, addr)
  <2>4. i \in DOMAIN gaps /\ gaps[i].begin <= addr /\ addr + size <= gaps[i].end
    BY <2>1, <2>2, <2>3, GapAtHoldsBlock, TotalSizeAssumption
  <2> HIDE DEF i
  <2>5. gaps[i] \in GapRec
    BY <2>1, <2>4, GapListFacts, TotalSizeAssumption
  <2>6. Fits(gaps, i, size, alignment, dir)
    BY <2>2, <2>4, <2>5, GapWithRoomFits DEF Fits
  <2> QED BY <2>1, <2>4, <2>6, NoGapChosen, TotalSizeAssumption
<1> QED BY <1>1, InvInit, InvPreserved, PTL DEF Spec
=============================================================================
