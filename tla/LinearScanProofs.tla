--------------------------- MODULE LinearScanProofs ---------------------------
(***************************************************************************)
(* For every memory, all ranges, and whatever a client asks for: a call of *)
(* LinearScan keeps to the contract of Partitioner, never lets two live    *)
(* ranges overlap, and leaves no trace when it must not.                   *)
(*                                                                         *)
(* Everything rests on Owns: the list of gaps is what the blocks that      *)
(* LinearScan holds leave of the memory.  Each step that changes the gaps  *)
(* hands out one block or takes one back (OwnsTake, OwnsFixed, OwnsGive),  *)
(* and what is owned determines the gaps (OwnsUnique).                     *)
(***************************************************************************)
EXTENDS LinearScan, DataTheorems, FiniteSetTheorems

-----------------------------------------------------------------------------
\* Blocks of memory and who has them.
BlockRec == [addr : Nat, size : Nat \ {0}]
InB(x, b) == b.addr <= x /\ x < b.addr + b.size
Apart(b, c) == b.addr + b.size <= c.addr \/ c.addr + c.size <= b.addr
InMemory(b) == b \in BlockRec /\ b.addr + b.size <= TotalSize
Owner(by, r, b) == [by |-> by, range |-> r, block |-> b]

\* The list of gaps gs is what the blocks of own leave of the memory, and no two
\* of them overlap.
Owns(gs, own) ==
  /\ IsGapList(gs, TotalSize)
  /\ \A o \in own : InMemory(o.block)
  /\ \A o, q \in own : o # q => Apart(o.block, q.block)
  /\ \A x \in 0 .. TotalSize - 1 : Covers(gs, x) <=> ~\E o \in own : InB(x, o.block)

ReservedOwners == {Owner("reserved", None, b) : b \in ToSet(reserved)}
RangeOwners(placed) == {Owner("range", p.range, BlockOf(p)) : p \in placed}

\* The blocks that LinearScan holds, each with what it holds it for.
Owned ==
  ReservedOwners
  \cup {Owner("temp", None, b) : b \in ToSet(temp)}
  \cup {Owner("placing", None, b) : b \in PlacedBlock}
  \cup RangeOwners(ToSet(live) \cup ToSet(pending))

\* A range is in one place at most.
Known == ToSet(live) \cup ToSet(pending) \cup ToSet(candidates)
RangesOnce ==
  /\ IsInjective(live) /\ IsInjective(pending) /\ IsInjective(candidates)
  /\ IsInjective(todo) /\ IsInjective(temp)
  /\ ToSet(live) \cap ToSet(pending) = {}
  /\ (ToSet(live) \cup ToSet(pending)) \cap ToSet(candidates) = {}
  /\ \A p, q \in Known : p # q => p.range # q.range
  /\ \A p \in Known : p.range \notin ToSet(todo)

Keeps ==
  {None} \cup [kind : {"space"}, space : ReservedSpaces] \cup [kind : {"region"}, block : Regions]

TypesOK ==
  /\ pc \in Places
  /\ reserved \in Seq(BlockRec) /\ temp \in Seq(BlockRec)
  /\ live \in Seq(Placed) /\ pending \in Seq(Placed) /\ candidates \in Seq(Placed)
  /\ todo \in Seq(Ranges)
  /\ dead \subseteq Ranges /\ spilled \subseteq Placed /\ ret \in BOOLEAN \cup {None}
  /\ newAddr \in Nat \cup {None}
  /\ call \in [test : BOOLEAN, keep : Keeps, spills : BOOLEAN, dir : Directions]

\* What is empty where.
InCall == pc \in {"keep", "place", "process", "rollback", "restore", "returned"}
PlacesOK ==
  /\ reserved = SubSeq(Reserved, 1, Len(reserved)) /\ Len(reserved) <= Len(Reserved)
  /\ pc = "construct" => live = <<>>
  /\ pc \in {"construct", "idle", "sweep", "keep", "returned"} => temp = <<>>
  /\ pc \in {"construct", "idle", "sweep", "keep", "restore", "returned"} => pending = <<>>
  /\ pc \notin {"place", "process"} => candidates = <<>>
  /\ pc \in {"construct", "idle", "sweep", "keep", "place"} => newAddr = None
  /\ pc = "process" => newAddr # None
  /\ newAddr # None => todo # <<>>
  /\ candidates # <<>> => todo # <<>>
  /\ call.test => pending = <<>> /\ candidates = <<>> /\ newAddr = None /\ pc # "rollback"
  /\ pc = "keep" => call.keep # None /\ (call.keep.kind = "region" => IsFreeBlock(call.keep.block))
  /\ ~call.test /\ call.keep = None => temp = <<>>
  /\ pc = "rollback" => ret = FALSE

\* Where ranges with a fixed address may be placed.
FixedBlock(r) == Block(FixedAddr[r], Size[r])
FixedOK ==
  /\ ~call.test /\ call.keep # None => \A r \in ToSet(todo) : ~IsFixedAlloc(r)
  /\ ~call.test =>
       \A r \in ToSet(todo) : IsFixedAlloc(r) =>
         /\ \A s \in ToSet(todo) : r # s /\ IsFixedAlloc(s) => Apart(FixedBlock(r), FixedBlock(s))
         /\ \A p \in ToSet(pending) : Apart(FixedBlock(r), BlockOf(p))
  /\ pc = "process" /\ IsFixedAlloc(NewRange) =>
       /\ newAddr = FixedAddr[NewRange]
       /\ \A p \in ToSet(live) : Apart(FixedBlock(NewRange), BlockOf(p))

\* The candidates have given their memory back: only the range being placed may
\* have taken it.
CandidatesApart ==
  /\ \A c \in ToSet(candidates) : InMemory(BlockOf(c))
  /\ \A c, d \in ToSet(candidates) : c # d => Apart(BlockOf(c), BlockOf(d))
  /\ \A c \in ToSet(candidates), o \in Owned : o.by # "placing" => Apart(BlockOf(c), o.block)

ScanInv == TypesOK /\ PlacesOK /\ RangesOnce /\ FixedOK /\ Owns(gaps, Owned) /\ CandidatesApart

-----------------------------------------------------------------------------
\* What the call has changed so far.
Undecided == pc \in {"keep", "place", "process"}
SpillsNothing == call.test \/ ~call.spills

CallInv ==
  InCall =>
    /\ before \in Seq([begin : Nat, end : Nat]) \X Seq(Placed)
    /\ Owns(before[1], ReservedOwners \cup RangeOwners(ToSet(before[2])))
    /\ SpillsNothing => candidates = <<>> /\ (newAddr # None => pc = "process")
    /\ SpillsNothing /\ (call.test \/ Undecided \/ ret = FALSE) => live = before[2]
    /\ Undecided \/ ret = TRUE => ToSet(before[2]) \subseteq spilled \cup ToSet(live) \cup ToSet(candidates)

-----------------------------------------------------------------------------
\* Apart is symmetric, and no block is apart from itself.
LEMMA ApartFacts ==
  ASSUME NEW b \in BlockRec, NEW c \in BlockRec
  PROVE  /\ Apart(b, c) <=> Apart(c, b)
         /\ Apart(b, c) => b # c
         /\ Apart(b, c) <=> ~\E x \in Nat : InB(x, b) /\ InB(x, c)
         /\ Apart(b, c) <=> ~Intersects(b.addr, b.size, c.addr, c.size)
<1>1. /\ b.addr \in Nat /\ b.size \in Nat /\ b.size # 0
      /\ c.addr \in Nat /\ c.size \in Nat /\ c.size # 0
  BY DEF BlockRec
<1>2. Apart(b, c) => ~\E x \in Nat : InB(x, b) /\ InB(x, c)
  BY <1>1 DEF Apart, InB
<1>3. ASSUME ~Apart(b, c) PROVE \E x \in Nat : InB(x, b) /\ InB(x, c)
  <2>1. CASE b.addr <= c.addr
    <3>1. InB(c.addr, b) /\ InB(c.addr, c)
      BY <1>1, <1>3, <2>1 DEF Apart, InB
    <3> QED BY <1>1, <3>1
  <2>2. CASE c.addr < b.addr
    <3>1. InB(b.addr, b) /\ InB(b.addr, c)
      BY <1>1, <1>3, <2>2 DEF Apart, InB
    <3> QED BY <1>1, <3>1
  <2> QED BY <1>1, <2>1, <2>2
<1> QED BY <1>1, <1>2, <1>3 DEF Apart, Intersects

\* A block that is apart from all that is owned is free.
LEMMA FreeWhereApart ==
  ASSUME NEW gs, NEW own, Owns(gs, own), NEW b, InMemory(b),
         \A o \in own : Apart(b, o.block)
  PROVE  \A x \in b.addr .. b.addr + b.size - 1 : Covers(gs, x)
<1> SUFFICES ASSUME NEW x \in b.addr .. b.addr + b.size - 1
             PROVE  Covers(gs, x)
  OBVIOUS
<1>1. b.addr \in Nat /\ b.size \in Nat \ {0} /\ b.addr + b.size <= TotalSize
  BY DEF InMemory, BlockRec
<1>2. x \in 0 .. TotalSize - 1 /\ x \in Nat /\ InB(x, b)
  BY <1>1, MemoryAssumption DEF InB
<1>3. ASSUME NEW o \in own PROVE ~InB(x, o.block)
  <2>1. b \in BlockRec /\ o.block \in BlockRec
    BY DEF Owns, InMemory
  <2> QED BY <1>2, <2>1, ApartFacts
<1> QED BY <1>2, <1>3 DEF Owns

\* Partitioner hands out a block of a gap.
LEMMA OwnsTake ==
  ASSUME NEW gs, NEW own, Owns(gs, own), NEW o, NEW i \in DOMAIN gs, o.block \in BlockRec,
         gs[i].begin <= o.block.addr, o.block.addr + o.block.size <= gs[i].end
  PROVE  /\ Owns(UseGap(gs, i, o.block.addr, o.block.size), own \cup {o})
         /\ InMemory(o.block)
         /\ \A q \in own : Apart(o.block, q.block)
<1> DEFINE b == o.block
           new == UseGap(gs, i, b.addr, b.size)
<1>1. /\ b.addr \in Nat /\ b.size \in Nat \ {0} /\ TotalSize \in Nat /\ IsGapList(gs, TotalSize)
      /\ gs[i].begin \in Nat /\ gs[i].end \in Nat /\ gs[i].end <= TotalSize
  BY MemoryAssumption, GapListFacts DEF BlockRec, Owns
<1>2. /\ IsGapList(new, TotalSize)
      /\ \A x \in Nat : Covers(new, x) <=> Covers(gs, x) /\ ~InB(x, b)
  BY <1>1, UseGapTakesBlock DEF InB
<1>3. InMemory(b)
  BY <1>1 DEF InMemory
<1> HIDE DEF new, b
<1>4. ASSUME NEW q \in own PROVE Apart(b, q.block)
  <2>1. b \in BlockRec /\ q.block \in BlockRec
    BY DEF Owns, InMemory, b
  <2> SUFFICES ASSUME NEW x \in Nat, InB(x, b), InB(x, q.block) PROVE FALSE
    BY <2>1, ApartFacts
  <2>2. x \in 0 .. TotalSize - 1 /\ Covers(gs, x)
    BY <1>1 DEF InB, Covers, In, b
  <2> QED BY <2>2 DEF Owns
<1>5. ASSUME NEW x \in 0 .. TotalSize - 1
      PROVE  Covers(new, x) <=> ~\E q \in own \cup {o} : InB(x, q.block)
  <2>1. x \in Nat /\ (Covers(gs, x) <=> ~\E q \in own : InB(x, q.block))
    BY <1>1 DEF Owns
  <2> QED BY <1>2, <2>1 DEF b
<1>6. \A p, q \in own \cup {o} : p # q => Apart(p.block, q.block)
  <2>1. \A q \in own : Apart(q.block, b)
    <3>1. b \in BlockRec /\ \A q \in own : q.block \in BlockRec
      BY DEF Owns, InMemory, b
    <3> QED BY <1>4, <3>1, ApartFacts
  <2> QED BY <1>4, <2>1 DEF Owns, b
<1> QED BY <1>2, <1>3, <1>4, <1>5, <1>6 DEF Owns, new, b

\* allocFixed of a block that is apart from all that is owned.
LEMMA OwnsFixed ==
  ASSUME NEW gs, NEW own, Owns(gs, own), NEW o, InMemory(o.block),
         \A q \in own : Apart(o.block, q.block)
  PROVE  /\ Owns(AllocFixedFrom(gs, o.block.addr, o.block.size), own \cup {o})
         /\ \A x \in o.block.addr .. o.block.addr + o.block.size - 1 : Covers(gs, x)
<1> DEFINE b == o.block
           i == GapAt(gs, b.addr)
<1>1. /\ b.addr \in Nat /\ b.size \in Nat \ {0} /\ b \in BlockRec
      /\ TotalSize \in Nat /\ IsGapList(gs, TotalSize)
  BY MemoryAssumption DEF InMemory, BlockRec, Owns
<1>2. \A x \in b.addr .. b.addr + b.size - 1 : Covers(gs, x)
  BY FreeWhereApart
<1>3. i \in DOMAIN gs /\ gs[i].begin <= b.addr /\ b.addr + b.size <= gs[i].end
  <2> HIDE DEF b
  <2> QED BY <1>1, <1>2, GapAtHoldsBlock
<1>4. AllocFixedFrom(gs, b.addr, b.size) = UseGap(gs, i, b.addr, b.size)
  BY DEF AllocFixedFrom
<1>5. Owns(UseGap(gs, i, b.addr, b.size), own \cup {o})
  <2>1. i \in DOMAIN gs /\ gs[i].begin <= o.block.addr /\ o.block.addr + o.block.size <= gs[i].end
    BY <1>3
  <2> HIDE DEF i
  <2> QED BY <1>1, <2>1, OwnsTake
<1> QED BY <1>2, <1>4, <1>5

\* free of a block that is owned.
LEMMA OwnsGive ==
  ASSUME NEW gs, NEW own, Owns(gs, own), NEW o \in own
  PROVE  Owns(FreeInto(gs, o.block.addr, o.block.size), own \ {o})
<1> DEFINE b == o.block
           new == FreeInto(gs, b.addr, b.size)
<1>1. /\ b.addr \in Nat /\ b.size \in Nat \ {0} /\ b \in BlockRec
      /\ TotalSize \in Nat /\ IsGapList(gs, TotalSize) /\ b.addr + b.size <= TotalSize
  BY MemoryAssumption DEF Owns, InMemory, BlockRec
<1> HIDE DEF b
<1>2. \A x \in b.addr .. b.addr + b.size - 1 : ~Covers(gs, x)
  <2> SUFFICES ASSUME NEW x \in b.addr .. b.addr + b.size - 1 PROVE ~Covers(gs, x)
    OBVIOUS
  <2>1. x \in 0 .. TotalSize - 1 /\ InB(x, b)
    BY <1>1 DEF InB
  <2> QED BY <2>1 DEF Owns, b
<1>3. Adds(new, gs, b.addr, b.addr + b.size, TotalSize)
  BY <1>1, <1>2, FreeIntoAdds
<1>4. ASSUME NEW x \in 0 .. TotalSize - 1
      PROVE  Covers(new, x) <=> ~\E q \in own \ {o} : InB(x, q.block)
  <2>1. x \in Nat
    BY <1>1
  <2>2. Covers(new, x) <=> Covers(gs, x) \/ InB(x, b)
    BY <1>3, <2>1 DEF Adds, InB
  <2>3. Covers(gs, x) <=> ~\E q \in own : InB(x, q.block)
    BY DEF Owns
  <2>4. ASSUME NEW q \in own, q # o, InB(x, b) PROVE ~InB(x, q.block)
    <3>1. Apart(b, q.block) /\ q.block \in BlockRec
      BY <2>4 DEF Owns, InMemory, b
    <3> QED BY <1>1, <2>1, <2>4, <3>1, ApartFacts
  <2> QED BY <2>2, <2>3, <2>4 DEF b
<1> QED BY <1>3, <1>4 DEF Owns, Adds, new, b

\* A block changes its owner.
LEMMA OwnsRename ==
  ASSUME NEW gs, NEW own, Owns(gs, own), NEW o \in own, NEW new, new.block = o.block
  PROVE  Owns(gs, (own \ {o}) \cup {new})
<1>1. \A q \in own : q # o => Apart(q.block, new.block) /\ Apart(new.block, q.block)
  BY DEF Owns
<1> QED BY <1>1 DEF Owns

\* What is owned determines the gaps.
LEMMA OwnsUnique ==
  ASSUME NEW g, NEW h, NEW own, Owns(g, own), Owns(h, own)
  PROVE  g = h
<1>1. TotalSize \in Nat /\ IsGapList(g, TotalSize) /\ IsGapList(h, TotalSize)
  BY MemoryAssumption DEF Owns
<1>2. ASSUME NEW x \in Nat PROVE Covers(g, x) <=> Covers(h, x)
  <2>1. CASE x < TotalSize
    BY <1>1, <2>1 DEF Owns
  <2>2. CASE ~(x < TotalSize)
    <3>1. \A l : IsGapList(l, TotalSize) => \A i \in DOMAIN l : l[i].end \in Nat /\ l[i].end <= TotalSize
      BY <1>1, GapListFacts
    <3> QED BY <1>1, <2>2, <3>1 DEF Covers, In
  <2> QED BY <1>1, <2>1, <2>2
<1> QED BY <1>1, <1>2, GapListsUnique

\* Blocks that no owner shares: removing an owner removes its block.
LEMMA BlocksWithout ==
  ASSUME NEW gs, NEW own, Owns(gs, own), NEW o \in own
  PROVE  {q.block : q \in own \ {o}} = {q.block : q \in own} \ {o.block}
<1>1. \A q \in own : q # o => q.block # o.block
  BY ApartFacts DEF Owns, InMemory
<1> QED BY <1>1

-----------------------------------------------------------------------------
(***************************************************************************)
(* The steps of Partitioner that LinearScan makes.  P instantiates the     *)
(* algorithms of GapLists a second time; they are the same.                *)
(***************************************************************************)
\* The operations that change a list of gaps.
LEMMA SameOperations ==
  /\ \A gs, i, addr, size : P!UseGap(gs, i, addr, size) = UseGap(gs, i, addr, size)
  /\ \A gs, addr, size : P!AllocFixedFrom(gs, addr, size) = AllocFixedFrom(gs, addr, size)
  /\ \A gs, addr, size : P!FreeInto(gs, addr, size) = FreeInto(gs, addr, size)
<1>1. /\ \A s, i, n, new : P!Splice(s, i, n, new) = Splice(s, i, n, new)
      /\ \A b, e : P!Gap(b, e) = Gap(b, e)
  BY DEF P!Splice, Splice, P!Gap, Gap
<1>2. \A g, addr, end : P!Pieces(g, addr, end) = Pieces(g, addr, end)
  BY <1>1 DEF P!Pieces, Pieces
<1>3. \A gs, i, addr, size : P!UseGap(gs, i, addr, size) = UseGap(gs, i, addr, size)
  BY <1>1, <1>2 DEF P!UseGap, UseGap
<1>4. \A gs, addr : P!GapAt(gs, addr) = GapAt(gs, addr)
  BY DEF P!GapAt, GapAt
<1>5. \A gs, addr, size : P!AllocFixedFrom(gs, addr, size) = AllocFixedFrom(gs, addr, size)
  BY <1>3, <1>4 DEF P!AllocFixedFrom, AllocFixedFrom
<1>6. /\ \A gs, i, addr, end : P!PutBefore(gs, i, addr, end) = PutBefore(gs, i, addr, end)
      /\ \A gs, i, addr, end : P!PutAfter(gs, i, addr, end) = PutAfter(gs, i, addr, end)
  BY <1>1, ZenonT(60) DEF P!PutBefore, PutBefore, P!PutAfter, PutAfter
<1>7. \A gs, i, addr, end : P!PutBetween(gs, i, addr, end) = PutBetween(gs, i, addr, end)
  BY <1>1, <1>6 DEF P!PutBetween, PutBetween
<1>8. \A gs, addr, end : P!PutLast(gs, addr, end) = PutLast(gs, addr, end)
  BY <1>6 DEF P!PutLast, PutLast
<1>9. \A gs, addr, end : P!Between(gs, addr, end) = Between(gs, addr, end)
  BY DEF P!Between, Between
<1>10. \A gs, addr, end : P!FirstBetween(gs, addr, end) = FirstBetween(gs, addr, end)
  BY <1>9 DEF P!FirstBetween, FirstBetween
<1>11. \A gs, addr, size : P!FreeInto(gs, addr, size) = FreeInto(gs, addr, size)
  BY <1>1, <1>6, <1>7, <1>8, <1>9, <1>10 DEF P!FreeInto, FreeInto
<1> QED BY <1>3, <1>5, <1>11

\* The choice of a gap and of an address in it.
LEMMA SameChoice ==
  /\ \A g, size, alignment, dir :
       P!GetAddrFromGap(g, size, alignment, dir) = GetAddrFromGap(g, size, alignment, dir)
  /\ \A gs, size, alignment, dir :
       P!ChooseMinimalGap(gs, size, alignment, dir) = ChooseMinimalGap(gs, size, alignment, dir)
<1>1. P!InvalidAddress = InvalidAddress
  BY DEF P!InvalidAddress, InvalidAddress
<1>2. \A v, a : P!AlignValUp(v, a) = AlignValUp(v, a)
  BY DEF P!AlignValUp, AlignValUp
<1>3. \A g : P!GapSize(g) = GapSize(g)
  BY DEF P!GapSize, GapSize
<1>4. /\ \A g, size, alignment : P!GetAddrUp(g, size, alignment) = GetAddrUp(g, size, alignment)
      /\ \A g, size, alignment : P!GetAddrDown(g, size, alignment) = GetAddrDown(g, size, alignment)
  BY <1>1, <1>2 DEF P!GetAddrUp, GetAddrUp, P!GetAddrDown, GetAddrDown
<1>5. \A g, size, alignment, dir :
        P!GetAddrFromGap(g, size, alignment, dir) = GetAddrFromGap(g, size, alignment, dir)
  BY <1>1, <1>3, <1>4 DEF P!GetAddrFromGap, GetAddrFromGap
<1>6. \A gs, i, size, alignment, dir :
        P!Fits(gs, i, size, alignment, dir) = Fits(gs, i, size, alignment, dir)
  BY <1>1, <1>5 DEF P!Fits, Fits
<1>7. \A gs, size, alignment, dir :
        P!Suitable(gs, size, alignment, dir) = Suitable(gs, size, alignment, dir)
  BY <1>6 DEF P!Suitable, Suitable
<1>8. \A gs, dir : P!LastGap(gs, dir) = LastGap(gs, dir)
  BY DEF P!LastGap, LastGap
<1>9. \A gs, size, alignment, dir :
         P!ChooseMinimalGap(gs, size, alignment, dir) = ChooseMinimalGap(gs, size, alignment, dir)
  <2> SUFFICES ASSUME NEW gs, NEW size, NEW alignment, NEW dir
               PROVE  P!ChooseMinimalGap(gs, size, alignment, dir) = ChooseMinimalGap(gs, size, alignment, dir)
    OBVIOUS
  <2> DEFINE Best(S) == CHOOSE i \in S : \A j \in S : Preferred(gs, i, j, dir)
             PBest(S) == CHOOSE i \in S : \A j \in S : P!Preferred(gs, i, j, dir)
             fit == Suitable(gs, size, alignment, dir)
             last == LastGap(gs, dir)
  <2>1. P!Suitable(gs, size, alignment, dir) = fit /\ P!LastGap(gs, dir) = last
    BY <1>7, <1>8
  <2>2. ChooseMinimalGap(gs, size, alignment, dir) =
          IF fit = {} THEN 0 ELSE IF fit \ {last} = {} THEN last ELSE Best(fit \ {last})
    BY DEF ChooseMinimalGap
  <2>3. P!ChooseMinimalGap(gs, size, alignment, dir) =
          IF P!Suitable(gs, size, alignment, dir) = {} THEN 0
          ELSE IF P!Suitable(gs, size, alignment, dir) \ {P!LastGap(gs, dir)} = {} THEN P!LastGap(gs, dir)
          ELSE PBest(P!Suitable(gs, size, alignment, dir) \ {P!LastGap(gs, dir)})
    BY DEF P!ChooseMinimalGap
  <2>4. \A S : PBest(S) = Best(S)
    BY DEF P!Preferred, Preferred, P!GapSize, GapSize
  <2> HIDE DEF Best, PBest, fit, last
  <2> QED BY <2>3, <2>4, <2>1, <2>2
<1> QED BY <1>5, <1>9

\* The sizes and alignments that LinearScan asks Partitioner for.
PSizes ==
  {Size[r] : r \in Ranges} \cup {b.size : b \in Regions \cup ToSet(Reserved) \cup ReservedSpaces}
PAlignments == {Alignment[r] : r \in Ranges} \cup {b.alignment : b \in ReservedSpaces}

\* What alloc does is a step of Partitioner.
LEMMA StepAlloc ==
  ASSUME NEW size \in PSizes, NEW alignment \in PAlignments, NEW dir \in Directions,
         NEW i, i = ChooseMinimalGap(gaps, size, alignment, dir), i # 0,
         NEW addr, addr = GetAddrFromGap(gaps[i], size, alignment, dir),
         gaps' = UseGap(gaps, i, addr, size), Held' = Held \cup {Block(addr, size)}
  PROVE  P!Next
<1>1. P!Alloc(size, alignment, dir)
  BY SameOperations, SameChoice DEF P!Alloc, P!Block, Block
<1> QED BY <1>1 DEF P!Next, PSizes, PAlignments, P!Directions, Directions

\* So is what allocFixed does.
LEMMA StepFixed ==
  ASSUME NEW b, InMemory(b), b.size \in PSizes, \A x \in b.addr .. b.addr + b.size - 1 : Covers(gaps, x),
         gaps' = AllocFixedFrom(gaps, b.addr, b.size), Held' = Held \cup {b}
  PROVE  P!Next
<1>1. /\ b = Block(b.addr, b.size) /\ b.addr \in 0 .. TotalSize - 1 /\ b.addr + b.size <= TotalSize
  BY MemoryAssumption DEF InMemory, BlockRec, Block
<1>2. \A x \in b.addr .. b.addr + b.size - 1 : P!InGap(x)
  BY DEF P!InGap, Covers, In
<1>3. P!AllocFixed(b.addr, b.size)
  BY <1>1, <1>2, SameOperations DEF P!AllocFixed, P!Block, Block
<1> QED BY <1>1, <1>3 DEF P!Next, PSizes, P!Addresses

\* So is what free does.
LEMMA StepFree ==
  ASSUME NEW b \in Held, gaps' = FreeInto(gaps, b.addr, b.size), Held' = Held \ {b}
  PROVE  P!Next
<1>1. P!Free(b)
  BY SameOperations DEF P!Free
<1> QED BY <1>1 DEF P!Next

-----------------------------------------------------------------------------
(***************************************************************************)
(* The sequences of LinearScan as sets.                                    *)
(***************************************************************************)
\* The elements of a sequence.
LEMMA SetOfSeq ==
  ASSUME NEW T, NEW s \in Seq(T)
  PROVE  /\ DOMAIN s = 1 .. Len(s) /\ Len(s) \in Nat
         /\ ToSet(s) \subseteq T
         /\ s = <<>> <=> ToSet(s) = {}
         /\ \A e : e \in ToSet(s) <=> \E i \in DOMAIN s : e = s[i]
<1>1. DOMAIN s = 1 .. Len(s) /\ Len(s) \in Nat /\ \A i \in 1 .. Len(s) : s[i] \in T
  BY ElementOfSeq, LenProperties
<1>2. \A e : e \in ToSet(s) <=> \E i \in DOMAIN s : e = s[i]
  BY DEF ToSet
<1>3. s = <<>> <=> Len(s) = 0
  BY EmptySeq
<1>4. s # <<>> => s[1] \in ToSet(s)
  BY <1>1, <1>2, <1>3
<1> QED BY <1>1, <1>2, <1>3, <1>4

\* The empty sequence.
LEMMA EmptyFacts == ToSet(<<>>) = {} /\ IsInjective(<<>>)
BY EmptySeq DEF ToSet, IsInjective

\* What append adds.
LEMMA AppendFacts ==
  ASSUME NEW T, NEW s \in Seq(T), NEW e \in T
  PROVE  /\ Append(s, e) \in Seq(T)
         /\ ToSet(Append(s, e)) = ToSet(s) \cup {e}
         /\ IsInjective(s) /\ e \notin ToSet(s) => IsInjective(Append(s, e))
<1> DEFINE new == Append(s, e)
<1>1. /\ new \in Seq(T) /\ Len(s) \in Nat /\ DOMAIN s = 1 .. Len(s)
      /\ DOMAIN new = 1 .. Len(s) + 1
      /\ \A i \in 1 .. Len(s) : new[i] = s[i]
      /\ new[Len(s) + 1] = e
  BY AppendProperties, LenProperties
<1> HIDE DEF new
<1>2. ToSet(new) = ToSet(s) \cup {e}
  <2>1. \A x : x \in ToSet(new) <=> \E i \in 1 .. Len(s) + 1 : x = new[i]
    BY <1>1 DEF ToSet
  <2>2. \A x : x \in ToSet(s) <=> \E i \in 1 .. Len(s) : x = s[i]
    BY <1>1 DEF ToSet
  <2>3. \A x : x \in ToSet(new) <=> x \in ToSet(s) \/ x = e
    BY <1>1, <2>1, <2>2
  <2> QED BY <2>3
<1>3. ASSUME IsInjective(s), e \notin ToSet(s) PROVE IsInjective(new)
  <2>1. \A i \in 1 .. Len(s) : s[i] # e
    BY <1>1, <1>3 DEF ToSet
  <2>2. \A i, j \in 1 .. Len(s) : s[i] = s[j] => i = j
    BY <1>1, <1>3 DEF IsInjective
  <2> SUFFICES ASSUME NEW i \in 1 .. Len(s) + 1, NEW j \in 1 .. Len(s) + 1, new[i] = new[j]
               PROVE  i = j
    BY <1>1 DEF IsInjective
  <2>3. CASE i <= Len(s) /\ j <= Len(s)
    BY <1>1, <2>2, <2>3
  <2>4. CASE i = Len(s) + 1 \/ j = Len(s) + 1
    BY <1>1, <2>1, <2>4
  <2> QED BY <1>1, <2>3, <2>4
<1> QED BY <1>1, <1>2, <1>3 DEF new

\* The elements of two sequences, one after the other.
LEMMA ConcatFacts ==
  ASSUME NEW T, NEW s \in Seq(T), NEW t \in Seq(T)
  PROVE  /\ s \o t \in Seq(T)
         /\ ToSet(s \o t) = ToSet(s) \cup ToSet(t)
         /\ IsInjective(s) /\ IsInjective(t) /\ ToSet(s) \cap ToSet(t) = {} => IsInjective(s \o t)
<1> DEFINE new == s \o t
<1>1. /\ new \in Seq(T) /\ Len(s) \in Nat /\ Len(t) \in Nat
      /\ DOMAIN s = 1 .. Len(s) /\ DOMAIN t = 1 .. Len(t)
      /\ DOMAIN new = 1 .. Len(s) + Len(t)
      /\ \A i \in 1 .. Len(s) + Len(t) : new[i] = IF i <= Len(s) THEN s[i] ELSE t[i - Len(s)]
  BY ConcatProperties, LenProperties
<1> HIDE DEF new
<1>2. ToSet(new) = ToSet(s) \cup ToSet(t)
  <2>1. \A x : x \in ToSet(new) <=> \E i \in 1 .. Len(s) + Len(t) : x = new[i]
    BY <1>1 DEF ToSet
  <2>2. /\ \A x : x \in ToSet(s) <=> \E i \in 1 .. Len(s) : x = s[i]
        /\ \A x : x \in ToSet(t) <=> \E i \in 1 .. Len(t) : x = t[i]
    BY <1>1 DEF ToSet
  <2>3. ASSUME NEW x \in ToSet(new) PROVE x \in ToSet(s) \cup ToSet(t)
    BY <1>1, <2>1, <2>2, SMTT(30)
  <2>4. ASSUME NEW x \in ToSet(s) PROVE x \in ToSet(new)
    BY <1>1, <2>1, <2>2
  <2>5. ASSUME NEW x \in ToSet(t) PROVE x \in ToSet(new)
    <3>1. PICK i \in 1 .. Len(t) : x = t[i]
      BY <2>2
    <3>2. i + Len(s) \in 1 .. Len(s) + Len(t) /\ new[i + Len(s)] = t[i]
      BY <1>1
    <3> QED BY <2>1, <3>1, <3>2
  <2> QED BY <2>3, <2>4, <2>5
<1>3. ASSUME IsInjective(s), IsInjective(t), ToSet(s) \cap ToSet(t) = {} PROVE IsInjective(new)
  <2>1. \A i \in 1 .. Len(s), j \in 1 .. Len(t) : s[i] # t[j]
    BY <1>1, <1>3 DEF ToSet
  <2>2. /\ \A i, j \in 1 .. Len(s) : s[i] = s[j] => i = j
        /\ \A i, j \in 1 .. Len(t) : t[i] = t[j] => i = j
    BY <1>1, <1>3 DEF IsInjective
  <2> SUFFICES ASSUME NEW i \in 1 .. Len(s) + Len(t), NEW j \in 1 .. Len(s) + Len(t), new[i] = new[j]
               PROVE  i = j
    BY <1>1 DEF IsInjective
  <2>3. CASE i <= Len(s) /\ j <= Len(s)
    BY <1>1, <2>2, <2>3
  <2>4. CASE i > Len(s) /\ j > Len(s)
    <3>1. i - Len(s) \in 1 .. Len(t) /\ j - Len(s) \in 1 .. Len(t)
      BY <1>1, <2>4
    <3>2. t[i - Len(s)] = t[j - Len(s)]
      BY <1>1, <2>4
    <3>3. i - Len(s) = j - Len(s)
      BY <2>2, <3>1, <3>2
    <3>4. i \in Int /\ j \in Int /\ Len(s) \in Int
      BY <1>1
    <3> HIDE DEF new
    <3> QED BY <3>3, <3>4
  <2>5. CASE (i <= Len(s) /\ j > Len(s)) \/ (i > Len(s) /\ j <= Len(s))
    <3>1. CASE i <= Len(s) /\ j > Len(s)
      <4>1. i \in 1 .. Len(s) /\ j - Len(s) \in 1 .. Len(t) /\ s[i] = t[j - Len(s)]
        BY <1>1, <3>1
      <4> QED BY <2>1, <4>1
    <3>2. CASE i > Len(s) /\ j <= Len(s)
      <4>1. j \in 1 .. Len(s) /\ i - Len(s) \in 1 .. Len(t) /\ s[j] = t[i - Len(s)]
        BY <1>1, <3>2
      <4> QED BY <2>1, <4>1
    <3> QED BY <2>5, <3>1, <3>2
  <2>6. \/ i <= Len(s) /\ j <= Len(s)
        \/ i > Len(s) /\ j > Len(s)
        \/ (i <= Len(s) /\ j > Len(s)) \/ (i > Len(s) /\ j <= Len(s))
    <3>1. i \in Int /\ j \in Int /\ Len(s) \in Int
      BY <1>1
    <3> QED BY <3>1
  <2> QED BY <2>3, <2>4, <2>5, <2>6
<1> QED BY <1>1, <1>2, <1>3 DEF new

\* new is s without its element at i, in any order.
Without(new, s, i, T) ==
  /\ new \in Seq(T)
  /\ ToSet(new) = ToSet(s) \ {s[i]}
  /\ IsInjective(new)

\* new[j] is s[at[j]], and at goes through all positions of s but i.
Positions(at, n, m, new, s, i) ==
  /\ i \in 1 .. m /\ Len(s) = m /\ Len(new) = n
  /\ \A j \in 1 .. n : at[j] \in 1 .. m /\ at[j] # i /\ new[j] = s[at[j]]
  /\ \A j, k \in 1 .. n : at[j] = at[k] => j = k
  /\ \A k \in 1 .. m : k # i => \E j \in 1 .. n : at[j] = k

\* Then new is s without its element at i.
LEMMA WithoutByIndex ==
  ASSUME NEW T, NEW s \in Seq(T), IsInjective(s), NEW i, NEW new \in Seq(T),
         NEW at, NEW n, NEW m, Positions(at, n, m, new, s, i)
  PROVE  Without(new, s, i, T)
<1>1. /\ DOMAIN s = 1 .. m /\ DOMAIN new = 1 .. n
      /\ \A j, k \in 1 .. m : s[j] = s[k] => j = k
  <2>1. DOMAIN s = 1 .. Len(s) /\ DOMAIN new = 1 .. Len(new)
    BY LenProperties
  <2>2. DOMAIN s = 1 .. m /\ DOMAIN new = 1 .. n
    BY <2>1 DEF Positions
  <2>3. \A j, k \in 1 .. m : s[j] = s[k] => j = k
    BY <2>2 DEF IsInjective
  <2> QED BY <2>2, <2>3
<1> DEFINE J == 1 .. n
           K == 1 .. m
<1>2. /\ i \in K /\ DOMAIN s = K /\ DOMAIN new = J
      /\ \A j \in J : at[j] \in K /\ at[j] # i /\ new[j] = s[at[j]]
      /\ \A j, k \in J : at[j] = at[k] => j = k
      /\ \A j, k \in K : s[j] = s[k] => j = k
      /\ \A k \in K : k # i => \E j \in J : at[j] = k
  BY <1>1 DEF Positions
<1> HIDE DEF J, K
<1>3. IsInjective(new)
  BY <1>2 DEF IsInjective
<1>4. \A x : x \in ToSet(new) <=> \E j \in J : x = new[j]
  BY <1>2 DEF ToSet
<1>5. \A x : x \in ToSet(s) <=> \E k \in K : x = s[k]
  BY <1>2 DEF ToSet
<1>6. ToSet(new) = ToSet(s) \ {s[i]}
  <2>1. ASSUME NEW x \in ToSet(new) PROVE x \in ToSet(s) /\ x # s[i]
    <3>1. PICK j \in J : x = new[j]
      BY <1>4
    <3>2. at[j] \in K /\ at[j] # i /\ x = s[at[j]]
      BY <1>2, <3>1
    <3> QED BY <1>2, <1>5, <3>2
  <2>2. ASSUME NEW x \in ToSet(s), x # s[i] PROVE x \in ToSet(new)
    <3>1. PICK k \in K : x = s[k]
      BY <1>5
    <3>2. k # i
      BY <2>2, <3>1
    <3>3. PICK j \in J : at[j] = k
      BY <1>2, <3>2
    <3> QED BY <1>2, <1>4, <3>1, <3>3
  <2> QED BY <2>1, <2>2
<1> QED BY <1>3, <1>6 DEF Without

\* Tail leaves all but the first element.
LEMMA WithoutFirst ==
  ASSUME NEW T, NEW s \in Seq(T), IsInjective(s), s # <<>>
  PROVE  Without(Tail(s), s, 1, T) /\ Head(s) = s[1] /\ 1 \in 1 .. Len(s)
<1>1. PICK n \in Nat, m \in Nat : m = n + 1 /\ Len(s) = m
  <2>1. Len(s) \in Nat /\ Len(s) - 1 \in Nat /\ Len(s) = Len(s) - 1 + 1
    BY LenProperties, EmptySeq
  <2> QED BY <2>1
<1>2. /\ Tail(s) \in Seq(T) /\ Len(Tail(s)) = n
      /\ \A j \in 1 .. n : Tail(s)[j] = s[j + 1]
      /\ Head(s) = s[1]
  BY <1>1, HeadTailProperties
<1> DEFINE at == [j \in 1 .. n |-> j + 1]
<1>3. 1 \in 1 .. m
  BY <1>1
<1>4. /\ \A j \in 1 .. n : at[j] \in 1 .. m /\ at[j] # 1 /\ Tail(s)[j] = s[at[j]]
      /\ \A j, k \in 1 .. n : at[j] = at[k] => j = k
  BY <1>1, <1>2
<1>5. \A k \in 1 .. m : k # 1 => \E j \in 1 .. n : at[j] = k
  <2> SUFFICES ASSUME NEW k \in 1 .. m, k # 1 PROVE k - 1 \in 1 .. n /\ at[k - 1] = k
    OBVIOUS
  <2> QED BY <1>1
<1> HIDE DEF at
<1>6. Positions(at, n, m, Tail(s), s, 1)
  BY <1>1, <1>2, <1>3, <1>4, <1>5 DEF Positions
<1>7. Without(Tail(s), s, 1, T)
  BY <1>2, <1>6, WithoutByIndex
<1> QED BY <1>1, <1>2, <1>3, <1>7

\* RemoveAt leaves all but the element at i.
LEMMA WithoutRemoved ==
  ASSUME NEW T, NEW s \in Seq(T), IsInjective(s), NEW i \in 1 .. Len(s)
  PROVE  Without(RemoveAt(s, i), s, i, T)
<1> DEFINE new == RemoveAt(s, i)
<1>1. PICK n \in Nat, m \in Nat : m = n + 1 /\ Len(s) = m
  <2>1. Len(s) \in Nat /\ Len(s) - 1 \in Nat /\ Len(s) = Len(s) - 1 + 1
    BY LenProperties
  <2> QED BY <2>1
<1>2. i \in 1 .. m /\ DOMAIN s = 1 .. m /\ \A j \in 1 .. m : s[j] \in T
  BY <1>1, LenProperties, ElementOfSeq
<1> DEFINE at == [j \in 1 .. n |-> IF j < i THEN j ELSE j + 1]
           front == SubSeq(s, 1, i - 1)
           rest == SubSeq(s, i + 1, m)
<1>3. /\ front \in Seq(T) /\ Len(front) = i - 1
      /\ \A j \in 1 .. i - 1 : front[j] = s[j]
  <2>1. /\ front \in Seq(T)
        /\ Len(front) = IF 1 <= i - 1 THEN i - 1 - 1 + 1 ELSE 0
        /\ \A j \in 1 .. i - 1 - 1 + 1 : front[j] = s[1 + j - 1]
    BY <1>2, SubSeqProperties
  <2> HIDE DEF front
  <2> QED BY <1>1, <1>2, <2>1
<1>4. /\ rest \in Seq(T) /\ Len(rest) = n - i + 1
      /\ \A j \in 1 .. m - i : rest[j] = s[j + i]
  <2>1. /\ rest \in Seq(T)
        /\ Len(rest) = IF i + 1 <= m THEN m - (i + 1) + 1 ELSE 0
        /\ \A j \in 1 .. m - (i + 1) + 1 : rest[j] = s[i + 1 + j - 1]
    BY <1>2, SubSeqProperties
  <2> HIDE DEF rest
  <2> QED BY <1>1, <1>2, <2>1
<1> HIDE DEF front, rest
<1>5. new = front \o rest
  BY <1>1 DEF RemoveAt, front, rest
<1> HIDE DEF new
<1>6. /\ new \in Seq(T) /\ Len(new) = Len(front) + Len(rest)
      /\ \A j \in 1 .. Len(front) + Len(rest) :
           new[j] = IF j <= Len(front) THEN front[j] ELSE rest[j - Len(front)]
  BY <1>3, <1>4, <1>5, ConcatProperties
<1>7. Len(new) = n /\ \A j \in 1 .. n : new[j] = IF j < i THEN s[j] ELSE s[j + 1]
  <2>1. /\ Len(new) = n
        /\ \A j \in 1 .. n : new[j] = IF j <= i - 1 THEN front[j] ELSE rest[j - (i - 1)]
    BY <1>1, <1>2, <1>3, <1>4, <1>6
  <2>2. ASSUME NEW j \in 1 .. n, j < i PROVE new[j] = s[j]
    BY <1>1, <1>2, <1>3, <2>1, <2>2
  <2>3. ASSUME NEW j \in 1 .. n, ~(j < i) PROVE new[j] = s[j + 1]
    <3>1. j - (i - 1) \in 1 .. m - i /\ j - (i - 1) + i = j + 1
      BY <1>1, <1>2, <2>3
    <3>2. rest[j - (i - 1)] = s[j + 1]
      BY <1>4, <3>1
    <3> QED BY <1>1, <1>2, <2>1, <2>3, <3>2
  <2> QED BY <2>1, <2>2, <2>3
<1>8. /\ \A j \in 1 .. n : at[j] \in 1 .. m /\ at[j] # i /\ new[j] = s[at[j]]
      /\ \A j, k \in 1 .. n : at[j] = at[k] => j = k
  BY <1>1, <1>2, <1>7
<1>9. \A k \in 1 .. m : k # i => \E j \in 1 .. n : at[j] = k
  <2> SUFFICES ASSUME NEW k \in 1 .. m, k # i PROVE \E j \in 1 .. n : at[j] = k
    OBVIOUS
  <2>1. CASE k < i
    <3>1. k \in 1 .. n /\ at[k] = k
      BY <1>1, <1>2, <2>1
    <3> QED BY <3>1
  <2>2. CASE k > i
    <3>1. k - 1 \in 1 .. n /\ at[k - 1] = k
      BY <1>1, <1>2, <2>2
    <3> QED BY <3>1
  <2> QED BY <1>2, <2>1, <2>2
<1> HIDE DEF at
<1>10. Positions(at, n, m, new, s, i)
  BY <1>1, <1>2, <1>7, <1>8, <1>9 DEF Positions
<1>11. Without(new, s, i, T)
  BY <1>6, <1>10, WithoutByIndex
<1> QED BY <1>11 DEF new

\* So does the swap with the last element.
LEMMA WithoutSwapped ==
  ASSUME NEW T, NEW s \in Seq(T), IsInjective(s), NEW i \in 1 .. Len(s)
  PROVE  Without(SwapAndPop(s, i), s, i, T)
<1> DEFINE new == SwapAndPop(s, i)
<1>1. PICK n \in Nat, m \in Nat : m = n + 1 /\ Len(s) = m
  <2>1. Len(s) \in Nat /\ Len(s) - 1 \in Nat /\ Len(s) = Len(s) - 1 + 1
    BY LenProperties
  <2> QED BY <2>1
<1>2. i \in 1 .. m /\ DOMAIN s = 1 .. m /\ \A j \in 1 .. m : s[j] \in T
  BY <1>1, LenProperties, ElementOfSeq
<1> DEFINE at == [j \in 1 .. n |-> IF j = i THEN m ELSE j]
<1>3. new = [j \in 1 .. n |-> IF j = i THEN s[m] ELSE s[j]]
  <2>1. Len(s) - 1 = n
    BY <1>1
  <2> QED BY <1>1, <2>1 DEF SwapAndPop
<1> HIDE DEF new
<1>4. /\ \A j \in 1 .. n : at[j] \in 1 .. m /\ at[j] # i /\ new[j] = s[at[j]]
      /\ \A j, k \in 1 .. n : at[j] = at[k] => j = k
  BY <1>1, <1>2, <1>3
<1>5. \A k \in 1 .. m : k # i => \E j \in 1 .. n : at[j] = k
  <2> SUFFICES ASSUME NEW k \in 1 .. m, k # i PROVE \E j \in 1 .. n : at[j] = k
    OBVIOUS
  <2>1. CASE k # m
    <3>1. k \in 1 .. n /\ at[k] = k
      BY <1>1, <2>1
    <3> QED BY <3>1
  <2>2. CASE k = m
    <3>1. i \in 1 .. n /\ at[i] = k
      BY <1>1, <1>2, <2>2
    <3> QED BY <3>1
  <2> QED BY <2>1, <2>2
<1> HIDE DEF at
<1>6. new \in Seq(T) /\ Len(new) = n
  <2>1. m \in 1 .. m
    BY <1>1
  <2>2. \A j \in 1 .. n : j \in 1 .. m
    BY <1>1
  <2>3. \A j \in 1 .. n : (IF j = i THEN s[m] ELSE s[j]) \in T
    BY <1>2, <2>1, <2>2
  <2> QED BY <1>3, <2>3, SeqDef, LenProperties
<1>7. Positions(at, n, m, new, s, i)
  BY <1>1, <1>2, <1>4, <1>5, <1>6 DEF Positions
<1>8. Without(new, s, i, T)
  BY <1>6, <1>7, WithoutByIndex
<1> QED BY <1>8 DEF new

-----------------------------------------------------------------------------
(***************************************************************************)
(* What a step of LinearScan does to the memory.                           *)
(***************************************************************************)
\* An owner and what it owns.
LEMMA OwnerFacts ==
  \A by, r, b : /\ Owner(by, r, b).by = by
                /\ Owner(by, r, b).range = r
                /\ Owner(by, r, b).block = b
BY DEF Owner

\* Who the owners are.
LEMMA OwnedMembers ==
  \A o : o \in Owned <=>
    \/ \E b \in ToSet(reserved) : o = Owner("reserved", None, b)
    \/ \E b \in ToSet(temp) : o = Owner("temp", None, b)
    \/ \E b \in PlacedBlock : o = Owner("placing", None, b)
    \/ \E p \in ToSet(live) \cup ToSet(pending) : o = Owner("range", p.range, BlockOf(p))
BY DEF Owned, ReservedOwners, RangeOwners

\* Held is the set of the blocks that are owned.
LEMMA HeldIsOwned == TypesOK => Held = {o.block : o \in Owned}
<1> SUFFICES ASSUME TypesOK PROVE Held = {o.block : o \in Owned}
  OBVIOUS
<1>1. ToSet(live \o pending) = ToSet(live) \cup ToSet(pending)
  BY ConcatFacts DEF TypesOK
<1>2. \A b : b \in Held <=> \/ b \in ToSet(reserved) \/ b \in ToSet(temp) \/ b \in PlacedBlock
                            \/ \E p \in ToSet(live) \cup ToSet(pending) : b = BlockOf(p)
  BY <1>1 DEF Held
<1>3. ASSUME NEW b \in Held PROVE \E o \in Owned : b = o.block
  BY <1>2, OwnedMembers, OwnerFacts
<1>4. ASSUME NEW o \in Owned PROVE o.block \in Held
  BY <1>2, OwnedMembers, OwnerFacts
<1> QED BY <1>3, <1>4

\* The same in the next state.
LEMMA HeldIsOwnedNext == TypesOK' => Held' = {o.block : o \in Owned'}
<1>1. (TypesOK => Held = {o.block : o \in Owned})'
  BY HeldIsOwned, PTL
<1> QED BY <1>1

\* The sizes and alignments are positive.
LEMMA PSizesPositive == PSizes \subseteq Nat \ {0} /\ PAlignments \subseteq Nat \ {0}
<1>1. \A r \in Ranges : Size[r] \in Nat \ {0} /\ Alignment[r] \in Nat \ {0}
  BY RangesAssumption
<1>2. \A b \in Regions : b.size \in Nat \ {0}
  BY BlocksAssumption
<1>3. \A b \in ReservedSpaces : b.size \in Nat \ {0} /\ b.alignment \in Nat \ {0}
  BY BlocksAssumption
<1>4. \A b \in ToSet(Reserved) : b.size \in Nat \ {0}
  <2>1. ToSet(Reserved) \subseteq [addr : Nat, size : Nat \ {0}]
    BY BlocksAssumption, SetOfSeq
  <2> QED BY <2>1
<1> QED BY <1>1, <1>2, <1>3, <1>4 DEF PSizes, PAlignments

\* A step that hands out the memory that alloc chooses.
LEMMA AllocStep ==
  ASSUME TypesOK, TypesOK', Owns(gaps, Owned),
         NEW size \in PSizes, NEW alignment \in PAlignments, NEW dir \in Directions,
         NEW i, i = ChooseMinimalGap(gaps, size, alignment, dir), i # 0,
         NEW addr, addr = GetAddrFromGap(gaps[i], size, alignment, dir),
         gaps' = UseGap(gaps, i, addr, size),
         NEW o, o.block = Block(addr, size), Owned' = Owned \cup {o}
  PROVE  /\ Owns(gaps', Owned') /\ P!Next
         /\ InMemory(o.block) /\ \A q \in Owned : Apart(o.block, q.block)
<1>1. size \in Nat \ {0} /\ alignment \in Nat \ {0}
  BY PSizesPositive
<1>2. TotalSize \in Nat /\ IsGapList(gaps, TotalSize)
  BY MemoryAssumption DEF Owns
<1>3. i \in DOMAIN gaps /\ addr \in Nat /\ gaps[i].begin <= addr /\ addr + size <= gaps[i].end
  <2>1. i \in DOMAIN gaps /\ addr # InvalidAddress
    BY <1>2, ChosenGapFits DEF Fits
  <2>2. gaps[i] \in GapRec
    BY <1>2, <2>1, GapListFacts
  <2> QED BY <1>1, <2>1, <2>2, AddrFromGap
<1>4. o.block \in BlockRec /\ o.block.addr = addr /\ o.block.size = size
  BY <1>1, <1>3 DEF Block, BlockRec
<1>5. /\ Owns(gaps', Owned') /\ InMemory(o.block)
      /\ \A q \in Owned : Apart(o.block, q.block)
  BY <1>3, <1>4, OwnsTake
<1>6. Held' = Held \cup {Block(addr, size)}
  BY HeldIsOwned, HeldIsOwnedNext
<1>7. P!Next
  BY <1>6, StepAlloc
<1> QED BY <1>5, <1>7

\* A step that takes a block which is apart from all that is owned.
LEMMA FixedStep ==
  ASSUME TypesOK, TypesOK', Owns(gaps, Owned),
         NEW o, InMemory(o.block), o.block.size \in PSizes, \A q \in Owned : Apart(o.block, q.block),
         gaps' = AllocFixedFrom(gaps, o.block.addr, o.block.size), Owned' = Owned \cup {o}
  PROVE  Owns(gaps', Owned') /\ P!Next
<1>1. /\ Owns(gaps', Owned')
      /\ \A x \in o.block.addr .. o.block.addr + o.block.size - 1 : Covers(gaps, x)
  BY OwnsFixed
<1>2. Held' = Held \cup {o.block}
  BY HeldIsOwned, HeldIsOwnedNext
<1> QED BY <1>1, <1>2, StepFixed

\* A step that gives back a block.
LEMMA FreeStep ==
  ASSUME TypesOK, TypesOK', Owns(gaps, Owned), NEW o \in Owned,
         gaps' = FreeInto(gaps, o.block.addr, o.block.size), Owned' = Owned \ {o}
  PROVE  Owns(gaps', Owned') /\ P!Next
<1>1. Owns(gaps', Owned')
  BY OwnsGive
<1>2. Held = {q.block : q \in Owned} /\ Held' = {q.block : q \in Owned \ {o}}
  BY HeldIsOwned, HeldIsOwnedNext
<1>3. o.block \in Held /\ Held' = Held \ {o.block}
  BY <1>2, BlocksWithout
<1> QED BY <1>1, <1>3, StepFree

-----------------------------------------------------------------------------
(***************************************************************************)
(* Every step keeps the invariant and is a step of Partitioner, or leaves  *)
(* the gaps and what is held as they are.                                  *)
(***************************************************************************)
PStep == P!Next \/ UNCHANGED <<gaps, Held>>
Good == ScanInv /\ CallInv

\* What a step that changes none of these keeps.
LEMMA SameMemory ==
  ASSUME UNCHANGED <<reserved, live, todo, pending, temp, newAddr>>
  PROVE  /\ Owned' = Owned /\ ReservedOwners' = ReservedOwners
         /\ NewRange' = NewRange /\ PlacedBlock' = PlacedBlock /\ Held' = Held
<1>1. NewRange' = NewRange
  BY DEF NewRange, NewIndex
<1>2. PlacedBlock' = PlacedBlock
  BY <1>1 DEF PlacedBlock
<1> QED BY <1>1, <1>2 DEF Owned, ReservedOwners, Held

\* Nothing is held when the constructor starts.
LEMMA InitGood == Init => Good /\ P!Init
<1> SUFFICES ASSUME Init PROVE Good /\ P!Init
  OBVIOUS
<1>1. /\ pc = "construct" /\ reserved = <<>> /\ live = <<>> /\ dead = {} /\ call = NoCall
      /\ todo = <<>> /\ pending = <<>> /\ temp = <<>> /\ candidates = <<>>
      /\ newAddr = None /\ spilled = {} /\ ret = None /\ gaps = <<Gap(0, TotalSize)>>
  BY DEF Init
<1>2. ToSet(<<>>) = {} /\ IsInjective(<<>>) /\ Len(<<>>) = 0
  BY EmptyFacts, EmptySeq
<1>3. Owned = {} /\ Held = {}
  <2>1. PlacedBlock = {}
    BY <1>1 DEF PlacedBlock
  <2>2. Owned = {}
    BY <1>1, <1>2, <2>1, OwnedMembers
  <2>3. live \o pending = <<>>
    BY <1>1
  <2> QED BY <1>1, <1>2, <2>1, <2>2, <2>3 DEF Held
<1>4. TypesOK
  BY <1>1 DEF TypesOK, Places, NoCall, Keeps, Directions
<1>5. PlacesOK
  <2>1. Len(Reserved) \in Nat /\ SubSeq(Reserved, 1, 0) = <<>>
    BY BlocksAssumption, LenProperties
  <2> QED BY <1>1, <1>2, <2>1 DEF PlacesOK, NoCall, InCall
<1>6. RangesOnce
  BY <1>1, <1>2 DEF RangesOnce, Known
<1>7. FixedOK
  BY <1>1, <1>2 DEF FixedOK, NoCall
<1>8. CandidatesApart
  BY <1>1, <1>2 DEF CandidatesApart
<1>9. Owns(gaps, Owned)
  <2>1. /\ IsGapList(gaps, TotalSize)
        /\ \A x \in Nat : Covers(gaps, x) <=> x < TotalSize
    <3>1. 0 \in Nat /\ TotalSize \in Nat /\ 0 < TotalSize /\ TotalSize <= TotalSize
      BY MemoryAssumption
    <3>2. /\ IsGapList(<<Gap(0, TotalSize)>>, TotalSize)
          /\ \A x \in Nat : Covers(<<Gap(0, TotalSize)>>, x) <=> 0 <= x /\ x < TotalSize
      BY <3>1, OneGap
    <3> QED BY <1>1, <3>2
  <2> QED BY <1>3, <2>1, MemoryAssumption DEF Owns
<1>10. CallInv
  BY <1>1 DEF CallInv, InCall
<1>11. P!Init
  BY <1>1, <1>3 DEF P!Init, Gap, P!Gap
<1> QED BY <1>4, <1>5, <1>6, <1>7, <1>8, <1>9, <1>10, <1>11 DEF Good, ScanInv

\* The client marks a range as dead.
LEMMA MarkAsDeadStep ==
  ASSUME Good, NEW r \in Ranges, MarkAsDead(r)
  PROVE  Good' /\ PStep
<1>1. /\ UNCHANGED <<pc, gaps, reserved, live, call, todo, pending, temp, candidates, newAddr, spilled, ret, before>>
      /\ dead' \subseteq Ranges /\ pc = "idle"
  BY DEF MarkAsDead, Good, ScanInv, TypesOK, scanVars
<1>2. /\ Owned' = Owned /\ ReservedOwners' = ReservedOwners /\ NewRange' = NewRange /\ Held' = Held
  BY <1>1, SameMemory
<1>3. TypesOK'
  BY <1>1 DEF Good, ScanInv, TypesOK
<1>4. PlacesOK'
  BY <1>1 DEF Good, ScanInv, PlacesOK, InCall
<1>5. RangesOnce'
  BY <1>1 DEF Good, ScanInv, RangesOnce, Known
<1>6. FixedOK'
  BY <1>1, <1>2 DEF Good, ScanInv, FixedOK
<1>7. CandidatesApart'
  BY <1>1, <1>2 DEF Good, ScanInv, CandidatesApart
<1>8. CallInv'
  BY <1>1 DEF CallInv, InCall
<1> QED BY <1>1, <1>2, <1>3, <1>4, <1>5, <1>6, <1>7, <1>8 DEF Good, ScanInv, PStep

\* freeDeadRanges begins.
LEMMA FreeDeadRangesStep ==
  ASSUME Good, FreeDeadRanges
  PROVE  Good' /\ PStep
<1>1. /\ UNCHANGED <<gaps, reserved, live, dead, call, todo, pending, temp, candidates, newAddr, spilled, ret, before>>
      /\ pc = "idle" /\ pc' = "sweep"
  BY DEF FreeDeadRanges, scanVars
<1>2. /\ Owned' = Owned /\ ReservedOwners' = ReservedOwners /\ NewRange' = NewRange /\ Held' = Held
  BY <1>1, SameMemory
<1>3. TypesOK'
  BY <1>1 DEF Good, ScanInv, TypesOK, Places
<1>4. PlacesOK'
  BY <1>1 DEF Good, ScanInv, PlacesOK, InCall
<1>5. RangesOnce'
  BY <1>1 DEF Good, ScanInv, RangesOnce, Known
<1>6. FixedOK'
  BY <1>1, <1>2 DEF Good, ScanInv, FixedOK
<1>7. CandidatesApart'
  BY <1>1, <1>2 DEF Good, ScanInv, CandidatesApart
<1>8. CallInv'
  BY <1>1 DEF CallInv, InCall
<1> QED BY <1>1, <1>2, <1>3, <1>4, <1>5, <1>6, <1>7, <1>8 DEF Good, ScanInv, PStep

\* Without a range that is being placed, there is no block of it.
LEMMA NothingPlaced ==
  /\ newAddr = None => PlacedBlock = {}
  /\ newAddr' = None => PlacedBlock' = {}
BY DEF PlacedBlock

\* What is owned and held depends on these.
LEMMA SameOwned ==
  ASSUME UNCHANGED <<reserved, live, pending, temp, PlacedBlock>>
  PROVE  Owned' = Owned /\ ReservedOwners' = ReservedOwners /\ Held' = Held
BY DEF Owned, ReservedOwners, Held

\* The client has the result of a call.
LEMMA ReturnStep ==
  ASSUME Good, Return
  PROVE  Good' /\ PStep
<1>1. /\ UNCHANGED <<gaps, reserved, live, dead, pending, temp, candidates, newAddr>>
      /\ pc = "returned" /\ pc' = "idle" /\ newAddr = None
      /\ call' = NoCall /\ todo' = <<>> /\ spilled' = {} /\ ret' = None
      /\ pending = <<>> /\ candidates = <<>> /\ temp = <<>>
  BY DEF Return, scanVars, Good, ScanInv, PlacesOK
<1>2. Owned' = Owned /\ Held' = Held
  BY <1>1, SameOwned, NothingPlaced
<1>3. TypesOK'
  BY <1>1 DEF Good, ScanInv, TypesOK, Places, NoCall, Keeps, Directions
<1>4. PlacesOK'
  BY <1>1 DEF Good, ScanInv, PlacesOK, InCall
<1>5. RangesOnce'
  BY <1>1, EmptyFacts DEF Good, ScanInv, RangesOnce, Known
<1>6. FixedOK'
  BY <1>1, EmptyFacts DEF FixedOK
<1>7. CandidatesApart'
  BY <1>1, EmptyFacts DEF CandidatesApart
<1>8. CallInv'
  BY <1>1 DEF CallInv, InCall
<1> QED BY <1>1, <1>2, <1>3, <1>4, <1>5, <1>6, <1>7, <1>8 DEF Good, ScanInv, PStep

\* What is requested are ranges, and memory that may be kept.
LEMMA RequestTypes ==
  /\ BoundedSeq(Ranges, MaxRequest) \subseteq Seq(Ranges)
  /\ Keepable \subseteq Keeps
<1>1. BoundedSeq(Ranges, MaxRequest) \subseteq Seq(Ranges)
  BY SeqDef DEF BoundedSeq, SeqOf
<1>2. Keepable \subseteq Keeps
  BY DEF Keepable, Keeps
<1> QED BY <1>1, <1>2

\* Between calls, and when a call begins, only the live ranges have memory.
LEMMA OwnedAtRest ==
  ASSUME temp = <<>>, pending = <<>>, newAddr = None
  PROVE  Owned = ReservedOwners \cup RangeOwners(ToSet(live))
<1>1. PlacedBlock = {} /\ ToSet(temp) = {} /\ ToSet(pending) = {}
  BY EmptyFacts, NothingPlaced
<1> QED BY <1>1 DEF Owned

\* The memory of a range with a fixed address.
LEMMA FixedBlockInMemory ==
  ASSUME NEW r \in Ranges, IsFixedAlloc(r)
  PROVE  InMemory(FixedBlock(r)) /\ FixedBlock(r) \in BlockRec
<1>1. /\ FixedAddr[r] \in Nat /\ Size[r] \in Nat \ {0} /\ FixedAddr[r] + Size[r] <= TotalSize
  BY RangesAssumption
<1> QED BY <1>1 DEF InMemory, FixedBlock, Block, BlockRec

\* A client makes a call.
LEMMA CallStepGood ==
  ASSUME Good, NEW req \in BoundedSeq(Ranges, MaxRequest), NEW test \in BOOLEAN,
         NEW keep \in Keepable, NEW spills \in AllowSpills, NEW dir \in Directions,
         Call(req, test, keep, spills, dir)
  PROVE  Good' /\ PStep
<1>1. /\ UNCHANGED <<gaps, reserved, live, pending, temp, candidates, newAddr, spilled, ret>>
      /\ pc = "idle" /\ pc' = IF keep # None THEN "keep" ELSE "place"
      /\ CanRequest(req, keep) /\ todo' = req /\ before' = <<gaps, live>>
      /\ call' = [test |-> test, keep |-> keep, spills |-> spills, dir |-> dir]
      /\ dead' \subseteq Ranges
      /\ pending = <<>> /\ candidates = <<>> /\ temp = <<>> /\ newAddr = None
  BY DEF Call, scanVars, Good, ScanInv, PlacesOK, TypesOK, InCall
<1>2. req \in Seq(Ranges) /\ keep \in Keeps /\ spills \in BOOLEAN
  BY RequestTypes, AnswersAssumption
<1>3. Owned' = Owned /\ Held' = Held /\ ReservedOwners' = ReservedOwners
  BY <1>1, SameOwned, NothingPlaced
<1>4. /\ call'.test = test /\ call'.keep = keep /\ call'.spills = spills
  BY <1>1
<1>5. TypesOK'
  BY <1>1, <1>2 DEF Good, ScanInv, TypesOK, Places
<1>6. PlacesOK'
  <2>1. keep # None /\ keep.kind = "region" => IsFreeBlock(keep.block)
    BY DEF Keepable
  <2>2. IsFreeBlock(keep.block)' <=> IsFreeBlock(keep.block)
    BY <1>1 DEF IsFreeBlock
  <2>3. IsFreeBlock(call.keep.block)' <=> IsFreeBlock(keep.block)
    BY <1>1, <1>4 DEF IsFreeBlock
  <2> QED BY <1>1, <1>4, <2>1, <2>3 DEF Good, ScanInv, PlacesOK, InCall
<1>7. RangesOnce'
  <2>1. ToSet(pending) = {} /\ ToSet(candidates) = {}
    BY <1>1, EmptyFacts
  <2>2. \A p \in ToSet(live) : p.range \notin ToSet(req)
    <3>1. \A p \in ToSet(live) : p.range \in RangesOf(live)
      BY DEF ToSet, RangesOf
    <3> QED BY <1>1, <3>1 DEF CanRequest
  <2> QED BY <1>1, <2>1, <2>2 DEF Good, ScanInv, RangesOnce, Known, CanRequest
<1>8. FixedOK'
  <2>1. ToSet(pending) = {}
    BY <1>1, EmptyFacts
  <2>2. \A r \in ToSet(req) : r \in Ranges
    BY <1>2, SetOfSeq
  <2>3. ASSUME NEW r \in ToSet(req), NEW s \in ToSet(req), r # s, IsFixedAlloc(r), IsFixedAlloc(s)
        PROVE  Apart(FixedBlock(r), FixedBlock(s))
    <3>1. ~Intersects(FixedAddr[r], Size[r], FixedAddr[s], Size[s])
      BY <1>1, <2>3 DEF CanRequest
    <3>2. FixedBlock(r) \in BlockRec /\ FixedBlock(s) \in BlockRec
      BY <2>2, <2>3, FixedBlockInMemory
    <3> QED BY <3>1, <3>2, ApartFacts DEF FixedBlock, Block
  <2>4. keep # None => \A r \in ToSet(req) : ~IsFixedAlloc(r)
    BY <1>1 DEF CanRequest
  <2>5. pc' # "process"
    BY <1>1
  <2> QED BY <1>1, <1>4, <2>1, <2>3, <2>4, <2>5 DEF FixedOK
<1>9. CandidatesApart'
  BY <1>1, <1>3, EmptyFacts DEF CandidatesApart
<1>10. CallInv'
  <2>1. Owns(gaps, ReservedOwners \cup RangeOwners(ToSet(live)))
    BY <1>1, OwnedAtRest DEF Good, ScanInv
  <2>2. gaps \in Seq([begin : Nat, end : Nat])
    BY <2>1 DEF Owns, IsGapList, GapRec
  <2>3. before'[1] = gaps /\ before'[2] = live
    BY <1>1
  <2> QED BY <1>1, <1>3, <2>1, <2>2, <2>3 DEF CallInv, InCall, Undecided, Good, ScanInv, TypesOK
<1> QED BY <1>1, <1>3, <1>5, <1>6, <1>7, <1>8, <1>9, <1>10 DEF Good, ScanInv, PStep

\* The constructor reserves a block, or is done.
LEMMA ConstructStep ==
  ASSUME Good, Construct
  PROVE  Good' /\ PStep
<1> DEFINE n == Len(reserved) + 1
<1>1. /\ UNCHANGED <<live, dead, call, todo, pending, temp, candidates, newAddr, spilled, ret, before>>
      /\ pc = "construct" /\ live = <<>> /\ temp = <<>> /\ pending = <<>> /\ newAddr = None
      /\ candidates = <<>>
  BY DEF Construct, Good, ScanInv, PlacesOK, InCall
<1>2. /\ Len(reserved) \in Nat /\ reserved \in Seq(BlockRec) /\ Len(Reserved) \in Nat
      /\ Reserved \in Seq(BlockRec)
  BY BlocksAssumption, LenProperties DEF Good, ScanInv, TypesOK, BlockRec
<1>3. FixedOK'
  <2>1. pc' # "process" /\ ToSet(pending') = ToSet(pending)
    BY <1>1 DEF Construct
  <2> QED BY <1>1, <2>1 DEF Good, ScanInv, FixedOK
<1>4. RangesOnce' /\ CandidatesApart'
  <2>1. RangesOnce'
    BY <1>1 DEF Good, ScanInv, RangesOnce, Known
  <2>2. CandidatesApart'
    BY <1>1, EmptyFacts DEF CandidatesApart
  <2> QED BY <2>1, <2>2
<1>5. CallInv'
  BY <1>1 DEF Construct, CallInv, InCall
<1>6. ASSUME n <= Len(Reserved), UNCHANGED pc, reserved' = Append(reserved, Reserved[n]),
             gaps' = AllocFixedFrom(gaps, Reserved[n].addr, Reserved[n].size)
      PROVE  Good' /\ PStep
  <2> DEFINE b == Reserved[n]
             o == Owner("reserved", None, b)
  <2>1. n \in 1 .. Len(Reserved) /\ n \in DOMAIN Reserved /\ b \in BlockRec
    BY <1>2, <1>6, LenProperties, ElementOfSeq
  <2>2. reserved' \in Seq(BlockRec) /\ ToSet(reserved') = ToSet(reserved) \cup {b}
    BY <1>2, <1>6, <2>1, AppendFacts
  <2>3. TypesOK'
    BY <1>1, <1>6, <2>2 DEF Good, ScanInv, TypesOK
  <2>4. reserved' = SubSeq(Reserved, 1, Len(reserved')) /\ Len(reserved') <= Len(Reserved)
    <3>1. Len(reserved') = n
      BY <1>2, <1>6, <2>1, AppendProperties
    <3>2. reserved = SubSeq(Reserved, 1, n - 1)
      BY <1>2 DEF Good, ScanInv, PlacesOK
    <3>3. \A k \in 1 .. n - 1 : reserved[k] = Reserved[k]
      <4>1. \A k \in 1 .. n - 1 : Reserved[k] \in BlockRec
        BY <1>2, <2>1, ElementOfSeq
      <4>2. \A k \in 1 .. n - 1 - 1 + 1 : SubSeq(Reserved, 1, n - 1)[k] = Reserved[1 + k - 1]
        BY <1>2, <4>1, SubSeqProperties
      <4> HIDE DEF n
      <4>3. n \in Nat
        BY <2>1
      <4> QED BY <3>2, <4>2, <4>3
    <3>4. \A k \in 1 .. n : reserved'[k] = Reserved[k]
      BY <1>2, <1>6, <2>1, <3>3, AppendProperties
    <3>5. SubSeq(Reserved, 1, n) \in Seq(BlockRec) /\ Len(SubSeq(Reserved, 1, n)) = n
          /\ \A k \in 1 .. n : SubSeq(Reserved, 1, n)[k] = Reserved[k]
      <4>1. \A k \in 1 .. n : Reserved[k] \in BlockRec
        BY <1>2, <2>1, ElementOfSeq
      <4>2. /\ SubSeq(Reserved, 1, n) \in Seq(BlockRec)
            /\ Len(SubSeq(Reserved, 1, n)) = IF 1 <= n THEN n - 1 + 1 ELSE 0
            /\ \A k \in 1 .. n - 1 + 1 : SubSeq(Reserved, 1, n)[k] = Reserved[1 + k - 1]
        BY <1>2, <4>1, SubSeqProperties
      <4> HIDE DEF n
      <4> QED BY <2>1, <4>2
    <3> HIDE DEF n
    <3> QED BY <1>6, <2>1, <2>2, <3>1, <3>4, <3>5, SeqEqual
  <2>5. PlacesOK'
    BY <1>1, <1>6, <2>4 DEF Good, ScanInv, PlacesOK, InCall
  <2>6. Owned' = Owned \cup {o} /\ o.block = b
    <3>1. PlacedBlock' = PlacedBlock
      BY <1>1, NothingPlaced
    <3>2. \A x : x \in Owned' <=>
            \/ \E c \in ToSet(reserved') : x = Owner("reserved", None, c)
            \/ \E c \in ToSet(temp) : x = Owner("temp", None, c)
            \/ \E c \in PlacedBlock : x = Owner("placing", None, c)
            \/ \E p \in ToSet(live) \cup ToSet(pending) : x = Owner("range", p.range, BlockOf(p))
      BY <1>1, <3>1 DEF Owned, ReservedOwners, RangeOwners
    <3> HIDE DEF b
    <3>3. \A x : x \in Owned' <=> x \in Owned \/ x = o
      BY <2>2, <3>2, OwnedMembers
    <3> QED BY <3>3, OwnerFacts
  <2>7. InMemory(b) /\ b.size \in PSizes
    <3>1. b \in ToSet(Reserved) /\ b.addr + b.size <= TotalSize
      BY <2>1, BlocksAssumption DEF ToSet
    <3> QED BY <2>1, <3>1 DEF InMemory, PSizes
  <2>8. \A q \in Owned : Apart(b, q.block)
    <3> SUFFICES ASSUME NEW q \in Owned PROVE Apart(b, q.block)
      OBVIOUS
    <3>1. PICK c \in ToSet(reserved) : q = Owner("reserved", None, c)
      BY <1>1, EmptyFacts, NothingPlaced, OwnedMembers
    <3>2. PICK k \in 1 .. Len(reserved) : c = reserved[k]
      BY <1>2, LenProperties DEF ToSet
    <3>3. k \in DOMAIN Reserved /\ k # n /\ c = Reserved[k] /\ c \in BlockRec
      <4>1. \A j \in 1 .. Len(reserved) : Reserved[j] \in BlockRec
        BY <1>2, <2>1, ElementOfSeq
      <4>2. \A j \in 1 .. Len(reserved) - 1 + 1 : SubSeq(Reserved, 1, Len(reserved))[j] = Reserved[1 + j - 1]
        BY <1>2, <4>1, SubSeqProperties
      <4>3. reserved[k] = Reserved[k]
        <5>1. k \in 1 .. Len(reserved) - 1 + 1 /\ 1 + k - 1 = k
          BY <1>2
        <5> QED BY <4>2, <5>1 DEF Good, ScanInv, PlacesOK
      <4> QED BY <1>2, <2>1, <3>2, <4>1, <4>3, LenProperties
    <3>4. ~Intersects(Reserved[n].addr, Reserved[n].size, Reserved[k].addr, Reserved[k].size)
      BY <2>1, <3>3, BlocksAssumption
    <3> QED BY <2>1, <3>1, <3>3, <3>4, ApartFacts, OwnerFacts
  <2> HIDE DEF b, o
  <2>9. gaps' = AllocFixedFrom(gaps, o.block.addr, o.block.size)
    BY <1>6, <2>6 DEF b
  <2>10. Owns(gaps', Owned') /\ P!Next
    BY <2>3, <2>6, <2>7, <2>8, <2>9, FixedStep DEF Good, ScanInv
  <2> QED BY <1>3, <1>4, <1>5, <2>3, <2>5, <2>10 DEF Good, ScanInv, PStep
<1>7. ASSUME pc' = "idle", UNCHANGED <<gaps, reserved>>
      PROVE  Good' /\ PStep
  <2>1. TypesOK'
    BY <1>1, <1>7 DEF Good, ScanInv, TypesOK, Places
  <2>2. PlacesOK'
    BY <1>1, <1>7 DEF Good, ScanInv, PlacesOK, InCall
  <2>3. Owned' = Owned /\ Held' = Held
    BY <1>1, <1>7, SameMemory
  <2> QED BY <1>3, <1>4, <1>5, <1>7, <2>1, <2>2, <2>3 DEF Good, ScanInv, PStep
<1> QED BY <1>6, <1>7 DEF Construct

\* What a step owns after it, when it changes none of the other owners.
LEMMA OwnedByRanges ==
  ASSUME UNCHANGED <<reserved, temp, PlacedBlock>>
  PROVE  \A o : o \in Owned' <=>
           \/ \E b \in ToSet(reserved) : o = Owner("reserved", None, b)
           \/ \E b \in ToSet(temp) : o = Owner("temp", None, b)
           \/ \E b \in PlacedBlock : o = Owner("placing", None, b)
           \/ \E p \in ToSet(live') \cup ToSet(pending') : o = Owner("range", p.range, BlockOf(p))
<1>1. ToSet(reserved') = ToSet(reserved) /\ ToSet(temp') = ToSet(temp) /\ PlacedBlock' = PlacedBlock
  OBVIOUS
<1>2. Owned' = {Owner("reserved", None, b) : b \in ToSet(reserved')}
               \cup {Owner("temp", None, b) : b \in ToSet(temp')}
               \cup {Owner("placing", None, b) : b \in PlacedBlock'}
               \cup {Owner("range", p.range, BlockOf(p)) : p \in ToSet(live') \cup ToSet(pending')}
  BY DEF Owned, ReservedOwners, RangeOwners
<1> QED BY <1>1, <1>2

\* A step that frees the memory of a range.
LEMMA LoseRange ==
  ASSUME Good, TypesOK', UNCHANGED <<reserved, temp, PlacedBlock>>,
         NEW p \in ToSet(live) \cup ToSet(pending),
         ToSet(live') \cup ToSet(pending') = (ToSet(live) \cup ToSet(pending)) \ {p},
         gaps' = FreeInto(gaps, p.addr, Size[p.range])
  PROVE  /\ Owner("range", p.range, BlockOf(p)) \in Owned
         /\ Owned' = Owned \ {Owner("range", p.range, BlockOf(p))}
         /\ Owns(gaps', Owned') /\ P!Next
<1> DEFINE o == Owner("range", p.range, BlockOf(p))
<1>1. o \in Owned
  BY OwnedMembers
<1>2. \A q \in ToSet(live) \cup ToSet(pending) :
        q # p => Owner("range", q.range, BlockOf(q)) # o
  BY OwnerFacts DEF Good, ScanInv, RangesOnce, Known
<1>3. \A x : x \in Owned' <=> x \in Owned /\ x # o
  <2>1. \A b : Owner("reserved", None, b) # o /\ Owner("temp", None, b) # o /\ Owner("placing", None, b) # o
    <3>1. o.by = "range" /\ \A b : /\ Owner("reserved", None, b).by = "reserved"
                                   /\ Owner("temp", None, b).by = "temp"
                                   /\ Owner("placing", None, b).by = "placing"
      BY OwnerFacts
    <3>2. "range" # "reserved" /\ "range" # "temp" /\ "range" # "placing"
      OBVIOUS
    <3> QED BY <3>1, <3>2
  <2> HIDE DEF o
  <2>2. ASSUME NEW x \in Owned' PROVE x \in Owned /\ x # o
    <3>1. CASE \E q \in ToSet(live') \cup ToSet(pending') : x = Owner("range", q.range, BlockOf(q))
      BY <1>2, <3>1, OwnedMembers
    <3>2. CASE ~\E q \in ToSet(live') \cup ToSet(pending') : x = Owner("range", q.range, BlockOf(q))
      BY <2>1, <2>2, <3>2, OwnedByRanges, OwnedMembers
    <3> QED BY <3>1, <3>2
  <2>3. ASSUME NEW x \in Owned, x # o PROVE x \in Owned'
    <3>1. CASE \E q \in ToSet(live) \cup ToSet(pending) : x = Owner("range", q.range, BlockOf(q))
      BY <2>3, <3>1, OwnedByRanges DEF o
    <3>2. CASE ~\E q \in ToSet(live) \cup ToSet(pending) : x = Owner("range", q.range, BlockOf(q))
      BY <2>3, <3>2, OwnedByRanges, OwnedMembers
    <3> QED BY <3>1, <3>2
  <2> QED BY <2>2, <2>3
<1>4. Owned' = Owned \ {o}
  BY <1>3
<1>5. o.block = BlockOf(p) /\ BlockOf(p).addr = p.addr /\ BlockOf(p).size = Size[p.range]
  BY OwnerFacts DEF BlockOf, Block
<1> HIDE DEF o
<1>6. Owns(gaps', Owned') /\ P!Next
  BY <1>1, <1>4, <1>5, FreeStep DEF Good, ScanInv
<1> QED BY <1>1, <1>4, <1>6 DEF o

\* The last of some positions.
LEMMA MaxOfIndexes ==
  ASSUME NEW n \in Nat, NEW S, S \subseteq 1 .. n, S # {}
  PROVE  Max(S) \in S
<1> DEFINE T == {n - i : i \in S}
<1>1. T \subseteq Nat /\ T # {}
  <2>1. \A i \in S : n - i \in Nat
    OBVIOUS
  <2>2. PICK i \in S : TRUE
    OBVIOUS
  <2> QED BY <2>1, <2>2
<1>2. PICK m \in T : \A k \in T : m <= k
  <2> HIDE DEF T
  <2> QED BY <1>1, NatMinimum
<1>3. PICK i \in S : m = n - i
  BY <1>2
<1>4. \A j \in S : i >= j
  <2> SUFFICES ASSUME NEW j \in S PROVE i >= j
    OBVIOUS
  <2>1. n - i <= n - j
    BY <1>2, <1>3
  <2> QED BY <2>1
<1> QED BY <1>3, <1>4 DEF Max

\* Fixed ranges come first; there is a range to place when todo is not empty.
LEMMA NewRangeFacts ==
  ASSUME TypesOK, todo # <<>>
  PROVE  /\ NewIndex \in 1 .. Len(todo) /\ NewRange \in ToSet(todo) /\ NewRange \in Ranges
         /\ ~IsFixedAlloc(NewRange) => \A r \in ToSet(todo) : ~IsFixedAlloc(r)
<1> DEFINE fixed == {i \in DOMAIN todo : IsFixedAlloc(todo[i])}
<1>1. /\ DOMAIN todo = 1 .. Len(todo) /\ Len(todo) \in Nat /\ 1 \in 1 .. Len(todo)
      /\ \A i \in 1 .. Len(todo) : todo[i] \in Ranges
  <2>1. todo \in Seq(Ranges) /\ Len(todo) # 0
    BY EmptySeq DEF TypesOK
  <2>2. DOMAIN todo = 1 .. Len(todo) /\ Len(todo) \in Nat
    BY <2>1, LenProperties
  <2>3. \A i \in 1 .. Len(todo) : todo[i] \in Ranges
    BY <2>1, ElementOfSeq
  <2> QED BY <2>1, <2>2, <2>3
<1>2. NewIndex = IF fixed = {} THEN 1 ELSE Min(fixed)
  BY DEF NewIndex
<1>3. fixed # {} => Min(fixed) \in fixed
  <2> SUFFICES ASSUME fixed # {} PROVE Min(fixed) \in fixed
    OBVIOUS
  <2>1. fixed \subseteq Nat
    BY <1>1
  <2> HIDE DEF fixed
  <2>2. \E m \in fixed : \A k \in fixed : m <= k
    BY <2>1, NatMinimum
  <2> QED BY <2>2 DEF Min
<1>4. NewIndex \in 1 .. Len(todo)
  BY <1>1, <1>2, <1>3
<1>5. NewRange \in ToSet(todo) /\ NewRange \in Ranges
  BY <1>1, <1>4 DEF NewRange, ToSet
<1>6. ASSUME ~IsFixedAlloc(NewRange), NEW r \in ToSet(todo) PROVE ~IsFixedAlloc(r)
  BY <1>1, <1>2, <1>3, <1>6 DEF NewRange, ToSet
<1> QED BY <1>4, <1>5, <1>6

\* w[i] is the first of the smallest of n weights.
Lightest(w, i, n) == \A j \in 1 .. n : w[i] < w[j] \/ (w[i] = w[j] /\ i <= j)

\* Of some weights in a row, one is the first of the smallest.
LEMMA LightestExists ==
  ASSUME NEW n \in Nat \ {0}, NEW w, \A i \in 1 .. n : w[i] \in Int
  PROVE  \E i \in 1 .. n : Lightest(w, i, n)
<1> DEFINE bad == {m \in 1 .. n : ~\E i \in 1 .. m : Lightest(w, i, m)}
<1> SUFFICES ASSUME bad # {} PROVE FALSE
  <2>1. n \in 1 .. n
    OBVIOUS
  <2> QED BY <2>1
<1>1. PICK m \in bad : \A k \in bad : m <= k
  <2>1. bad \subseteq Nat
    OBVIOUS
  <2> HIDE DEF bad
  <2> QED BY <2>1, NatMinimum
<1>2. m \in 1 .. n /\ m \in Nat /\ m # 0 /\ m <= n /\ ~\E i \in 1 .. m : Lightest(w, i, m)
  BY <1>1
<1>3. m # 1
  <2>1. CASE m = 1
    <3>1. 1 \in 1 .. m /\ \A j \in 1 .. m : j = 1 /\ 1 <= j
      BY <1>2, <2>1
    <3>2. \A j \in 1 .. m : w[1] = w[j] /\ 1 <= j
      BY <3>1
    <3>3. Lightest(w, 1, m)
      BY <3>2 DEF Lightest
    <3> QED BY <1>2, <3>1, <3>3
  <2> QED BY <2>1
<1>4. PICK k \in Nat : m = k + 1 /\ k \in 1 .. n /\ ~(m <= k)
  <2>1. m - 1 \in Nat /\ m = m - 1 + 1 /\ m - 1 \in 1 .. n /\ ~(m <= m - 1)
    BY <1>2, <1>3
  <2> QED BY <2>1
<1>5. PICK i \in 1 .. k : Lightest(w, i, k)
  BY <1>1, <1>4
<1> HIDE DEF bad
<1>6. /\ i \in 1 .. m /\ i <= m /\ m \in 1 .. m /\ w[i] \in Int /\ w[m] \in Int
      /\ \A j \in 1 .. m : j = m \/ j \in 1 .. k
      /\ \A j \in 1 .. m : w[j] \in Int /\ m <= m
  <2>1. i \in 1 .. n /\ \A j \in 1 .. m : j \in 1 .. n
    BY <1>2, <1>4
  <2>2. i \in 1 .. m /\ i <= m /\ m \in 1 .. m /\ \A j \in 1 .. m : j = m \/ j \in 1 .. k
    BY <1>2, <1>4
  <2> QED BY <1>2, <2>1, <2>2
<1>7. CASE w[i] <= w[m]
  <2>1. w[i] < w[m] \/ (w[i] = w[m] /\ i <= m)
    BY <1>6, <1>7
  <2>2. Lightest(w, i, m)
    BY <1>5, <1>6, <2>1 DEF Lightest
  <2> QED BY <1>2, <1>6, <2>2
<1>8. CASE w[m] < w[i]
  <2>1. ASSUME NEW j \in 1 .. k, j \in 1 .. m PROVE w[m] < w[j]
    <3>1. w[i] < w[j] \/ w[i] = w[j]
      BY <1>5 DEF Lightest
    <3>2. w[j] \in Int /\ w[i] \in Int /\ w[m] \in Int
      BY <1>6, <2>1
    <3> QED BY <1>8, <3>1, <3>2
  <2>2. Lightest(w, m, m)
    BY <1>6, <2>1 DEF Lightest
  <2> QED BY <1>2, <1>6, <2>2
<1> QED BY <1>6, <1>7, <1>8

\* std::min_element finds a live range when there is one.
LEMMA SpillCandidateIsLive ==
  ASSUME TypesOK, live # <<>>
  PROVE  SpillCandidate \in DOMAIN live
<1>1. DOMAIN live = 1 .. Len(live) /\ Len(live) \in Nat \ {0} /\ \A i \in 1 .. Len(live) : live[i] \in Placed
  <2>1. live \in Seq(Placed) /\ Len(live) # 0
    BY EmptySeq DEF TypesOK
  <2> QED BY <2>1, LenProperties, ElementOfSeq
<1> DEFINE w == [i \in 1 .. Len(live) |-> SpillWeight[live[i].range]]
<1>2. \A i \in 1 .. Len(live) : w[i] \in Int /\ w[i] = SpillWeight[live[i].range]
  BY <1>1, RangesAssumption DEF Placed
<1> HIDE DEF w
<1>3. PICK i \in 1 .. Len(live) : Lightest(w, i, Len(live))
  BY <1>1, <1>2, LightestExists
<1>4. i \in DOMAIN live /\ \A j \in DOMAIN live :
        \/ SpillWeight[live[i].range] < SpillWeight[live[j].range]
        \/ SpillWeight[live[i].range] = SpillWeight[live[j].range] /\ i <= j
  BY <1>1, <1>2, <1>3 DEF Lightest
<1> QED BY <1>4 DEF SpillCandidate

\* A live range gives its memory back.
LEMMA ReleaseLiveFacts ==
  ASSUME Good, NEW i \in DOMAIN live, ReleaseLive(i), UNCHANGED <<reserved, temp, PlacedBlock, pending>>
  PROVE  /\ live[i] \in ToSet(live) /\ live[i] \in Placed
         /\ live' \in Seq(Placed) /\ IsInjective(live') /\ ToSet(live') = ToSet(live) \ {live[i]}
         /\ Owner("range", live[i].range, BlockOf(live[i])) \in Owned
         /\ TypesOK' =>
              /\ Owned' = Owned \ {Owner("range", live[i].range, BlockOf(live[i]))}
              /\ Owns(gaps', Owned') /\ P!Next
<1>1. /\ live \in Seq(Placed) /\ IsInjective(live) /\ i \in 1 .. Len(live)
      /\ live[i] \in ToSet(live) /\ live[i] \in Placed
      /\ ToSet(live) \cap ToSet(pending) = {}
  <2>1. live \in Seq(Placed)
    BY DEF Good, ScanInv, TypesOK
  <2>2. i \in 1 .. Len(live) /\ live[i] \in ToSet(live)
    BY <2>1, LenProperties DEF ToSet
  <2>3. live[i] \in Placed
    BY <2>1, <2>2, ElementOfSeq
  <2> QED BY <2>1, <2>2, <2>3 DEF Good, ScanInv, RangesOnce
<1>2. Without(live', live, i, Placed)
  BY <1>1, WithoutSwapped DEF ReleaseLive
<1>3. /\ live' \in Seq(Placed) /\ IsInjective(live') /\ ToSet(live') = ToSet(live) \ {live[i]}
  BY <1>2 DEF Without
<1>4. ToSet(pending') = ToSet(pending)
  OBVIOUS
<1>5. ToSet(live') \cup ToSet(pending') = (ToSet(live) \cup ToSet(pending)) \ {live[i]}
  BY <1>1, <1>3, <1>4
<1>6. TypesOK' => /\ Owned' = Owned \ {Owner("range", live[i].range, BlockOf(live[i]))}
                  /\ Owns(gaps', Owned') /\ P!Next
  BY <1>1, <1>5, LoseRange DEF ReleaseLive
<1>7. Owner("range", live[i].range, BlockOf(live[i])) \in Owned
  BY <1>1, OwnedMembers
<1> QED BY <1>1, <1>3, <1>6, <1>7

\* freeDeadRanges frees a dead range, or is done.
LEMMA SweepStep ==
  ASSUME Good, Sweep
  PROVE  Good' /\ PStep
<1>1. /\ UNCHANGED <<reserved, call, todo, pending, temp, candidates, newAddr, spilled, ret, before>>
      /\ pc = "sweep" /\ newAddr = None /\ candidates = <<>> /\ pending = <<>>
      /\ UNCHANGED PlacedBlock
  <2>1. /\ UNCHANGED <<reserved, call, todo, pending, temp, candidates, newAddr, spilled, ret, before>>
        /\ pc = "sweep" /\ newAddr = None /\ candidates = <<>> /\ pending = <<>>
    BY DEF Sweep, Good, ScanInv, PlacesOK
  <2> QED BY <2>1, NothingPlaced
<1>2. FixedOK'
  <2>1. pc' # "process"
    BY <1>1 DEF Sweep
  <2> QED BY <1>1, <2>1 DEF Good, ScanInv, FixedOK
<1>3. CandidatesApart'
  BY <1>1, EmptyFacts DEF CandidatesApart
<1>4. CallInv'
  BY <1>1 DEF Sweep, CallInv, InCall
<1> DEFINE found == {i \in DOMAIN live : live[i].range \in dead}
<1>5. ASSUME found # {}, ReleaseLive(Max(found)), UNCHANGED <<pc, dead>>
      PROVE  Good' /\ PStep
  <2>1. Max(found) \in DOMAIN live
    <3>1. live \in Seq(Placed)
      BY DEF Good, ScanInv, TypesOK
    <3>2. DOMAIN live = 1 .. Len(live) /\ Len(live) \in Nat
      BY <3>1, LenProperties
    <3>3. found \subseteq 1 .. Len(live)
      BY <3>2
    <3> HIDE DEF found
    <3>4. Max(found) \in found
      BY <1>5, <3>2, <3>3, MaxOfIndexes
    <3> QED BY <3>2, <3>3, <3>4
  <2> HIDE DEF found
  <2> DEFINE i == Max(found)
  <2>2. /\ live' \in Seq(Placed) /\ IsInjective(live') /\ ToSet(live') = ToSet(live) \ {live[i]}
        /\ TypesOK' => Owns(gaps', Owned') /\ P!Next
    BY <1>1, <1>5, <2>1, ReleaseLiveFacts
  <2> HIDE DEF i
  <2>3. TypesOK'
    BY <1>1, <1>5, <2>2 DEF Good, ScanInv, TypesOK
  <2>4. PlacesOK'
    BY <1>1, <1>5 DEF Good, ScanInv, PlacesOK, InCall
  <2>5. RangesOnce'
    BY <1>1, <2>2 DEF Good, ScanInv, RangesOnce, Known
  <2> QED BY <1>2, <1>3, <1>4, <2>4, <2>5, <2>2, <2>3 DEF Good, ScanInv, PStep
<1>6. ASSUME pc' = "idle", dead' = {}, UNCHANGED <<gaps, live>>
      PROVE  Good' /\ PStep
  <2>1. Owned' = Owned /\ Held' = Held
    BY <1>1, <1>6, SameMemory
  <2>2. TypesOK'
    BY <1>1, <1>6 DEF Good, ScanInv, TypesOK, Places
  <2>3. PlacesOK'
    BY <1>1, <1>6 DEF Good, ScanInv, PlacesOK, InCall
  <2>4. RangesOnce'
    BY <1>1, <1>6 DEF Good, ScanInv, RangesOnce, Known
  <2> QED BY <1>2, <1>3, <1>4, <1>6, <2>1, <2>2, <2>3, <2>4 DEF Good, ScanInv, PStep
<1> QED BY <1>5, <1>6 DEF Sweep

\* A live range becomes a candidate for spilling.
LEMMA GetSpillCandidateStep ==
  ASSUME Good, GetSpillCandidate
  PROVE  Good' /\ PStep
<1> DEFINE i == SpillCandidate
           c == live[i]
           o == Owner("range", c.range, BlockOf(c))
<1>1. /\ UNCHANGED <<pc, reserved, dead, call, todo, pending, temp, newAddr, spilled, ret, before>>
      /\ pc = "place" /\ newAddr = None /\ ~call.test /\ todo # <<>> /\ call.spills /\ live # <<>>
      /\ candidates' = Append(candidates, c) /\ ReleaseLive(i)
      /\ UNCHANGED PlacedBlock
  <2>1. /\ UNCHANGED <<pc, reserved, dead, call, todo, pending, temp, newAddr, spilled, ret, before>>
        /\ pc = "place" /\ newAddr = None /\ ~call.test /\ todo # <<>> /\ call.spills /\ live # <<>>
        /\ candidates' = Append(candidates, c) /\ ReleaseLive(i)
    BY DEF GetSpillCandidate, Placing, Good, ScanInv, PlacesOK
  <2> QED BY <2>1, NothingPlaced
<1>2. i \in DOMAIN live
  BY <1>1, SpillCandidateIsLive DEF Good, ScanInv
<1> HIDE DEF i
<1>3. /\ c \in ToSet(live) /\ c \in Placed
      /\ live' \in Seq(Placed) /\ IsInjective(live') /\ ToSet(live') = ToSet(live) \ {c}
      /\ o \in Owned
      /\ TypesOK' => Owned' = Owned \ {o} /\ Owns(gaps', Owned') /\ P!Next
  BY <1>1, <1>2, ReleaseLiveFacts
<1> HIDE DEF c
<1>4. candidates \in Seq(Placed) /\ c \notin ToSet(candidates) /\ IsInjective(candidates)
  BY <1>3 DEF Good, ScanInv, TypesOK, RangesOnce
<1>5. /\ candidates' \in Seq(Placed) /\ ToSet(candidates') = ToSet(candidates) \cup {c}
      /\ IsInjective(candidates')
  BY <1>1, <1>3, <1>4, AppendFacts
<1>6. TypesOK'
  BY <1>1, <1>3, <1>5 DEF Good, ScanInv, TypesOK
<1>7. Owned' = Owned \ {o} /\ Owns(gaps', Owned') /\ P!Next
  BY <1>3, <1>6
<1>8. PlacesOK'
  BY <1>1 DEF Good, ScanInv, PlacesOK, InCall
<1>9. RangesOnce'
  BY <1>1, <1>3, <1>5 DEF Good, ScanInv, RangesOnce, Known
<1>10. FixedOK'
  BY <1>1 DEF Good, ScanInv, FixedOK
<1>11. CandidatesApart'
  <2>1. o.block = BlockOf(c) /\ o.by # "placing" /\ InMemory(BlockOf(c))
    <3>1. o.block = BlockOf(c) /\ o.by = "range"
      BY OwnerFacts
    <3> HIDE DEF o
    <3> QED BY <1>3, <3>1 DEF Good, ScanInv, Owns
  <2>2. \A d \in ToSet(candidates) : Apart(BlockOf(d), BlockOf(c)) /\ Apart(BlockOf(c), BlockOf(d))
    <3>1. \A d \in ToSet(candidates) : Apart(BlockOf(d), BlockOf(c)) /\ BlockOf(d) \in BlockRec
      BY <1>3, <2>1 DEF Good, ScanInv, CandidatesApart, InMemory
    <3> QED BY <2>1, <3>1, ApartFacts DEF InMemory
  <2>3. \A q \in Owned' : Apart(BlockOf(c), q.block)
    BY <1>3, <1>7, <2>1 DEF Good, ScanInv, Owns
  <2> HIDE DEF o
  <2>4. \A q \in Owned' : q \in Owned
    BY <1>7
  <2> QED BY <1>5, <2>1, <2>2, <2>3, <2>4 DEF Good, ScanInv, CandidatesApart
<1>12. CallInv'
  <2>1. ReservedOwners' = ReservedOwners
    BY <1>1 DEF ReservedOwners
  <2>2. InCall /\ Undecided /\ ~SpillsNothing'
    BY <1>1 DEF InCall, Undecided, SpillsNothing
  <2> QED BY <1>1, <1>3, <1>5, <2>1, <2>2 DEF CallInv, Good
<1> QED BY <1>6, <1>7, <1>8, <1>9, <1>10, <1>11, <1>12 DEF Good, ScanInv, PStep

\* When nothing can be spilled, the call fails.
LEMMA GiveUpStep ==
  ASSUME Good, GiveUp
  PROVE  Good' /\ PStep
<1>1. /\ UNCHANGED <<reserved, gaps, live, dead, call, todo, pending, temp, newAddr, spilled, before>>
      /\ pc = "place" /\ ~call.test /\ pc' = "rollback" /\ candidates' = <<>> /\ ret' = FALSE
      /\ newAddr = None /\ <<>> \in Seq(Placed)
  BY EmptySeq DEF GiveUp, Fail, Placing, scanVars, Good, ScanInv, PlacesOK
<1>2. Owned' = Owned /\ Held' = Held /\ ReservedOwners' = ReservedOwners
  BY <1>1, SameMemory
<1>3. TypesOK'
  BY <1>1 DEF Good, ScanInv, TypesOK, Places
<1>4. PlacesOK'
  BY <1>1 DEF Good, ScanInv, PlacesOK, InCall
<1>5. RangesOnce'
  BY <1>1, EmptyFacts DEF Good, ScanInv, RangesOnce, Known
<1>6. FixedOK'
  BY <1>1 DEF Good, ScanInv, FixedOK
<1>7. CandidatesApart'
  BY <1>1, EmptyFacts DEF CandidatesApart
<1>8. CallInv'
  BY <1>1, <1>2 DEF Good, CallInv, InCall, Undecided, SpillsNothing
<1> QED BY <1>1, <1>2, <1>3, <1>4, <1>5, <1>6, <1>7, <1>8 DEF Good, ScanInv, PStep

\* A step that keeps one more block until the call returns.
LEMMA OwnsTemp ==
  ASSUME TypesOK, NEW b \in BlockRec, temp' = Append(temp, b), UNCHANGED <<reserved, live, pending, PlacedBlock>>
  PROVE  /\ temp' \in Seq(BlockRec) /\ ToSet(temp') = ToSet(temp) \cup {b}
         /\ Owned' = Owned \cup {Owner("temp", None, b)}
<1> DEFINE o == Owner("temp", None, b)
<1>1. temp' \in Seq(BlockRec) /\ ToSet(temp') = ToSet(temp) \cup {b}
  BY AppendFacts DEF TypesOK
<1>2. Owned' = {Owner("reserved", None, c) : c \in ToSet(reserved)}
               \cup {Owner("temp", None, c) : c \in ToSet(temp')}
               \cup {Owner("placing", None, c) : c \in PlacedBlock}
               \cup {Owner("range", p.range, BlockOf(p)) : p \in ToSet(live) \cup ToSet(pending)}
  <2>1. ToSet(reserved') = ToSet(reserved) /\ ToSet(live') = ToSet(live) /\ ToSet(pending') = ToSet(pending)
    OBVIOUS
  <2> QED BY <2>1 DEF Owned, ReservedOwners, RangeOwners
<1>3. \A x : x \in Owned' <=> x \in Owned \/ x = o
  BY <1>1, <1>2, OwnedMembers
<1> QED BY <1>1, <1>3

\* A call that takes memory it does not place a range in.
LEMMA TempStep ==
  ASSUME Good, pc \in {"keep", "place"}, call.test \/ (pc = "keep" /\ todo' = todo),
         UNCHANGED <<reserved, live, dead, call, pending, candidates, newAddr, spilled, before>>,
         todo' \in Seq(Ranges), IsInjective(todo'), ToSet(todo') \subseteq ToSet(todo),
         NEW o, o = Owner("temp", None, o.block),
         \/ /\ pc' = "place" /\ UNCHANGED ret
            /\ temp' = Append(temp, o.block) /\ o.block \in BlockRec
            /\ TypesOK' /\ Owned' = Owned \cup {o} =>
                 /\ Owns(gaps', Owned') /\ P!Next
                 /\ \A q \in Owned : Apart(o.block, q.block)
         \/ pc' = "restore" /\ ret' \in BOOLEAN /\ (ret' = TRUE => call.test) /\ UNCHANGED <<gaps, temp>>
  PROVE  Good' /\ PStep
<1>1. /\ pending = <<>> /\ candidates = <<>> /\ newAddr = None
      /\ ToSet(pending') = ToSet(pending) /\ pending' = <<>> /\ candidates' = <<>>
  BY DEF Good, ScanInv, PlacesOK
<1>2. UNCHANGED PlacedBlock /\ ReservedOwners' = ReservedOwners
  BY <1>1, NothingPlaced DEF ReservedOwners
<1>3. PlacesOK'
  BY <1>1 DEF Good, ScanInv, PlacesOK, InCall
<1>4. FixedOK'
  BY <1>1 DEF Good, ScanInv, FixedOK
<1>5. CandidatesApart'
  BY <1>1, EmptyFacts DEF CandidatesApart
<1>6. CallInv'
  <2>1. InCall /\ Undecided
    BY DEF InCall, Undecided
  <2>2. SpillsNothing' = SpillsNothing
    BY DEF SpillsNothing
  <2> QED BY <1>1, <1>2, <2>1, <2>2 DEF Good, CallInv, Undecided, SpillsNothing
<1>7. ASSUME pc' = "place", UNCHANGED ret, temp' = Append(temp, o.block), o.block \in BlockRec,
             TypesOK' /\ Owned' = Owned \cup {o} =>
               /\ Owns(gaps', Owned') /\ P!Next
               /\ \A q \in Owned : Apart(o.block, q.block)
      PROVE  Good' /\ PStep
  <2>1. temp' \in Seq(BlockRec) /\ ToSet(temp') = ToSet(temp) \cup {o.block} /\ Owned' = Owned \cup {o}
    BY <1>2, <1>7, OwnsTemp DEF Good, ScanInv
  <2>2. TypesOK'
    BY <1>7, <2>1 DEF Good, ScanInv, TypesOK, Places
  <2>3. Owns(gaps', Owned') /\ P!Next /\ \A q \in Owned : Apart(o.block, q.block)
    BY <1>7, <2>1, <2>2
  <2>4. o.block \notin ToSet(temp)
    <3> SUFFICES ASSUME o.block \in ToSet(temp) PROVE FALSE
      OBVIOUS
    <3>1. Owner("temp", None, o.block) \in Owned
      BY OwnedMembers
    <3>2. Apart(o.block, o.block)
      BY <2>3, <3>1, OwnerFacts
    <3> QED BY <1>7, <3>2, ApartFacts
  <2>5. IsInjective(temp')
    BY <1>7, <2>4, AppendFacts DEF Good, ScanInv, TypesOK, RangesOnce
  <2>6. RangesOnce'
    BY <2>5 DEF Good, ScanInv, RangesOnce, Known
  <2> QED BY <1>3, <1>4, <1>5, <1>6, <2>2, <2>3, <2>6 DEF Good, ScanInv, PStep
<1>8. ASSUME pc' = "restore", ret' \in BOOLEAN, UNCHANGED <<gaps, temp>>
      PROVE  Good' /\ PStep
  <2>1. Owned' = Owned /\ Held' = Held
    BY <1>2, <1>8, SameOwned
  <2>2. TypesOK'
    BY <1>8 DEF Good, ScanInv, TypesOK, Places
  <2>3. RangesOnce'
    BY <1>8 DEF Good, ScanInv, RangesOnce, Known
  <2> QED BY <1>3, <1>4, <1>5, <1>6, <1>8, <2>1, <2>2, <2>3 DEF Good, ScanInv, PStep
<1> QED BY <1>7, <1>8

\* Partitioner::alloc for memory that is freed when the call returns.
LEMMA AllocTempStep ==
  ASSUME Good, pc \in {"keep", "place"}, call.test \/ (pc = "keep" /\ todo' = todo),
         NEW size \in PSizes, NEW alignment \in PAlignments, AllocTemp(size, alignment),
         UNCHANGED <<reserved, live, dead, call, pending, candidates, newAddr, spilled, before>>,
         todo' \in Seq(Ranges), IsInjective(todo'), ToSet(todo') \subseteq ToSet(todo)
  PROVE  Good' /\ PStep
<1> DEFINE i == ChooseMinimalGap(gaps, size, alignment, call.dir)
           addr == GetAddrFromGap(gaps[i], size, alignment, call.dir)
           o == Owner("temp", None, Block(addr, size))
<1>1. \/ /\ i # 0 /\ pc' = "place" /\ UNCHANGED ret
         /\ gaps' = UseGap(gaps, i, addr, size) /\ temp' = Append(temp, Block(addr, size))
      \/ ret' = FALSE /\ pc' = "restore" /\ UNCHANGED <<gaps, temp>>
  BY DEF AllocTemp, AllocFrom, AddrIn
<1>2. o.block = Block(addr, size) /\ o = Owner("temp", None, o.block)
  BY OwnerFacts
<1>3. call.dir \in Directions
  BY DEF Good, ScanInv, TypesOK
<1>4. CASE i # 0 /\ pc' = "place" /\ UNCHANGED ret /\ gaps' = UseGap(gaps, i, addr, size)
           /\ temp' = Append(temp, Block(addr, size))
  <2> HIDE DEF i
  <2>1. addr \in Nat /\ size \in Nat \ {0}
    <3>1. size \in Nat \ {0} /\ alignment \in Nat \ {0} /\ TotalSize \in Nat /\ IsGapList(gaps, TotalSize)
      BY PSizesPositive, MemoryAssumption DEF Good, ScanInv, Owns
    <3>2. i \in DOMAIN gaps /\ addr # InvalidAddress
      BY <1>4, <3>1, ChosenGapFits DEF Fits, i
    <3>3. gaps[i] \in GapRec
      BY <3>1, <3>2, GapListFacts
    <3> QED BY <3>1, <3>2, <3>3, AddrFromGap
  <2> HIDE DEF addr
  <2>2. o.block \in BlockRec
    BY <1>2, <2>1 DEF Block, BlockRec
  <2> HIDE DEF o
  <2>3. TypesOK' /\ Owned' = Owned \cup {o} =>
          Owns(gaps', Owned') /\ P!Next /\ \A q \in Owned : Apart(o.block, q.block)
    BY <1>2, <1>3, <1>4, AllocStep DEF i, addr, Good, ScanInv
  <2> QED BY <1>2, <1>4, <2>2, <2>3, TempStep
<1>5. CASE ret' = FALSE /\ pc' = "restore" /\ UNCHANGED <<gaps, temp>>
  <2> HIDE DEF o
  <2>1. ret' \in BOOLEAN /\ (ret' = TRUE => call.test)
    BY <1>5
  <2> QED BY <1>2, <1>5, <2>1, TempStep
<1> QED BY <1>1, <1>4, <1>5

\* The memory that is to be kept is reserved, or the free region is taken.
LEMMA KeepStep ==
  ASSUME Good, Keep
  PROVE  Good' /\ PStep
<1>1. /\ UNCHANGED <<reserved, live, dead, call, todo, pending, candidates, newAddr, spilled, before>>
      /\ pc = "keep" /\ call.keep \in Keeps /\ call.keep # None
  BY DEF Keep, Good, ScanInv, TypesOK, PlacesOK
<1>2. todo' \in Seq(Ranges) /\ IsInjective(todo') /\ ToSet(todo') \subseteq ToSet(todo) /\ todo' = todo
  BY <1>1 DEF Good, ScanInv, TypesOK, RangesOnce
<1>3. CASE call.keep.kind = "space" /\ AllocTemp(call.keep.space.size, call.keep.space.alignment)
  <2>1. call.keep.space \in ReservedSpaces
    BY <1>1, <1>3 DEF Keeps
  <2>2. call.keep.space.size \in PSizes /\ call.keep.space.alignment \in PAlignments
    BY <2>1 DEF PSizes, PAlignments
  <2> QED BY <1>1, <1>2, <1>3, <2>2, AllocTempStep
<1>4. CASE /\ call.keep.kind = "region" /\ pc' = "place" /\ UNCHANGED ret
           /\ gaps' = AllocFixedFrom(gaps, call.keep.block.addr, call.keep.block.size)
           /\ temp' = Append(temp, call.keep.block)
  <2> DEFINE b == call.keep.block
             o == Owner("temp", None, b)
  <2>1. b \in Regions /\ IsFreeBlock(b)
    BY <1>1, <1>4 DEF Keeps, Good, ScanInv, PlacesOK
  <2> HIDE DEF b
  <2>2. b \in BlockRec /\ b.size \in PSizes
    BY <2>1, BlocksAssumption DEF BlockRec, PSizes
  <2>3. PICK k \in DOMAIN gaps : gaps[k].begin <= b.addr /\ b.addr + b.size <= gaps[k].end
    BY <2>1 DEF IsFreeBlock
  <2>4. o.block = b /\ o = Owner("temp", None, o.block)
    BY OwnerFacts
  <2> HIDE DEF o
  <2>5. InMemory(b) /\ \A q \in Owned : Apart(b, q.block)
    BY <2>2, <2>3, <2>4, OwnsTake DEF Good, ScanInv
  <2>6. gaps' = AllocFixedFrom(gaps, o.block.addr, o.block.size)
    BY <1>4, <2>4 DEF b
  <2>7. temp' = Append(temp, o.block)
    BY <1>4, <2>4 DEF b
  <2>8. TypesOK' /\ Owned' = Owned \cup {o} =>
          Owns(gaps', Owned') /\ P!Next /\ \A q \in Owned : Apart(o.block, q.block)
    BY <2>2, <2>4, <2>5, <2>6, FixedStep DEF Good, ScanInv
  <2> QED BY <1>1, <1>2, <1>4, <2>2, <2>4, <2>7, <2>8, TempStep
<1> QED BY <1>3, <1>4 DEF Keep

\* canAlloc and its variants try each range.
LEMMA TestStep ==
  ASSUME Good, Test
  PROVE  Good' /\ PStep
<1>1. /\ UNCHANGED <<reserved, live, dead, call, pending, candidates, newAddr, spilled, before>>
      /\ pc = "place" /\ call.test
      /\ todo \in Seq(Ranges) /\ IsInjective(todo)
  BY DEF Test, Good, ScanInv, TypesOK, RangesOnce
<1>2. CASE todo # <<>> /\ AllocTemp(Size[Head(todo)], Alignment[Head(todo)]) /\ todo' = Tail(todo)
  <2>1. Head(todo) \in Ranges
    BY <1>1, <1>2, HeadTailProperties
  <2>2. Size[Head(todo)] \in PSizes /\ Alignment[Head(todo)] \in PAlignments
    BY <2>1 DEF PSizes, PAlignments
  <2>3. todo' \in Seq(Ranges) /\ IsInjective(todo') /\ ToSet(todo') \subseteq ToSet(todo)
    BY <1>1, <1>2, WithoutFirst DEF Without
  <2> QED BY <1>1, <1>2, <2>2, <2>3, AllocTempStep
<1>3. CASE todo = <<>> /\ ret' = TRUE /\ pc' = "restore" /\ UNCHANGED <<gaps, temp, todo>>
  <2> DEFINE o == Owner("temp", None, None)
  <2>1. o = Owner("temp", None, o.block)
    BY OwnerFacts
  <2> HIDE DEF o
  <2>2. todo' \in Seq(Ranges) /\ IsInjective(todo') /\ ToSet(todo') \subseteq ToSet(todo)
    BY <1>1, <1>3
  <2> QED BY <1>1, <1>3, <2>1, <2>2, TempStep
<1> QED BY <1>2, <1>3 DEF Test

\* A step that frees memory which was kept until the end of the call.
LEMMA LoseTemp ==
  ASSUME Good, TypesOK', UNCHANGED <<reserved, live, pending, PlacedBlock>>,
         NEW b \in ToSet(temp), ToSet(temp') = ToSet(temp) \ {b}, gaps' = FreeInto(gaps, b.addr, b.size)
  PROVE  Owns(gaps', Owned') /\ P!Next
<1> DEFINE o == Owner("temp", None, b)
<1>1. o \in Owned /\ o.block = b
  BY OwnedMembers, OwnerFacts
<1>2. Owned' = {Owner("reserved", None, c) : c \in ToSet(reserved)}
               \cup {Owner("temp", None, c) : c \in ToSet(temp')}
               \cup {Owner("placing", None, c) : c \in PlacedBlock}
               \cup {Owner("range", p.range, BlockOf(p)) : p \in ToSet(live) \cup ToSet(pending)}
  <2>1. ToSet(reserved') = ToSet(reserved) /\ ToSet(live') = ToSet(live) /\ ToSet(pending') = ToSet(pending)
    OBVIOUS
  <2> QED BY <2>1 DEF Owned, ReservedOwners, RangeOwners
<1>3. /\ \A c : Owner("reserved", None, c) # o /\ Owner("placing", None, c) # o
      /\ \A p : Owner("range", p.range, BlockOf(p)) # o
      /\ \A c : c # b => Owner("temp", None, c) # o
  <2>1. /\ o.by = "temp" /\ o.block = b
        /\ \A c : /\ Owner("reserved", None, c).by = "reserved" /\ Owner("placing", None, c).by = "placing"
                  /\ Owner("temp", None, c).block = c
        /\ \A p : Owner("range", p.range, BlockOf(p)).by = "range"
    BY OwnerFacts
  <2>2. "temp" # "reserved" /\ "temp" # "placing" /\ "temp" # "range"
    OBVIOUS
  <2> QED BY <2>1, <2>2
<1> HIDE DEF o
<1>4. \A x : x \in Owned' <=> x \in Owned /\ x # o
  <2>1. ASSUME NEW x \in Owned' PROVE x \in Owned /\ x # o
    BY <1>2, <1>3, OwnedMembers
  <2>2. ASSUME NEW x \in Owned, x # o PROVE x \in Owned'
    <3>1. CASE \E c \in ToSet(temp) : x = Owner("temp", None, c)
      BY <1>2, <2>2, <3>1 DEF o
    <3>2. CASE ~\E c \in ToSet(temp) : x = Owner("temp", None, c)
      BY <1>2, <2>2, <3>2, OwnedMembers
    <3> QED BY <3>1, <3>2
  <2> QED BY <2>1, <2>2
<1>5. Owned' = Owned \ {o}
  BY <1>4
<1> QED BY <1>1, <1>5, FreeStep DEF Good, ScanInv

\* The end of a call.
LEMMA RestoreStep ==
  ASSUME Good, Restore
  PROVE  Good' /\ PStep
<1>1. /\ UNCHANGED <<reserved, live, dead, call, todo, pending, candidates, newAddr, spilled, ret, before>>
      /\ pc = "restore" /\ pending = <<>> /\ candidates = <<>>
      /\ temp \in Seq(BlockRec) /\ IsInjective(temp)
  BY DEF Restore, Good, ScanInv, PlacesOK, TypesOK, RangesOnce
<1>2. /\ NewRange' = NewRange /\ PlacedBlock' = PlacedBlock /\ ReservedOwners' = ReservedOwners
  <2>1. NewRange' = NewRange
    BY <1>1 DEF NewRange, NewIndex
  <2> QED BY <1>1, <2>1 DEF PlacedBlock, ReservedOwners
<1>3. pc' \in {"restore", "returned"} /\ (pc' = "returned" => temp' = <<>>)
      /\ (temp = <<>> => temp' = <<>>)
  BY <1>1 DEF Restore
<1>4. PlacesOK'
  BY <1>1, <1>3 DEF Good, ScanInv, PlacesOK, InCall
<1>5. FixedOK'
  BY <1>1, <1>3 DEF Good, ScanInv, FixedOK
<1>6. CandidatesApart'
  BY <1>1, EmptyFacts DEF CandidatesApart
<1>7. CallInv'
  BY <1>1, <1>2, <1>3 DEF Good, CallInv, InCall, Undecided, SpillsNothing
<1>8. CASE temp # <<>> /\ gaps' = FreeInto(gaps, Head(temp).addr, Head(temp).size) /\ temp' = Tail(temp)
           /\ UNCHANGED pc
  <2>1. Without(temp', temp, 1, BlockRec) /\ Head(temp) = temp[1] /\ 1 \in 1 .. Len(temp)
    BY <1>1, <1>8, WithoutFirst
  <2>2. temp' \in Seq(BlockRec) /\ IsInjective(temp') /\ ToSet(temp') = ToSet(temp) \ {Head(temp)}
    BY <2>1 DEF Without
  <2>3. Head(temp) \in ToSet(temp)
    BY <1>1, <2>1, LenProperties DEF ToSet
  <2>4. TypesOK'
    BY <1>1, <1>8, <2>2 DEF Good, ScanInv, TypesOK
  <2>5. RangesOnce'
    BY <1>1, <2>2 DEF Good, ScanInv, RangesOnce, Known
  <2>6. Owns(gaps', Owned') /\ P!Next
    BY <1>1, <1>2, <1>8, <2>2, <2>3, <2>4, LoseTemp
  <2> QED BY <1>4, <1>5, <1>6, <1>7, <2>4, <2>5, <2>6 DEF Good, ScanInv, PStep
<1>9. CASE temp = <<>> /\ pc' = "returned" /\ UNCHANGED <<gaps, temp>>
  <2>1. TypesOK'
    BY <1>1, <1>9 DEF Good, ScanInv, TypesOK, Places
  <2>2. RangesOnce'
    BY <1>1, <1>9 DEF Good, ScanInv, RangesOnce, Known
  <2>3. Owned' = Owned /\ Held' = Held
    BY <1>1, <1>9, SameMemory
  <2> QED BY <1>4, <1>5, <1>6, <1>7, <1>9, <2>1, <2>2, <2>3 DEF Good, ScanInv, PStep
<1> QED BY <1>8, <1>9 DEF Restore

\* ~AllocationGuard frees what the call has placed.
LEMMA RollbackStep ==
  ASSUME Good, Rollback
  PROVE  Good' /\ PStep
<1>1. /\ UNCHANGED <<reserved, live, dead, call, todo, temp, candidates, newAddr, spilled, ret, before>>
      /\ pc = "rollback" /\ candidates = <<>> /\ ~call.test /\ ret = FALSE
      /\ pending \in Seq(Placed) /\ IsInjective(pending)
  BY DEF Rollback, Good, ScanInv, PlacesOK, TypesOK, RangesOnce
<1>2. /\ NewRange' = NewRange /\ PlacedBlock' = PlacedBlock /\ ReservedOwners' = ReservedOwners
  <2>1. NewRange' = NewRange
    BY <1>1 DEF NewRange, NewIndex
  <2> QED BY <1>1, <2>1 DEF PlacedBlock, ReservedOwners
<1>3. pc' \in {"rollback", "restore"} /\ (pc' = "restore" => pending' = <<>>)
  BY <1>1 DEF Rollback
<1>4. PlacesOK'
  BY <1>1, <1>3 DEF Good, ScanInv, PlacesOK, InCall
<1>5. CandidatesApart'
  BY <1>1, EmptyFacts DEF CandidatesApart
<1>6. CallInv'
  BY <1>1, <1>2, <1>3 DEF Good, CallInv, InCall, Undecided, SpillsNothing
<1>7. CASE pending # <<>> /\ gaps' = FreeInto(gaps, Head(pending).addr, Size[Head(pending).range])
           /\ pending' = Tail(pending) /\ UNCHANGED pc
  <2> DEFINE p == Head(pending)
  <2>1. Without(pending', pending, 1, Placed) /\ p = pending[1] /\ 1 \in 1 .. Len(pending)
    BY <1>1, <1>7, WithoutFirst
  <2>2. pending' \in Seq(Placed) /\ IsInjective(pending') /\ ToSet(pending') = ToSet(pending) \ {p}
    BY <2>1 DEF Without
  <2>3. p \in ToSet(pending)
    BY <1>1, <2>1, LenProperties DEF ToSet
  <2> HIDE DEF p
  <2>4. TypesOK'
    BY <1>1, <1>7, <2>2 DEF Good, ScanInv, TypesOK
  <2>5. RangesOnce'
    BY <1>1, <2>2 DEF Good, ScanInv, RangesOnce, Known
  <2>6. FixedOK'
    BY <1>1, <1>3, <2>2 DEF Good, ScanInv, FixedOK
  <2>7. ToSet(live') \cup ToSet(pending') = (ToSet(live) \cup ToSet(pending)) \ {p}
    <3>1. ToSet(live) \cap ToSet(pending) = {} /\ ToSet(live') = ToSet(live)
      BY <1>1 DEF Good, ScanInv, RangesOnce
    <3> QED BY <2>2, <2>3, <3>1
  <2>8. gaps' = FreeInto(gaps, p.addr, Size[p.range])
    BY <1>7 DEF p
  <2>9. Owns(gaps', Owned') /\ P!Next
    BY <1>1, <1>2, <2>3, <2>4, <2>7, <2>8, LoseRange
  <2> QED BY <1>4, <1>5, <1>6, <2>4, <2>5, <2>6, <2>9 DEF Good, ScanInv, PStep
<1>8. CASE pending = <<>> /\ pc' = "restore" /\ UNCHANGED <<gaps, pending>>
  <2>1. TypesOK'
    BY <1>1, <1>8 DEF Good, ScanInv, TypesOK, Places
  <2>2. RangesOnce'
    BY <1>1, <1>8 DEF Good, ScanInv, RangesOnce, Known
  <2>3. FixedOK'
    BY <1>1, <1>8 DEF Good, ScanInv, FixedOK
  <2>4. Owned' = Owned /\ Held' = Held
    BY <1>1, <1>8, SameMemory
  <2> QED BY <1>4, <1>5, <1>6, <1>8, <2>1, <2>2, <2>3, <2>4 DEF Good, ScanInv, PStep
<1> QED BY <1>7, <1>8 DEF Rollback

\* The placed ranges become live.
LEMMA CommitStep ==
  ASSUME Good, Commit
  PROVE  Good' /\ PStep
<1>1. /\ UNCHANGED <<gaps, reserved, dead, call, todo, temp, candidates, newAddr, spilled, before>>
      /\ pc = "place" /\ pc' = "restore" /\ ~call.test /\ todo = <<>>
      /\ live' = live \o pending /\ pending' = <<>> /\ ret' = TRUE
      /\ candidates = <<>> /\ newAddr = None /\ <<>> \in Seq(Placed)
  BY EmptySeq DEF Commit, Good, ScanInv, PlacesOK
<1>2. /\ live \in Seq(Placed) /\ pending \in Seq(Placed)
      /\ IsInjective(live) /\ IsInjective(pending) /\ ToSet(live) \cap ToSet(pending) = {}
  BY DEF Good, ScanInv, TypesOK, RangesOnce
<1>3. live' \in Seq(Placed) /\ ToSet(live') = ToSet(live) \cup ToSet(pending) /\ IsInjective(live')
  BY <1>1, <1>2, ConcatFacts
<1>4. ToSet(pending') = {} /\ IsInjective(pending') /\ ToSet(candidates) = {} /\ ToSet(todo) = {}
      /\ UNCHANGED PlacedBlock
  BY <1>1, EmptyFacts, NothingPlaced
<1>5. TypesOK'
  BY <1>1, <1>3 DEF Good, ScanInv, TypesOK, Places
<1>6. PlacesOK'
  BY <1>1 DEF Good, ScanInv, PlacesOK, InCall
<1>7. RangesOnce'
  BY <1>1, <1>3, <1>4 DEF Good, ScanInv, RangesOnce, Known
<1>8. FixedOK'
  BY <1>1, <1>4 DEF FixedOK
<1>9. CandidatesApart'
  BY <1>1, <1>4 DEF CandidatesApart
<1>10. Owned' = Owned
  <2>1. \A o : o \in Owned' <=> o \in Owned
    BY <1>1, <1>3, <1>4, OwnedByRanges, OwnedMembers
  <2> QED BY <2>1
<1>11. Held' = Held
  BY <1>5, <1>10, HeldIsOwned, HeldIsOwnedNext DEF Good, ScanInv
<1>12. CallInv'
  <2>1. ReservedOwners' = ReservedOwners /\ InCall /\ Undecided
    BY <1>1 DEF ReservedOwners, InCall, Undecided
  <2> QED BY <1>1, <1>3, <1>4, <2>1 DEF Good, CallInv, InCall, Undecided, SpillsNothing
<1> QED BY <1>1, <1>5, <1>6, <1>7, <1>8, <1>9, <1>10, <1>11, <1>12 DEF Good, ScanInv, PStep

\* An address for the range to be placed.
LEMMA FindAddressStep ==
  ASSUME Good, FindAddress
  PROVE  Good' /\ PStep
<1>1. /\ UNCHANGED <<reserved, live, dead, call, todo, pending, temp, candidates, spilled, ret, before>>
      /\ pc = "place" /\ pc' = "process" /\ ~call.test /\ todo # <<>> /\ newAddr = None /\ HasRoom
  BY DEF FindAddress, Placing, Good, ScanInv, PlacesOK
<1>2. NewRange' = NewRange /\ ReservedOwners' = ReservedOwners
  BY <1>1 DEF NewRange, NewIndex, ReservedOwners
<1>3. NewRange \in Ranges /\ PlacedBlock = {}
  BY <1>1, NewRangeFacts, NothingPlaced DEF Good, ScanInv
<1>4. RangesOnce'
  BY <1>1 DEF Good, ScanInv, RangesOnce, Known
<1>5. CallInv'
  <2>1. InCall /\ Undecided
    BY <1>1 DEF InCall, Undecided
  <2> QED BY <1>1, <1>2, <2>1 DEF Good, CallInv, InCall, Undecided, SpillsNothing
<1>6. ASSUME newAddr' \in Nat PROVE TypesOK' /\ PlacesOK' /\ newAddr' # None
  <2>1. newAddr' # None
    BY <1>6, MemoryAssumption
  <2>2. TypesOK'
    BY <1>1, <1>6 DEF Good, ScanInv, TypesOK, Places
  <2>3. PlacesOK'
    BY <1>1, <2>1 DEF Good, ScanInv, PlacesOK, InCall
  <2> QED BY <2>1, <2>2, <2>3
<1>7. CASE IsFixedAlloc(NewRange) /\ newAddr' = FixedAddr[NewRange] /\ UNCHANGED gaps
  <2>1. FixedBlock(NewRange) \in BlockRec /\ newAddr' \in Nat
    BY <1>3, <1>7, FixedBlockInMemory, RangesAssumption
  <2>2. PlacedBlock' = PlacedBlock
    BY <1>2, <1>3, <1>7 DEF PlacedBlock, IsFixedAlloc
  <2>3. Owned' = Owned /\ Held' = Held
    BY <1>1, <2>2, SameOwned
  <2>4. ASSUME NEW p \in ToSet(live) PROVE Apart(FixedBlock(NewRange), BlockOf(p))
    <3>1. PICK i \in DOMAIN live : p = live[i]
      BY DEF ToSet
    <3>2. ~Intersects(FixedAddr[NewRange], Size[NewRange], p.addr, Size[p.range])
      BY <1>1, <1>7, <3>1 DEF HasRoom
    <3>3. Owner("range", p.range, BlockOf(p)) \in Owned
      BY OwnedMembers
    <3>4. BlockOf(p) \in BlockRec
      BY <3>3, OwnerFacts DEF Good, ScanInv, Owns, InMemory
    <3> QED BY <2>1, <3>2, <3>4, ApartFacts DEF FixedBlock, BlockOf, Block
  <2>5. FixedOK'
    BY <1>1, <1>2, <1>7, <2>4 DEF Good, ScanInv, FixedOK
  <2>6. CandidatesApart'
    BY <1>1, <2>3 DEF Good, ScanInv, CandidatesApart
  <2> QED BY <1>4, <1>5, <1>6, <1>7, <2>1, <2>3, <2>5, <2>6 DEF Good, ScanInv, PStep
<1>8. ASSUME ~IsFixedAlloc(NewRange),
             newAddr' = AddrIn(AllocFrom(Size[NewRange], Alignment[NewRange]), Size[NewRange], Alignment[NewRange]),
             gaps' = UseGap(gaps, AllocFrom(Size[NewRange], Alignment[NewRange]), newAddr', Size[NewRange])
      PROVE  Good' /\ PStep
  <2> DEFINE size == Size[NewRange]
             alignment == Alignment[NewRange]
             i == ChooseMinimalGap(gaps, size, alignment, call.dir)
             addr == GetAddrFromGap(gaps[i], size, alignment, call.dir)
             o == Owner("placing", None, Block(addr, size))
  <2>1. i # 0 /\ newAddr' = addr /\ gaps' = UseGap(gaps, i, addr, size)
    BY <1>1, <1>8 DEF HasRoom, AllocFrom, AddrIn
  <2>2. /\ size \in PSizes /\ alignment \in PAlignments /\ call.dir \in Directions
        /\ size \in Nat \ {0} /\ alignment \in Nat \ {0}
    BY <1>3, PSizesPositive DEF PSizes, PAlignments, Good, ScanInv, TypesOK
  <2>3. addr \in Nat
    <3> HIDE DEF i
    <3>1. TotalSize \in Nat /\ IsGapList(gaps, TotalSize)
      BY MemoryAssumption DEF Good, ScanInv, Owns
    <3>2. i \in DOMAIN gaps /\ addr # InvalidAddress
      BY <2>1, <3>1, ChosenGapFits DEF Fits, i
    <3>3. gaps[i] \in GapRec
      BY <3>1, <3>2, GapListFacts
    <3> QED BY <2>2, <3>2, <3>3, AddrFromGap
  <2>4. TypesOK' /\ PlacesOK' /\ newAddr' # None
    BY <1>6, <2>1, <2>3
  <2>5. PlacedBlock' = {Block(addr, size)}
    <3>1. ~IsFixedAlloc(NewRange') /\ Size[NewRange'] = size
      BY <1>2, <1>8
    <3> HIDE DEF addr, size
    <3>2. PlacedBlock' = IF newAddr' # None /\ ~IsFixedAlloc(NewRange') THEN {Block(newAddr', Size[NewRange'])} ELSE {}
      BY DEF PlacedBlock, IsFixedAlloc
    <3> QED BY <2>1, <2>4, <3>1, <3>2
  <2>6. o.block = Block(addr, size) /\ o.by = "placing"
    BY OwnerFacts
  <2>7. Owned' = Owned \cup {o}
    <3> HIDE DEF addr, size
    <3>1. ToSet(reserved') = ToSet(reserved) /\ ToSet(temp') = ToSet(temp) /\ ToSet(live') = ToSet(live)
          /\ ToSet(pending') = ToSet(pending)
      BY <1>1
    <3>2. Owned' = {Owner("reserved", None, c) : c \in ToSet(reserved)}
                   \cup {Owner("temp", None, c) : c \in ToSet(temp)}
                   \cup {Owner("placing", None, c) : c \in {Block(addr, size)}}
                   \cup {Owner("range", p.range, BlockOf(p)) : p \in ToSet(live) \cup ToSet(pending)}
      BY <2>5, <3>1 DEF Owned, ReservedOwners, RangeOwners
    <3>3. \A x : x \in Owned' <=> x \in Owned \/ x = o
      BY <1>3, <3>2, OwnedMembers
    <3> QED BY <3>3
  <2> HIDE DEF o
  <2>8. Owns(gaps', Owned') /\ P!Next
    <3> HIDE DEF i, addr, size, alignment
    <3>1. i = ChooseMinimalGap(gaps, size, alignment, call.dir) /\ addr = GetAddrFromGap(gaps[i], size, alignment, call.dir)
      BY DEF i, addr
    <3> QED BY <2>1, <2>2, <2>4, <2>6, <2>7, <3>1, AllocStep DEF Good, ScanInv
  <2>9. FixedOK'
    BY <1>1, <1>2, <1>8 DEF Good, ScanInv, FixedOK, IsFixedAlloc
  <2>10. CandidatesApart'
    <3>1. \A q \in Owned' : q.by # "placing" => q \in Owned
      BY <2>6, <2>7
    <3> QED BY <1>1, <3>1 DEF Good, ScanInv, CandidatesApart
  <2> QED BY <1>4, <1>5, <2>4, <2>8, <2>9, <2>10 DEF Good, ScanInv, PStep
<1> QED BY <1>7, <1>8 DEF FindAddress

\* A candidate is spilled, restored, or ends the call.
LEMMA ProcessCandidateStep ==
  ASSUME Good, ProcessCandidate
  PROVE  Good' /\ PStep
<1> DEFINE c == Head(candidates)
           conflict == Intersects(c.addr, Size[c.range], newAddr, Size[NewRange])
<1>1. /\ UNCHANGED <<reserved, dead, call, todo, pending, temp, before>>
      /\ pc = "process" /\ candidates # <<>> /\ candidates \in Seq(Placed) /\ IsInjective(candidates)
      /\ newAddr # None /\ newAddr \in Nat /\ todo # <<>> /\ ~call.test
  BY DEF ProcessCandidate, Good, ScanInv, TypesOK, PlacesOK, RangesOnce
<1>2. /\ InCall /\ Undecided /\ ~SpillsNothing /\ SpillsNothing' = SpillsNothing
      /\ ReservedOwners' = ReservedOwners /\ UNCHANGED NewRange
  BY <1>1 DEF InCall, Undecided, Good, CallInv, SpillsNothing, ReservedOwners, NewRange, NewIndex
<1>3. c \in ToSet(candidates) /\ c \in Placed
  <2>1. c = candidates[1] /\ 1 \in 1 .. Len(candidates)
    BY <1>1, WithoutFirst
  <2>2. c \in ToSet(candidates)
    BY <1>1, <2>1, LenProperties DEF ToSet
  <2> QED BY <1>1, <2>2, SetOfSeq
<1>4. /\ Tail(candidates) \in Seq(Placed) /\ IsInjective(Tail(candidates))
      /\ ToSet(Tail(candidates)) = ToSet(candidates) \ {c}
  BY <1>1, WithoutFirst DEF Without
<1> HIDE DEF c
<1>5. ASSUME spilled' = spilled \cup {c}, candidates' = Tail(candidates),
             UNCHANGED <<gaps, live, pc, newAddr, ret>>
      PROVE  Good' /\ PStep
  <2>1. Owned' = Owned /\ Held' = Held
    BY <1>1, <1>5, SameMemory
  <2>2. TypesOK'
    BY <1>1, <1>3, <1>4, <1>5 DEF Good, ScanInv, TypesOK
  <2>3. PlacesOK'
    BY <1>1, <1>5 DEF Good, ScanInv, PlacesOK, InCall
  <2>4. RangesOnce'
    BY <1>1, <1>4, <1>5 DEF Good, ScanInv, RangesOnce, Known
  <2>5. FixedOK'
    BY <1>1, <1>2, <1>5 DEF Good, ScanInv, FixedOK
  <2>6. CandidatesApart'
    BY <1>4, <1>5, <2>1 DEF Good, ScanInv, CandidatesApart
  <2>7. CallInv'
    BY <1>1, <1>2, <1>4, <1>5 DEF Good, CallInv, Undecided
  <2> QED BY <1>5, <2>3, <2>4, <2>5, <2>6, <2>7, <2>1, <2>2 DEF Good, ScanInv, PStep
<1>6. ASSUME pc' = "rollback", candidates' = <<>>, ret' = FALSE, UNCHANGED <<gaps, live, newAddr, spilled>>
      PROVE  Good' /\ PStep
  <2>1. Owned' = Owned /\ Held' = Held
    BY <1>1, <1>6, SameMemory
  <2>2. ToSet(candidates') = {} /\ IsInjective(candidates') /\ candidates' \in Seq(Placed)
    BY <1>6, EmptyFacts, EmptySeq
  <2>3. TypesOK'
    BY <1>1, <1>6, <2>2 DEF Good, ScanInv, TypesOK, Places
  <2>4. PlacesOK'
    BY <1>1, <1>6 DEF Good, ScanInv, PlacesOK, InCall
  <2>5. RangesOnce'
    BY <1>1, <1>6, <2>2 DEF Good, ScanInv, RangesOnce, Known
  <2>6. FixedOK'
    BY <1>1, <1>6 DEF Good, ScanInv, FixedOK
  <2>7. CandidatesApart'
    BY <2>2 DEF CandidatesApart
  <2>8. CallInv'
    BY <1>1, <1>2, <1>6 DEF Good, CallInv, Undecided
  <2> QED BY <1>6, <2>1, <2>3, <2>4, <2>5, <2>6, <2>7, <2>8 DEF Good, ScanInv, PStep
<1>7. ASSUME ~conflict, gaps' = AllocFixedFrom(gaps, c.addr, Size[c.range]), live' = Append(live, c),
             candidates' = Tail(candidates), UNCHANGED <<pc, newAddr, ret, spilled>>
      PROVE  Good' /\ PStep
  <2> DEFINE o == Owner("range", c.range, BlockOf(c))
             new == Block(newAddr, Size[NewRange])
  <2>1. /\ live \in Seq(Placed) /\ IsInjective(live) /\ c \notin ToSet(live)
        /\ NewRange \in Ranges
    BY <1>1, <1>3, NewRangeFacts DEF Good, ScanInv, TypesOK, RangesOnce
  <2>2. live' \in Seq(Placed) /\ ToSet(live') = ToSet(live) \cup {c} /\ IsInjective(live')
    BY <1>3, <1>7, <2>1, AppendFacts
  <2>3. TypesOK'
    BY <1>1, <1>4, <1>7, <2>2 DEF Good, ScanInv, TypesOK
  <2>4. PlacesOK'
    BY <1>1, <1>7 DEF Good, ScanInv, PlacesOK, InCall
  <2>5. RangesOnce'
    BY <1>1, <1>3, <1>4, <1>7, <2>2 DEF Good, ScanInv, RangesOnce, Known
  <2>6. UNCHANGED PlacedBlock
    BY <1>2, <1>7 DEF PlacedBlock, IsFixedAlloc
  <2>7. o.block = BlockOf(c) /\ o.by = "range" /\ BlockOf(c).addr = c.addr /\ BlockOf(c).size = Size[c.range]
    BY OwnerFacts DEF BlockOf, Block
  <2>8. Owned' = Owned \cup {o}
    <3>1. ToSet(pending') = ToSet(pending)
      BY <1>1
    <3>2. \A x : x \in Owned' <=> x \in Owned \/ x = o
      BY <1>1, <2>2, <2>6, <3>1, OwnedByRanges, OwnedMembers
    <3> QED BY <3>2
  <2>9. /\ InMemory(BlockOf(c)) /\ BlockOf(c).size \in PSizes
        /\ new \in BlockRec
    <3>1. c.range \in Ranges
      BY <1>3 DEF Placed
    <3>2. Size[NewRange] \in Nat \ {0}
      BY <2>1, RangesAssumption
    <3> QED BY <1>1, <1>3, <2>7, <3>1, <3>2 DEF Good, ScanInv, CandidatesApart, PSizes, Block, BlockRec
  <2>10. Apart(BlockOf(c), new) /\ Apart(new, BlockOf(c))
    <3>1. ~Intersects(BlockOf(c).addr, BlockOf(c).size, new.addr, new.size)
      BY <1>7, <2>7 DEF Block
    <3> HIDE DEF new
    <3> QED BY <2>9, <3>1, ApartFacts DEF InMemory
  <2>11. \A q \in Owned : Apart(BlockOf(c), q.block)
    <3> SUFFICES ASSUME NEW q \in Owned PROVE Apart(BlockOf(c), q.block)
      OBVIOUS
    <3>1. CASE q.by # "placing"
      BY <1>3, <3>1 DEF Good, ScanInv, CandidatesApart
    <3>2. CASE q.by = "placing"
      <4>1. \E b \in PlacedBlock : q = Owner("placing", None, b)
        <5>1. "placing" # "reserved" /\ "placing" # "temp" /\ "placing" # "range"
          OBVIOUS
        <5> QED BY <3>2, <5>1, OwnedMembers, OwnerFacts
      <4>2. q.block = new
        BY <4>1, OwnerFacts DEF PlacedBlock
      <4> QED BY <2>10, <4>2
    <3> QED BY <3>1, <3>2
  <2> HIDE DEF o, new
  <2>12. gaps' = AllocFixedFrom(gaps, o.block.addr, o.block.size)
    BY <1>7, <2>7
  <2>13. Owns(gaps', Owned') /\ P!Next
    BY <2>3, <2>7, <2>8, <2>9, <2>11, <2>12, FixedStep DEF Good, ScanInv
  <2>14. FixedOK'
    <3>1. IsFixedAlloc(NewRange) => newAddr = FixedAddr[NewRange] /\ Apart(FixedBlock(NewRange), BlockOf(c))
      BY <1>1, <2>10 DEF Good, ScanInv, FixedOK, FixedBlock, new
    <3> QED BY <1>1, <1>2, <1>7, <2>2, <3>1 DEF Good, ScanInv, FixedOK
  <2>15. CandidatesApart'
    <3>1. \A d \in ToSet(candidates') : Apart(BlockOf(d), BlockOf(c))
      BY <1>3, <1>4, <1>7 DEF Good, ScanInv, CandidatesApart
    <3> QED BY <1>4, <1>7, <2>7, <2>8, <3>1 DEF Good, ScanInv, CandidatesApart
  <2>16. CallInv'
    BY <1>1, <1>2, <1>4, <1>7, <2>2 DEF Good, CallInv, Undecided
  <2> QED BY <2>3, <2>4, <2>5, <2>13, <2>14, <2>15, <2>16 DEF Good, ScanInv, PStep
<1> QED
  <2>1. \/ conflict /\ \E answer \in SpillAnswers : SpillOut(answer)
        \/ ~conflict /\ RestoreCandidate
    BY DEF ProcessCandidate, c
  <2> HIDE DEF conflict
  <2>2. CASE \E answer \in SpillAnswers : SpillOut(answer)
    BY <1>5, <1>6, <2>2 DEF SpillOut, Fail, c
  <2>3. CASE ~conflict /\ RestoreCandidate
    BY <1>7, <2>3 DEF RestoreCandidate, c
  <2> QED BY <2>1, <2>2, <2>3

\* The blocks that the constructor reserved are blocks of Reserved.
LEMMA ReservedBlocks ==
  ASSUME TypesOK, PlacesOK, NEW b \in ToSet(reserved)
  PROVE  \E k \in DOMAIN Reserved : b = Reserved[k]
<1>1. /\ Len(reserved) \in Nat /\ DOMAIN reserved = 1 .. Len(reserved) /\ Len(Reserved) \in Nat
      /\ Reserved \in Seq(BlockRec) /\ DOMAIN Reserved = 1 .. Len(Reserved)
      /\ Len(reserved) <= Len(Reserved) /\ reserved = SubSeq(Reserved, 1, Len(reserved))
  BY BlocksAssumption, LenProperties DEF TypesOK, PlacesOK, BlockRec
<1>2. PICK k \in 1 .. Len(reserved) : b = reserved[k]
  BY <1>1 DEF ToSet
<1>3. \A j \in 1 .. Len(reserved) : Reserved[j] \in BlockRec
  BY <1>1, ElementOfSeq
<1>4. \A j \in 1 .. Len(reserved) - 1 + 1 : SubSeq(Reserved, 1, Len(reserved))[j] = Reserved[1 + j - 1]
  BY <1>1, <1>3, SubSeqProperties
<1>5. k \in 1 .. Len(reserved) - 1 + 1 /\ 1 + k - 1 = k /\ k \in DOMAIN Reserved
  BY <1>1
<1>6. reserved[k] = Reserved[k]
  BY <1>1, <1>4, <1>5
<1> QED BY <1>2, <1>5, <1>6

\* The range has its memory: a fixed one takes it now, a dynamic one had it.
LEMMA RecordAllocationStep ==
  ASSUME Good, RecordAllocation
  PROVE  Good' /\ PStep
<1> DEFINE r == NewRange
           p == [range |-> r, addr |-> newAddr]
           o == Owner("range", r, BlockOf(p))
<1>1. /\ UNCHANGED <<reserved, live, dead, call, temp, candidates, spilled, ret, before>>
      /\ pc = "process" /\ pc' = "place" /\ candidates = <<>>
      /\ newAddr # None /\ newAddr \in Nat /\ newAddr' = None /\ todo # <<>> /\ ~call.test
      /\ pending' = Append(pending, p) /\ todo' = RemoveAt(todo, NewIndex)
      /\ gaps' = IF IsFixedAlloc(r) THEN AllocFixedFrom(gaps, newAddr, Size[r]) ELSE gaps
  BY DEF RecordAllocation, Good, ScanInv, TypesOK, PlacesOK
<1>2. /\ r \in Ranges /\ r \in ToSet(todo) /\ NewIndex \in 1 .. Len(todo)
      /\ ~IsFixedAlloc(r) => \A s \in ToSet(todo) : ~IsFixedAlloc(s)
  BY <1>1, NewRangeFacts DEF Good, ScanInv
<1>3. todo' \in Seq(Ranges) /\ ToSet(todo') = ToSet(todo) \ {r} /\ IsInjective(todo')
  <2>1. todo \in Seq(Ranges) /\ IsInjective(todo)
    BY DEF Good, ScanInv, TypesOK, RangesOnce
  <2>2. Without(todo', todo, NewIndex, Ranges)
    BY <1>1, <1>2, <2>1, WithoutRemoved
  <2> QED BY <2>2 DEF Without, NewRange
<1>4. PlacedBlock = (IF IsFixedAlloc(r) THEN {} ELSE {Block(newAddr, Size[r])}) /\ PlacedBlock' = {}
  BY <1>1, NothingPlaced DEF PlacedBlock, IsFixedAlloc
<1> HIDE DEF r
<1>5. p \in Placed /\ p.range = r /\ p.addr = newAddr /\ BlockOf(p) = Block(newAddr, Size[r])
  BY <1>1, <1>2 DEF Placed, BlockOf, Block
<1> HIDE DEF p
<1>6. o.by = "range" /\ o.block = BlockOf(p)
      /\ BlockOf(p).addr = newAddr /\ BlockOf(p).size = Size[r]
  BY <1>5, OwnerFacts DEF Block
<1>7. \A q \in Known : q.range # r /\ q # p
  BY <1>2, <1>5 DEF Good, ScanInv, RangesOnce
<1>8. pending' \in Seq(Placed) /\ ToSet(pending') = ToSet(pending) \cup {p} /\ IsInjective(pending')
  <2>1. pending \in Seq(Placed) /\ IsInjective(pending) /\ p \notin ToSet(pending)
    BY <1>7 DEF Good, ScanInv, TypesOK, RangesOnce, Known
  <2> QED BY <1>1, <1>5, <2>1, AppendFacts
<1>9. TypesOK'
  BY <1>1, <1>3, <1>8 DEF Good, ScanInv, TypesOK, Places
<1>10. PlacesOK'
  BY <1>1 DEF Good, ScanInv, PlacesOK, InCall
<1>11. RangesOnce'
  <2>1. Known' = Known \cup {p}
    BY <1>1, <1>8 DEF Known
  <2>2. \A q \in Known' : q.range \notin ToSet(todo')
    BY <1>3, <1>5, <2>1 DEF Good, ScanInv, RangesOnce
  <2>3. \A q, q2 \in Known' : q # q2 => q.range # q2.range
    BY <1>5, <1>7, <2>1 DEF Good, ScanInv, RangesOnce
  <2>4. /\ ToSet(live) \cap ToSet(pending') = {}
        /\ (ToSet(live) \cup ToSet(pending')) \cap ToSet(candidates) = {}
    BY <1>7, <1>8 DEF Good, ScanInv, RangesOnce, Known
  <2> QED BY <1>1, <1>3, <1>8, <2>2, <2>3, <2>4 DEF Good, ScanInv, RangesOnce
<1>12. CandidatesApart'
  BY <1>1, EmptyFacts DEF CandidatesApart
<1>13. CallInv'
  <2>1. ReservedOwners' = ReservedOwners /\ InCall /\ Undecided
    BY <1>1 DEF ReservedOwners, InCall, Undecided
  <2> QED BY <1>1, <2>1 DEF Good, CallInv, InCall, Undecided, SpillsNothing
<1>14. \A x : x \in Owned' <=>
          \/ \E b \in ToSet(reserved) : x = Owner("reserved", None, b)
          \/ \E b \in ToSet(temp) : x = Owner("temp", None, b)
          \/ \E q \in ToSet(live) \cup ToSet(pending) : x = Owner("range", q.range, BlockOf(q))
          \/ x = o
  <2>1. ToSet(reserved') = ToSet(reserved) /\ ToSet(temp') = ToSet(temp) /\ ToSet(live') = ToSet(live)
    BY <1>1
  <2>2. Owned' = {Owner("reserved", None, c) : c \in ToSet(reserved)}
                 \cup {Owner("temp", None, c) : c \in ToSet(temp)}
                 \cup {Owner("placing", None, c) : c \in {}}
                 \cup {Owner("range", q.range, BlockOf(q)) : q \in ToSet(live) \cup ToSet(pending) \cup {p}}
    BY <1>4, <1>8, <2>1 DEF Owned, ReservedOwners, RangeOwners
  <2> QED BY <1>5, <2>2
<1>15. CASE IsFixedAlloc(r)
  <2>1. newAddr = FixedAddr[r] /\ BlockOf(p) = FixedBlock(r)
    BY <1>1, <1>5, <1>15 DEF Good, ScanInv, FixedOK, FixedBlock, r
  <2>2. InMemory(BlockOf(p)) /\ BlockOf(p).size \in PSizes /\ BlockOf(p) \in BlockRec
    BY <1>2, <1>6, <1>15, <2>1, FixedBlockInMemory DEF PSizes
  <2>3. temp = <<>>
    BY <1>1, <1>2, <1>15 DEF Good, ScanInv, PlacesOK, FixedOK
  <2>4. Owned' = Owned \cup {o}
    <3>1. \A x : x \in Owned' <=> x \in Owned \/ x = o
      BY <1>4, <1>14, <1>15, OwnedMembers
    <3> QED BY <3>1
  <2>5. \A q \in Owned : Apart(BlockOf(p), q.block)
    <3> SUFFICES ASSUME NEW q \in Owned PROVE Apart(BlockOf(p), q.block)
      OBVIOUS
    <3>1. CASE \E b \in ToSet(reserved) : q = Owner("reserved", None, b)
      <4>1. PICK b \in ToSet(reserved) : q = Owner("reserved", None, b)
        BY <3>1
      <4>2. PICK k \in DOMAIN Reserved : b = Reserved[k]
        BY ReservedBlocks DEF Good, ScanInv
      <4>3. b \in BlockRec
        BY SetOfSeq DEF Good, ScanInv, TypesOK
      <4>4. ~Intersects(FixedAddr[r], Size[r], b.addr, b.size)
        BY <1>2, <1>15, <4>2, RangesAssumption
      <4> QED BY <1>6, <2>1, <2>2, <4>1, <4>3, <4>4, ApartFacts, OwnerFacts
    <3>2. CASE \E l \in ToSet(live) : q = Owner("range", l.range, BlockOf(l))
      BY <1>1, <1>15, <2>1, <3>2, OwnerFacts DEF Good, ScanInv, FixedOK, r
    <3>3. CASE \E l \in ToSet(pending) : q = Owner("range", l.range, BlockOf(l))
      BY <1>1, <1>2, <1>15, <2>1, <3>3, OwnerFacts DEF Good, ScanInv, FixedOK
    <3> QED BY <1>4, <1>15, <2>3, <3>1, <3>2, <3>3, EmptyFacts, OwnedMembers
  <2>6. FixedOK'
    <3>1. ASSUME NEW s \in ToSet(todo'), IsFixedAlloc(s) PROVE Apart(FixedBlock(s), BlockOf(p))
      BY <1>1, <1>2, <1>3, <1>15, <2>1, <3>1 DEF Good, ScanInv, FixedOK
    <3> QED BY <1>1, <1>3, <1>8, <3>1 DEF Good, ScanInv, FixedOK
  <2> HIDE DEF o
  <2>7. gaps' = AllocFixedFrom(gaps, o.block.addr, o.block.size)
    BY <1>1, <1>6, <1>15
  <2>8. Owns(gaps', Owned') /\ P!Next
    BY <1>6, <1>9, <2>2, <2>4, <2>5, <2>7, FixedStep DEF Good, ScanInv
  <2> QED BY <1>9, <1>10, <1>11, <1>12, <1>13, <2>6, <2>8 DEF Good, ScanInv, PStep
<1>16. CASE ~IsFixedAlloc(r)
  <2> DEFINE placing == Owner("placing", None, BlockOf(p))
  <2>1. placing \in Owned /\ placing.block = o.block
    BY <1>4, <1>5, <1>6, <1>16, OwnedMembers, OwnerFacts
  <2>2. Owned' = (Owned \ {placing}) \cup {o}
    <3>1. /\ \A b : Owner("reserved", None, b) # placing /\ Owner("temp", None, b) # placing
          /\ \A q : Owner("range", q.range, BlockOf(q)) # placing
      <4>1. /\ placing.by = "placing"
            /\ \A b : Owner("reserved", None, b).by = "reserved" /\ Owner("temp", None, b).by = "temp"
            /\ \A q : Owner("range", q.range, BlockOf(q)).by = "range"
        BY OwnerFacts
      <4>2. "placing" # "reserved" /\ "placing" # "temp" /\ "placing" # "range"
        OBVIOUS
      <4> QED BY <4>1, <4>2
    <3>2. \A x : x \in Owned <=>
            \/ \E b \in ToSet(reserved) : x = Owner("reserved", None, b)
            \/ \E b \in ToSet(temp) : x = Owner("temp", None, b)
            \/ \E q \in ToSet(live) \cup ToSet(pending) : x = Owner("range", q.range, BlockOf(q))
            \/ x = placing
      BY <1>4, <1>5, <1>16, OwnedMembers
    <3> HIDE DEF placing, o
    <3>3. \A x : x \in Owned' <=> (x \in Owned /\ x # placing) \/ x = o
      BY <1>14, <3>1, <3>2
    <3> QED BY <3>3
  <2> HIDE DEF placing, o
  <2>3. Owns(gaps', Owned')
    BY <1>1, <1>16, <2>1, <2>2, OwnsRename DEF Good, ScanInv
  <2>4. Held' = Held
    <3>1. Held = {q.block : q \in Owned} /\ Held' = {q.block : q \in Owned'}
      BY <1>9, HeldIsOwned, HeldIsOwnedNext DEF Good, ScanInv
    <3>2. \A b : b \in Held' <=> b \in Held
      BY <2>1, <2>2, <3>1
    <3> QED BY <3>2
  <2>5. FixedOK'
    BY <1>1, <1>2, <1>3, <1>16 DEF FixedOK
  <2> QED BY <1>1, <1>9, <1>10, <1>11, <1>12, <1>13, <1>16, <2>3, <2>4, <2>5 DEF Good, ScanInv, PStep
<1> QED BY <1>15, <1>16

-----------------------------------------------------------------------------
(***************************************************************************)
(* The invariant, and what follows from it.                                *)
(***************************************************************************)
\* A step that changes nothing.
LEMMA StutterStep ==
  ASSUME Good, UNCHANGED vars
  PROVE  Good' /\ PStep
<1>1. UNCHANGED <<pc, reserved, gaps, live, dead, call, todo, pending, temp, candidates,
                  newAddr, spilled, ret, before>>
  BY DEF vars, scanVars
<1>2. /\ Owned' = Owned /\ ReservedOwners' = ReservedOwners /\ NewRange' = NewRange /\ Held' = Held
  BY <1>1, SameMemory
<1>3. TypesOK'
  BY <1>1 DEF Good, ScanInv, TypesOK
<1>4. PlacesOK'
  <2>1. IsFreeBlock(call.keep.block)' <=> IsFreeBlock(call.keep.block)
    BY <1>1 DEF IsFreeBlock
  <2> QED BY <1>1, <2>1 DEF Good, ScanInv, PlacesOK
<1>5. RangesOnce'
  BY <1>1 DEF Good, ScanInv, RangesOnce, Known
<1>6. FixedOK'
  BY <1>1, <1>2 DEF Good, ScanInv, FixedOK
<1>7. CandidatesApart'
  BY <1>1, <1>2 DEF Good, ScanInv, CandidatesApart
<1>8. CallInv'
  BY <1>1, <1>2 DEF Good, CallInv, InCall, Undecided, SpillsNothing
<1> QED BY <1>1, <1>2, <1>3, <1>4, <1>5, <1>6, <1>7, <1>8 DEF Good, ScanInv, PStep

\* Every step keeps the invariant, and does to the memory what Partitioner may do.
LEMMA NextGood == Good /\ [Next]_vars => Good' /\ PStep
<1> SUFFICES ASSUME Good, [Next]_vars PROVE Good' /\ PStep
  OBVIOUS
<1>1. ASSUME CallStep PROVE Good' /\ PStep
  BY <1>1, KeepStep, TestStep, RestoreStep, FindAddressStep, GetSpillCandidateStep, GiveUpStep,
     ProcessCandidateStep, RecordAllocationStep, CommitStep, RollbackStep, SweepStep DEF CallStep
<1>2. ASSUME NEW req \in BoundedSeq(Ranges, MaxRequest), NEW test \in BOOLEAN,
             NEW keep \in Keepable, NEW spills \in AllowSpills, NEW dir \in Directions,
             Call(req, test, keep, spills, dir)
      PROVE  Good' /\ PStep
  BY <1>2, CallStepGood
<1>3. ASSUME NEW r \in Ranges, MarkAsDead(r) PROVE Good' /\ PStep
  BY <1>3, MarkAsDeadStep
<1> QED BY <1>1, <1>2, <1>3, ConstructStep, FreeDeadRangesStep, ReturnStep, StutterStep DEF Next

\* The invariant from which the properties follow: who owns which block, where each
\* range is, and what the call has changed so far.
THEOREM GoodInvariant == Spec => []Good
BY InitGood, NextGood, PTL DEF Spec

\* As many ranges are live as there are places for them.
LEMMA LiveRangesCounted ==
  ASSUME Good
  PROVE  Cardinality(RangesOf(live)) = Len(live)
<1> DEFINE f == [i \in 1 .. Len(live) |-> live[i].range]
<1>1. DOMAIN live = 1 .. Len(live) /\ Len(live) \in Nat
  BY SetOfSeq DEF Good, ScanInv, TypesOK
<1>2. ASSUME NEW i \in 1 .. Len(live), NEW j \in 1 .. Len(live), live[i].range = live[j].range
      PROVE  i = j
  <2>1. live[i] \in Known /\ live[j] \in Known
    BY <1>1 DEF Known, ToSet
  <2>2. live[i] = live[j]
    BY <1>2, <2>1 DEF Good, ScanInv, RangesOnce
  <2> QED BY <1>1, <2>2 DEF Good, ScanInv, RangesOnce, IsInjective
<1>3. f \in Bijection(1 .. Len(live), RangesOf(live))
  BY <1>1, <1>2 DEF Bijection, Injection, Surjection, IsInjective, RangesOf
<1>4. ExistsBijection(1 .. Len(live), RangesOf(live))
  BY <1>3 DEF ExistsBijection
<1> QED BY <1>1, <1>4, FS_CountingElements

\* The values the allocator's state may hold; a range is live at most once.
THEOREM TypeCorrect == Spec => []TypeOK
<1>1. Good => TypeOK
  <2> SUFFICES ASSUME Good PROVE TypeOK
    OBVIOUS
  <2>1. gaps \in Seq([begin : Nat, end : Nat])
    BY DEF Good, ScanInv, Owns, IsGapList, GapRec
  <2> QED BY <2>1, LiveRangesCounted DEF Good, ScanInv, TypesOK, TypeOK
<1> QED BY <1>1, GoodInvariant, PTL

\* Two live ranges never overlap, nor does one overlap a reserved block: each owns
\* its block, and the blocks of two owners are apart.
THEOREM LiveRangesCorrect == Spec => []LiveRangesDisjoint
<1>1. Good => LiveRangesDisjoint
  <2> SUFFICES ASSUME Good PROVE LiveRangesDisjoint
    OBVIOUS
  <2>1. ASSUME NEW o \in Owned, NEW q \in Owned, o # q
        PROVE  ~Intersects(o.block.addr, o.block.size, q.block.addr, q.block.size)
    <3>1. o.block \in BlockRec /\ q.block \in BlockRec /\ Apart(o.block, q.block)
      BY <2>1 DEF Good, ScanInv, Owns, InMemory
    <3> QED BY <3>1, ApartFacts
  <2>2. ASSUME NEW i \in DOMAIN live
        PROVE  Owner("range", live[i].range, BlockOf(live[i])) \in Owned
    <3>1. live[i] \in ToSet(live)
      BY DEF ToSet
    <3> QED BY <3>1, OwnedMembers
  <2>3. ASSUME NEW i \in DOMAIN live, NEW j \in DOMAIN live, i # j
        PROVE  ~Intersects(live[i].addr, Size[live[i].range], live[j].addr, Size[live[j].range])
    <3>1. live[i] \in Known /\ live[j] \in Known /\ live[i] # live[j]
      BY <2>3 DEF Known, ToSet, Good, ScanInv, RangesOnce, IsInjective
    <3>2. live[i].range # live[j].range
      BY <3>1 DEF Good, ScanInv, RangesOnce
    <3>3. Owner("range", live[i].range, BlockOf(live[i])) # Owner("range", live[j].range, BlockOf(live[j]))
      BY <3>2, OwnerFacts
    <3> QED BY <2>1, <2>2, <3>3, OwnerFacts DEF BlockOf, Block
  <2>4. ASSUME NEW i \in DOMAIN live, NEW k \in DOMAIN reserved
        PROVE  ~Intersects(live[i].addr, Size[live[i].range], reserved[k].addr, reserved[k].size)
    <3>1. Owner("reserved", None, reserved[k]) \in Owned
      <4>1. reserved[k] \in ToSet(reserved)
        BY DEF ToSet
      <4> QED BY <4>1, OwnedMembers
    <3>2. Owner("range", live[i].range, BlockOf(live[i])) # Owner("reserved", None, reserved[k])
      BY OwnerFacts
    <3> QED BY <2>1, <2>2, <3>1, <3>2, OwnerFacts DEF BlockOf, Block
  <2> QED BY <2>3, <2>4 DEF LiveRangesDisjoint
<1> QED BY <1>1, GoodInvariant, PTL

\* A test, and a call that fails where nothing may be spilled, go back to the very
\* list of gaps: what is owned is what was owned, and that determines the gaps.
THEOREM NoTraceCorrect == Spec => []NoTraceLeft
<1>1. Good => NoTraceLeft
  <2> SUFFICES ASSUME Good, pc = "returned", call.test \/ (ret = FALSE /\ ~call.spills)
               PROVE  scanVars = before
    BY DEF NoTraceLeft
  <2>1. temp = <<>> /\ pending = <<>>
    BY DEF Good, ScanInv, PlacesOK
  <2>2. newAddr = None /\ live = before[2]
    BY DEF Good, CallInv, InCall, SpillsNothing
  <2>3. Owns(gaps, ReservedOwners \cup RangeOwners(ToSet(live)))
    BY <2>1, <2>2, OwnedAtRest DEF Good, ScanInv
  <2>4. /\ Owns(before[1], ReservedOwners \cup RangeOwners(ToSet(live)))
        /\ before \in Seq([begin : Nat, end : Nat]) \X Seq(Placed)
    BY <2>2 DEF Good, CallInv, InCall
  <2>5. gaps = before[1]
    BY <2>3, <2>4, OwnsUnique
  <2> QED BY <2>2, <2>4, <2>5 DEF scanVars
<1> QED BY <1>1, GoodInvariant, PTL

\* A call that succeeds has kept or reported each range that was live: none of the
\* candidates is forgotten.
THEOREM SuccessCorrect == Spec => []SuccessKeepsOthers
<1>1. Good => SuccessKeepsOthers
  <2> SUFFICES ASSUME Good, pc = "returned", ret = TRUE
               PROVE  ToSet(before[2]) \subseteq spilled \cup ToSet(live)
    BY DEF SuccessKeepsOthers
  <2>1. candidates = <<>>
    BY DEF Good, ScanInv, PlacesOK
  <2> QED BY <2>1, EmptyFacts DEF Good, CallInv, InCall
<1> QED BY <1>1, GoodInvariant, PTL

\* Every step of LinearScan is a step of Partitioner within the contract of that
\* class, or leaves the memory alone: what Partitioner checks by assert only holds.
THEOREM PartitionerUsedCorrectly == Spec => UsesPartitioner
<1>1. PStep => [P!Next]_(P!vars)
  BY DEF PStep, P!vars
<1> QED BY <1>1, InitGood, NextGood, PTL DEF Spec, UsesPartitioner, P!Spec
=============================================================================
