------------------------------- MODULE GapLists -------------------------------
(***************************************************************************)
(* The list of gaps of vpux::Partitioner (partitioner.cpp) and the three   *)
(* algorithms on it: alloc, allocFixed and free, as functions from a list  *)
(* of gaps to a list of gaps.  A gap is the free memory begin .. end - 1.  *)
(* Addresses stay far below 2^64, so no sum of them wraps.                 *)
(***************************************************************************)
EXTENDS Integers, Sequences

Gap(begin, end) == [begin |-> begin, end |-> end]
GapSize(g) == g.end - g.begin
InvalidAddress == -1
Directions == {"Up", "Down"}

\* s with the n elements from position i on replaced by new: what erase, insert
\* and assignment to an element of the std::vector do here.
Splice(s, i, n, new) == SubSeq(s, 1, i - 1) \o new \o SubSeq(s, i + n, Len(s))

AlignValUp(val, align) == ((val + align - 1) \div align) * align

\* The address a block gets in a gap, or InvalidAddress.
GetAddrUp(g, size, alignment) ==
  LET begin == AlignValUp(g.begin, alignment)
  IN  IF begin + size > g.end THEN InvalidAddress ELSE begin

GetAddrDown(g, size, alignment) ==
  LET begin == AlignValUp(g.end - size, alignment)
      lower == IF begin + size > g.end THEN begin - alignment ELSE begin
  IN  IF begin + size > g.end /\ g.begin + alignment > begin THEN InvalidAddress
      ELSE IF lower + size > g.end THEN InvalidAddress
      ELSE lower

\* Mutant: a gap smaller than the block is not refused at once.
GetAddrFromAnyGap(g, size, alignment, dir) ==
  IF dir = "Up" THEN GetAddrUp(g, size, alignment) ELSE GetAddrDown(g, size, alignment)

GetAddrFromGap(g, size, alignment, dir) ==
  IF GapSize(g) < size THEN InvalidAddress
  ELSE IF dir = "Up" THEN GetAddrUp(g, size, alignment)
  ELSE GetAddrDown(g, size, alignment)

Fits(gs, i, size, alignment, dir) ==
  GetAddrFromGap(gs[i], size, alignment, dir) # InvalidAddress

\* The last gap in the direction has the lowest priority.
LastGap(gs, dir) == IF dir = "Up" THEN Len(gs) ELSE 1

\* Whether the loop of chooseMinimalGap prefers gap i to gap j: the smaller one,
\* or the one it meets first.
Preferred(gs, i, j, dir) ==
  \/ GapSize(gs[i]) < GapSize(gs[j])
  \/ GapSize(gs[i]) = GapSize(gs[j]) /\ (IF dir = "Up" THEN i <= j ELSE i >= j)

Suitable(gs, size, alignment, dir) ==
  {i \in DOMAIN gs : Fits(gs, i, size, alignment, dir)}

\* Mutant: the gap with the lowest priority is forgotten.
ChooseOtherGap(gs, size, alignment, dir) ==
  LET fit == Suitable(gs, size, alignment, dir) \ {LastGap(gs, dir)}
  IN  IF fit = {} THEN 0
      ELSE CHOOSE i \in fit : \A j \in fit : Preferred(gs, i, j, dir)

\* The index of the gap to use, or 0.
ChooseMinimalGap(gs, size, alignment, dir) ==
  LET fit == Suitable(gs, size, alignment, dir)
      others == fit \ {LastGap(gs, dir)}
  IN  IF fit = {} THEN 0
      ELSE IF others = {} THEN LastGap(gs, dir)
      ELSE CHOOSE i \in others : \A j \in others : Preferred(gs, i, j, dir)

\* Mutant: the memory left of an aligned block is lost.
RightPieceOnly(g, addr, end) == IF end < g.end THEN <<Gap(end, g.end)>> ELSE <<>>

\* What a block leaves of the gap it is taken from.
Pieces(g, addr, end) ==
  (IF g.begin < addr THEN <<Gap(g.begin, addr)>> ELSE <<>>)
  \o (IF end < g.end THEN <<Gap(end, g.end)>> ELSE <<>>)

UseGap(gs, i, addr, size) == Splice(gs, i, 1, Pieces(gs[i], addr, addr + size))

\* std::lower_bound, and one back if it is not the gap that begins at addr.
GapAt(gs, addr) ==
  CHOOSE i \in DOMAIN gs : /\ gs[i].begin <= addr
                           /\ i < Len(gs) => addr < gs[i + 1].begin

AllocFixedFrom(gs, addr, size) == UseGap(gs, GapAt(gs, addr), addr, size)

-----------------------------------------------------------------------------
(***************************************************************************)
(* free: the block becomes a gap, or part of the gaps it touches.          *)
(***************************************************************************)
PutBefore(gs, i, addr, end) ==
  IF end = gs[i].begin THEN Splice(gs, i, 1, <<Gap(addr, gs[i].end)>>)
  ELSE Splice(gs, i, 0, <<Gap(addr, end)>>)

\* Mutant: a block that touches the gap before it is not appended to it.
PutAfterUnmerged(gs, i, addr, end) == Splice(gs, i + 1, 0, <<Gap(addr, end)>>)

PutAfter(gs, i, addr, end) ==
  IF addr = gs[i].end THEN Splice(gs, i, 1, <<Gap(gs[i].begin, end)>>)
  ELSE Splice(gs, i + 1, 0, <<Gap(addr, end)>>)

PutBetween(gs, i, addr, end) ==
  IF addr = gs[i].end /\ end = gs[i + 1].begin
  THEN Splice(gs, i, 2, <<Gap(gs[i].begin, gs[i + 1].end)>>)
  ELSE IF addr = gs[i].end THEN PutAfter(gs, i, addr, end)
  ELSE PutBefore(gs, i + 1, addr, end)

PutLast(gs, addr, end) ==
  IF end <= gs[Len(gs)].begin THEN PutBefore(gs, Len(gs), addr, end)
  ELSE PutAfter(gs, Len(gs), addr, end)

\* The positions the loop of free stops at; it stops at the first one.
Between(gs, addr, end) ==
  {i \in 1 .. Len(gs) - 1 : gs[i].end <= addr /\ end <= gs[i + 1].begin}

FirstBetween(gs, addr, end) ==
  CHOOSE i \in Between(gs, addr, end) : \A j \in Between(gs, addr, end) : i <= j

FreeInto(gs, addr, size) ==
  LET end == addr + size
  IN  IF gs = <<>> THEN <<Gap(addr, end)>>
      ELSE IF end <= gs[1].begin THEN PutBefore(gs, 1, addr, end)
      ELSE IF Between(gs, addr, end) # {} THEN PutBetween(gs, FirstBetween(gs, addr, end), addr, end)
      ELSE PutLast(gs, addr, end)
=============================================================================
