------------------------------ MODULE Partitioner ------------------------------
(***************************************************************************)
(* vpux::Partitioner and a client that keeps to its contract: it allocates *)
(* at a fixed address only where the memory is free, and frees the blocks  *)
(* it was given.                                                           *)
(***************************************************************************)
EXTENDS GapLists

CONSTANTS
  TotalSize,    \* _totalSize
  Sizes,        \* the sizes the client asks for
  Alignments    \* the alignments it asks for

ASSUME TotalSizeAssumption == TotalSize \in Nat \ {0}
ASSUME SizesAssumption == Sizes \subseteq Nat \ {0}
ASSUME AlignmentsAssumption == Alignments \subseteq Nat \ {0}

VARIABLES
  gaps,   \* _gaps
  used    \* the blocks the client holds

vars == <<gaps, used>>

Addresses == 0 .. TotalSize - 1
Block(addr, size) == [addr |-> addr, size |-> size]

InGap(x) == \E i \in DOMAIN gaps : gaps[i].begin <= x /\ x < gaps[i].end
InBlock(x, b) == b.addr <= x /\ x < b.addr + b.size
InUse(x) == \E b \in used : InBlock(x, b)

Init ==
  /\ gaps = <<Gap(0, TotalSize)>>
  /\ used = {}

\* A request that finds no gap returns InvalidAddress and changes nothing.
Alloc(size, alignment, dir) ==
  LET i == ChooseMinimalGap(gaps, size, alignment, dir)
      addr == GetAddrFromGap(gaps[i], size, alignment, dir)
  IN  /\ i # 0
      /\ gaps' = UseGap(gaps, i, addr, size)
      /\ used' = used \cup {Block(addr, size)}

AllocFixed(addr, size) ==
  /\ addr + size <= TotalSize
  /\ \A x \in addr .. addr + size - 1 : InGap(x)
  /\ gaps' = AllocFixedFrom(gaps, addr, size)
  /\ used' = used \cup {Block(addr, size)}

Free(b) ==
  /\ gaps' = FreeInto(gaps, b.addr, b.size)
  /\ used' = used \ {b}

Next ==
  \/ \E size \in Sizes, alignment \in Alignments, dir \in Directions : Alloc(size, alignment, dir)
  \/ \E addr \in Addresses, size \in Sizes : AllocFixed(addr, size)
  \/ \E b \in used : Free(b)

Spec == Init /\ [][Next]_vars

-----------------------------------------------------------------------------
\* The values the partitioner's state may hold.
TypeOK ==
  /\ gaps \in Seq([begin : Nat, end : Nat])
  /\ used \subseteq [addr : Nat, size : Nat \ {0}]

\* What PartitionerValidator asserts, and more: gaps are in order, not empty and
\* inside the memory, and no two of them touch, so free has merged whatever
\* could be merged and no request fails for a border between two gaps.
GapsSeparated ==
  /\ \A i \in DOMAIN gaps : gaps[i].begin < gaps[i].end /\ gaps[i].end <= TotalSize
  /\ \A i, j \in DOMAIN gaps : i < j => gaps[i].end < gaps[j].begin

\* Nothing leaks and nothing is handed out twice: every address is either in a
\* gap or in a block of the client, and in one block only.
MemoryPartitioned ==
  /\ \A x \in Addresses : InGap(x) <=> ~InUse(x)
  /\ \A b \in used : b.addr + b.size <= TotalSize
  /\ \A b, c \in used : b # c => b.addr + b.size <= c.addr \/ c.addr + c.size <= b.addr

\* alloc finds room whenever there is any, from either direction: it returns
\* InvalidAddress only if no aligned address begins a free block of that size.
AllocFindsRoom ==
  \A size \in Sizes, alignment \in Alignments, dir \in Directions :
    ChooseMinimalGap(gaps, size, alignment, dir) = 0 =>
      ~\E addr \in Addresses : /\ addr % alignment = 0
                               /\ \A x \in addr .. addr + size - 1 : InGap(x)
=============================================================================
