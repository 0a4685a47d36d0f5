------------------------------ MODULE LinearScan ------------------------------
(***************************************************************************)
(* vpux::LinearScan (linear_scan.hpp): live ranges get addresses from a    *)
(* Partitioner.  A call either places all the ranges it is given or gives  *)
(* back what it placed; it may spill live ranges to make room.  Other      *)
(* calls only ask whether ranges could be placed, or keep some memory      *)
(* reserved while they place them.                                         *)
(*                                                                         *)
(* LinearScan is sequential; pc says where a call is, and each step makes  *)
(* at most one call of the Partitioner.  The Handler, a template parameter *)
(* of the class, is external.                                              *)
(***************************************************************************)
EXTENDS GapLists, FiniteSetsExt, SequencesExt

CONSTANTS
  TotalSize,      \* size of the memory
  Ranges,         \* the live ranges
  Size,           \* getSize
  Alignment,      \* getAlignment
  FixedAddr,      \* the address of a range with isFixedAlloc, or None
  SpillWeight,    \* getSpillWeight
  Reserved,       \* reservedVec: list of blocks
  Regions,        \* blocks a client may want excluded
  ReservedSpaces, \* sizes and alignments of the space a client may want reserved
  MaxRequest,     \* bound: ranges in a call
  AllowSpills,    \* the values of allowSpills clients use
  SpillAnswers,   \* what Handler::spilled may return
  None

IsFixedAlloc(r) == FixedAddr[r] # None
Block(addr, size) == [addr |-> addr, size |-> size]
Intersects(addr1, size1, addr2, size2) == addr1 < addr2 + size2 /\ addr2 < addr1 + size1

ASSUME MemoryAssumption == TotalSize \in Nat \ {0} /\ None \notin Nat
ASSUME BlocksAssumption ==
  /\ Reserved \in Seq([addr : Nat, size : Nat \ {0}])
  /\ \A i \in DOMAIN Reserved : Reserved[i].addr + Reserved[i].size <= TotalSize
  /\ \A i, j \in DOMAIN Reserved : i # j =>
       ~Intersects(Reserved[i].addr, Reserved[i].size, Reserved[j].addr, Reserved[j].size)
  /\ Regions \subseteq [addr : Nat, size : Nat \ {0}]
  /\ ReservedSpaces \subseteq [size : Nat \ {0}, alignment : Nat \ {0}]
ASSUME RangesAssumption ==
  /\ Size \in [Ranges -> Nat \ {0}]
  /\ Alignment \in [Ranges -> Nat \ {0}]
  /\ SpillWeight \in [Ranges -> Int]
  /\ \A r \in Ranges : IsFixedAlloc(r) =>
       /\ FixedAddr[r] \in Nat /\ FixedAddr[r] + Size[r] <= TotalSize
       /\ \A i \in DOMAIN Reserved :
            ~Intersects(FixedAddr[r], Size[r], Reserved[i].addr, Reserved[i].size)
ASSUME AnswersAssumption == AllowSpills \subseteq BOOLEAN /\ SpillAnswers \subseteq BOOLEAN

VARIABLES
  pc,         \* where the call is
  gaps,       \* _partitioner
  reserved,   \* what the constructor has reserved so far
  live,       \* _liveRanges, each with the address the handler was told
  dead,       \* the live ranges the handler says are dead
  call,       \* the arguments of the call
  todo,       \* the ranges it has still to place
  pending,    \* what it has placed: pendingAllocations, and what the guard records
  temp,       \* what it holds only until it returns
  candidates, \* spillCandidates
  newAddr,    \* newRangeAddr
  spilled,    \* what the call has spilled
  ret,        \* what it returns
  before      \* history: the state when the call was made

scanVars == <<gaps, live>>
vars == <<pc, reserved, scanVars, dead, call, todo, pending, temp, candidates, newAddr,
          spilled, ret, before>>

RangesOf(placed) == {placed[i].range : i \in DOMAIN placed}
BlockOf(p) == Block(p.addr, Size[p.range])
NoCall == [test |-> FALSE, keep |-> None, spills |-> FALSE, dir |-> "Up"]

Init ==
  /\ pc = "construct"
  /\ gaps = <<Gap(0, TotalSize)>>
  /\ reserved = <<>> /\ live = <<>> /\ dead = {}
  /\ call = NoCall
  /\ todo = <<>> /\ pending = <<>> /\ temp = <<>> /\ candidates = <<>>
  /\ newAddr = None /\ spilled = {} /\ ret = None
  /\ before = None

\* The constructor takes the reserved blocks.
Construct ==
  /\ pc = "construct"
  /\ LET n == Len(reserved) + 1
     IN  \/ /\ n <= Len(Reserved)
            /\ gaps' = AllocFixedFrom(gaps, Reserved[n].addr, Reserved[n].size)
            /\ reserved' = Append(reserved, Reserved[n])
            /\ UNCHANGED pc
         \/ /\ n > Len(Reserved)
            /\ pc' = "idle"
            /\ UNCHANGED <<gaps, reserved>>
  /\ UNCHANGED <<live, dead, call, todo, pending, temp, candidates, newAddr, spilled, ret, before>>

-----------------------------------------------------------------------------
(***************************************************************************)
(* Calls.  A client asks for ranges that are not live, with fixed ranges   *)
(* that do not overlap, and excludes a region only if it is free; when     *)
(* memory is reserved or excluded the ranges have no fixed address.        *)
(***************************************************************************)
IsFreeBlock(b) ==
  \E i \in DOMAIN gaps : gaps[i].begin <= b.addr /\ b.addr + b.size <= gaps[i].end

Keepable ==
  {None} \cup [kind : {"space"}, space : ReservedSpaces]
  \cup {[kind |-> "region", block |-> b] : b \in {b \in Regions : IsFreeBlock(b)}}

CanRequest(req, keep) ==
  /\ req # <<>>
  /\ IsInjective(req)
  /\ ToSet(req) \cap RangesOf(live) = {}
  /\ keep # None => \A r \in ToSet(req) : ~IsFixedAlloc(r)
  /\ \A r, s \in ToSet(req) :
       (r # s /\ IsFixedAlloc(r) /\ IsFixedAlloc(s)) =>
         ~Intersects(FixedAddr[r], Size[r], FixedAddr[s], Size[s])

\* alloc, allocWithReservedSpace, allocWithExcludedRegion, and canAlloc,
\* canAllocWithReservedSpace, canAllocWithExcludedRegion (test).
Call(req, test, keep, spills, dir) ==
  /\ pc = "idle"
  /\ CanRequest(req, keep)
  /\ test => ~spills
  /\ call' = [test |-> test, keep |-> keep, spills |-> spills, dir |-> dir]
  /\ todo' = req
  /\ dead' = IF test THEN dead ELSE dead \ ToSet(req)
  /\ pc' = IF keep # None THEN "keep" ELSE "place"
  /\ before' = scanVars
  /\ UNCHANGED <<reserved, scanVars, pending, temp, candidates, newAddr, spilled, ret>>

\* The client has the result.  Clients throw when alloc fails, and here they do
\* not call again when a spill was refused, which leaves newAddr behind.
Return ==
  /\ pc = "returned"
  /\ newAddr = None
  /\ pc' = "idle"
  /\ call' = NoCall
  /\ todo' = <<>> /\ spilled' = {} /\ ret' = None /\ before' = None
  /\ UNCHANGED <<reserved, scanVars, dead, pending, temp, candidates, newAddr>>

\* The client is done with a range.
MarkAsDead(r) ==
  /\ pc = "idle"
  /\ r \in RangesOf(live)
  /\ dead' = dead \cup {r}
  /\ UNCHANGED <<pc, reserved, scanVars, call, todo, pending, temp, candidates, newAddr, spilled, ret, before>>

FreeDeadRanges ==
  /\ pc = "idle"
  /\ dead # {}
  /\ pc' = "sweep"
  /\ UNCHANGED <<reserved, scanVars, dead, call, todo, pending, temp, candidates, newAddr, spilled, ret, before>>

\* Mutant: the last element is popped without being moved.
PopOnly(s, i) == [j \in 1 .. Len(s) - 1 |-> s[j]]

\* *it = _liveRanges.back(); _liveRanges.pop_back()
SwapAndPop(s, i) == [j \in 1 .. Len(s) - 1 |-> IF j = i THEN s[Len(s)] ELSE s[j]]

ReleaseLive(i) ==
  /\ gaps' = FreeInto(gaps, live[i].addr, Size[live[i].range])
  /\ live' = SwapAndPop(live, i)

Sweep ==
  /\ pc = "sweep"
  /\ LET found == {i \in DOMAIN live : live[i].range \in dead}
     IN  \/ found # {} /\ ReleaseLive(Max(found)) /\ UNCHANGED <<pc, dead>>
         \/ found = {} /\ pc' = "idle" /\ dead' = {} /\ UNCHANGED <<gaps, live>>
  /\ UNCHANGED <<reserved, call, todo, pending, temp, candidates, newAddr, spilled, ret, before>>

-----------------------------------------------------------------------------
(***************************************************************************)
(* Memory that is kept while the call runs, and the tests.                 *)
(***************************************************************************)
AllocFrom(size, alignment) == ChooseMinimalGap(gaps, size, alignment, call.dir)
AddrIn(i, size, alignment) == GetAddrFromGap(gaps[i], size, alignment, call.dir)

\* Partitioner::alloc for memory to be freed when the call returns.
AllocTemp(size, alignment) ==
  LET i == AllocFrom(size, alignment)
  IN  \/ /\ i # 0
         /\ gaps' = UseGap(gaps, i, AddrIn(i, size, alignment), size)
         /\ temp' = Append(temp, Block(AddrIn(i, size, alignment), size))
         /\ pc' = "place"
         /\ UNCHANGED ret
      \/ /\ i = 0
         /\ ret' = FALSE
         /\ pc' = "restore"
         /\ UNCHANGED <<gaps, temp>>

Keep ==
  /\ pc = "keep"
  /\ \/ /\ call.keep.kind = "space"
        /\ AllocTemp(call.keep.space.size, call.keep.space.alignment)
     \/ /\ call.keep.kind = "region"
        /\ gaps' = AllocFixedFrom(gaps, call.keep.block.addr, call.keep.block.size)
        /\ temp' = Append(temp, call.keep.block)
        /\ pc' = "place"
        /\ UNCHANGED ret
  /\ UNCHANGED <<reserved, live, dead, call, todo, pending, candidates, newAddr, spilled, before>>

Test ==
  /\ pc = "place"
  /\ call.test
  /\ \/ /\ todo # <<>>
        /\ AllocTemp(Size[Head(todo)], Alignment[Head(todo)])
        /\ todo' = Tail(todo)
     \/ /\ todo = <<>>
        /\ ret' = TRUE
        /\ pc' = "restore"
        /\ UNCHANGED <<gaps, temp, todo>>
  /\ UNCHANGED <<reserved, live, dead, call, pending, candidates, newAddr, spilled, before>>

\* Mutant: the reserved space is not freed.
RestoreNothing ==
  /\ pc = "restore"
  /\ pc' = "returned"
  /\ temp' = <<>>
  /\ UNCHANGED <<reserved, scanVars, dead, call, todo, pending, candidates, newAddr, spilled, ret, before>>

\* The end of every call: ~TempAllocationTester, or the frees after alloc.
Restore ==
  /\ pc = "restore"
  /\ \/ /\ temp # <<>>
        /\ gaps' = FreeInto(gaps, Head(temp).addr, Head(temp).size)
        /\ temp' = Tail(temp)
        /\ UNCHANGED pc
     \/ /\ temp = <<>>
        /\ pc' = "returned"
        /\ UNCHANGED <<gaps, temp>>
  /\ UNCHANGED <<reserved, live, dead, call, todo, pending, candidates, newAddr, spilled, ret, before>>

-----------------------------------------------------------------------------
(***************************************************************************)
(* alloc.                                                                  *)
(***************************************************************************)
\* Its two loops: the fixed ranges first.
NewIndex ==
  LET fixed == {i \in DOMAIN todo : IsFixedAlloc(todo[i])}
  IN  IF fixed = {} THEN 1 ELSE Min(fixed)

NewRange == todo[NewIndex]
Placing == pc = "place" /\ ~call.test /\ todo # <<>>

HasRoom ==
  IF IsFixedAlloc(NewRange)
  THEN \A i \in DOMAIN live :
         ~Intersects(FixedAddr[NewRange], Size[NewRange], live[i].addr, Size[live[i].range])
  ELSE AllocFrom(Size[NewRange], Alignment[NewRange]) # 0

\* allocFixedRange and allocDynamicRange find an address; a dynamic range gets
\* its memory at once, a fixed one when the candidates have been processed.
FindAddress ==
  /\ Placing
  /\ HasRoom
  /\ \/ /\ IsFixedAlloc(NewRange)
        /\ newAddr' = FixedAddr[NewRange]
        /\ UNCHANGED gaps
     \/ /\ ~IsFixedAlloc(NewRange)
        /\ LET i == AllocFrom(Size[NewRange], Alignment[NewRange])
           IN  /\ newAddr' = AddrIn(i, Size[NewRange], Alignment[NewRange])
               /\ gaps' = UseGap(gaps, i, newAddr', Size[NewRange])
  /\ pc' = "process"
  /\ UNCHANGED <<reserved, live, dead, call, todo, pending, temp, candidates, spilled, ret, before>>

\* std::min_element takes the first of equal ones.
SpillCandidate ==
  CHOOSE i \in DOMAIN live :
    \A j \in DOMAIN live :
      \/ SpillWeight[live[i].range] < SpillWeight[live[j].range]
      \/ SpillWeight[live[i].range] = SpillWeight[live[j].range] /\ i <= j

GetSpillCandidate ==
  /\ Placing
  /\ ~HasRoom
  /\ call.spills /\ live # <<>>
  /\ candidates' = Append(candidates, live[SpillCandidate])
  /\ ReleaseLive(SpillCandidate)
  /\ UNCHANGED <<pc, reserved, dead, call, todo, pending, temp, newAddr, spilled, ret, before>>

\* return false: the candidates are forgotten, the guard rolls back what it has
\* recorded.  That leaves out the block of the range being placed, if it has one.
Fail ==
  /\ pc' = "rollback"
  /\ candidates' = <<>>
  /\ ret' = FALSE
  /\ UNCHANGED newAddr

\* Mutant: the loop does not notice that nothing is left to spill.
NeverRunOut ==
  /\ Placing
  /\ ~HasRoom
  /\ ~call.spills
  /\ Fail
  /\ UNCHANGED <<reserved, scanVars, dead, call, todo, pending, temp, spilled, before>>

GiveUp ==
  /\ Placing
  /\ ~HasRoom
  /\ ~call.spills \/ live = <<>>
  /\ Fail
  /\ UNCHANGED <<reserved, scanVars, dead, call, todo, pending, temp, spilled, before>>

\* Mutant: a candidate that did not have to go is forgotten.
KeepCandidate ==
  /\ candidates' = Tail(candidates)
  /\ UNCHANGED <<gaps, live, pc, newAddr, ret, spilled>>

\* restoreNonConflictingRange
RestoreCandidate ==
  LET c == Head(candidates)
  IN  /\ gaps' = AllocFixedFrom(gaps, c.addr, Size[c.range])
      /\ live' = Append(live, c)
      /\ candidates' = Tail(candidates)
      /\ UNCHANGED <<pc, newAddr, ret, spilled>>

\* spillConflictingRange
SpillOut(answer) ==
  \/ /\ answer
     /\ spilled' = spilled \cup {Head(candidates)}
     /\ candidates' = Tail(candidates)
     /\ UNCHANGED <<gaps, live, pc, newAddr, ret>>
  \/ /\ ~answer
     /\ Fail
     /\ UNCHANGED <<gaps, live, spilled>>

\* processSpillCandidates
ProcessCandidate ==
  /\ pc = "process"
  /\ candidates # <<>>
  /\ LET c == Head(candidates)
         conflict == Intersects(c.addr, Size[c.range], newAddr, Size[NewRange])
     IN  \/ conflict /\ \E answer \in SpillAnswers : SpillOut(answer)
         \/ ~conflict /\ RestoreCandidate
  /\ UNCHANGED <<reserved, dead, call, todo, pending, temp, before>>

RecordAllocation ==
  /\ pc = "process"
  /\ candidates = <<>>
  /\ gaps' = IF IsFixedAlloc(NewRange) THEN AllocFixedFrom(gaps, newAddr, Size[NewRange]) ELSE gaps
  /\ pending' = Append(pending, [range |-> NewRange, addr |-> newAddr])
  /\ todo' = RemoveAt(todo, NewIndex)
  /\ newAddr' = None
  /\ pc' = "place"
  /\ UNCHANGED <<reserved, live, dead, call, temp, candidates, spilled, ret, before>>

Commit ==
  /\ pc = "place"
  /\ ~call.test /\ todo = <<>>
  /\ live' = live \o pending
  /\ pending' = <<>>
  /\ ret' = TRUE
  /\ pc' = "restore"
  /\ UNCHANGED <<gaps, reserved, dead, call, todo, temp, candidates, newAddr, spilled, before>>

\* Mutant: the blocks already placed are not freed.
RollbackNothing ==
  /\ pc = "rollback"
  /\ pending' = <<>>
  /\ pc' = "restore"
  /\ UNCHANGED <<reserved, scanVars, dead, call, todo, temp, candidates, newAddr, spilled, ret, before>>

\* ~AllocationGuard
Rollback ==
  /\ pc = "rollback"
  /\ \/ /\ pending # <<>>
        /\ gaps' = FreeInto(gaps, Head(pending).addr, Size[Head(pending).range])
        /\ pending' = Tail(pending)
        /\ UNCHANGED pc
     \/ /\ pending = <<>>
        /\ pc' = "restore"
        /\ UNCHANGED <<gaps, pending>>
  /\ UNCHANGED <<reserved, live, dead, call, todo, temp, candidates, newAddr, spilled, ret, before>>

CallStep ==
  \/ Keep \/ Test \/ Restore
  \/ FindAddress \/ GetSpillCandidate \/ GiveUp \/ ProcessCandidate \/ RecordAllocation
  \/ Commit \/ Rollback \/ Sweep

Next ==
  \/ Construct
  \/ \E req \in BoundedSeq(Ranges, MaxRequest), test \in BOOLEAN, keep \in Keepable,
        spills \in AllowSpills, dir \in Directions : Call(req, test, keep, spills, dir)
  \/ \E r \in Ranges : MarkAsDead(r)
  \/ FreeDeadRanges
  \/ Return
  \/ CallStep

Spec == Init /\ [][Next]_vars

\* A call runs to its end; nothing makes a client call.
FairSpec == Spec /\ WF_vars(CallStep)

-----------------------------------------------------------------------------
(***************************************************************************)
(* Properties.                                                             *)
(***************************************************************************)
\* The block of the range being placed, also when a refused spill leaves it behind.
PlacedBlock ==
  IF newAddr # None /\ ~IsFixedAlloc(NewRange) THEN {Block(newAddr, Size[NewRange])} ELSE {}

\* What LinearScan holds of the memory.
Held ==
  ToSet(reserved) \cup ToSet(temp) \cup PlacedBlock
  \cup {BlockOf(p) : p \in ToSet(live \o pending)}

P == INSTANCE Partitioner WITH
       used <- Held,
       Sizes <- {Size[r] : r \in Ranges}
                \cup {b.size : b \in Regions \cup ToSet(Reserved) \cup ReservedSpaces},
       Alignments <- {Alignment[r] : r \in Ranges} \cup {b.alignment : b \in ReservedSpaces}

Placed == [range : Ranges, addr : Nat]
Places == {"construct", "idle", "sweep", "keep", "place", "process", "rollback", "restore", "returned"}

\* The values the allocator's state may hold; a range is live at most once.
TypeOK ==
  /\ pc \in Places
  /\ gaps \in Seq([begin : Nat, end : Nat])
  /\ live \in Seq(Placed) /\ Cardinality(RangesOf(live)) = Len(live)
  /\ dead \subseteq Ranges
  /\ todo \in Seq(Ranges)
  /\ pending \in Seq(Placed) /\ candidates \in Seq(Placed)
  /\ spilled \subseteq Placed
  /\ ret \in BOOLEAN \cup {None}

\* LinearScan keeps to the contract of Partitioner, which checks it by assert
\* only: it places fixed and restored ranges where the memory is free, frees
\* what it holds and nothing else, and knows of every block it holds.
UsesPartitioner == P!Spec

\* No two live ranges overlap, whatever was spilled and restored to place them,
\* and none overlaps a reserved block.
LiveRangesDisjoint ==
  /\ \A i, j \in DOMAIN live : i # j =>
       ~Intersects(live[i].addr, Size[live[i].range], live[j].addr, Size[live[j].range])
  /\ \A i \in DOMAIN live, k \in DOMAIN reserved :
       ~Intersects(live[i].addr, Size[live[i].range], reserved[k].addr, reserved[k].size)

\* alloc returns "true if all ranges allocated successfully, false otherwise and
\* no changes are made".  So it is without spilling, the way the compiler calls it:
\* a call that fails at one of several ranges gives back the memory of all the
\* others.  And of canAlloc and its variants, "The state is restored after the
\* check", whatever it answers.  Both go back to the very list of gaps.
NoTraceLeft ==
  (pc = "returned" /\ (call.test \/ (ret = FALSE /\ ~call.spills))) => scanVars = before

\* A call that succeeds leaves every other range where it was, unless it told
\* the handler that it spilled it.
SuccessKeepsOthers ==
  (pc = "returned" /\ ret = TRUE) => ToSet(before[2]) \subseteq spilled \cup ToSet(live)

\* Every call returns: spilling ends when there is nothing left to spill.
CallReturns == pc \in {"keep", "place"} ~> pc = "returned"
=============================================================================
