-------------------------------- MODULE Spilling --------------------------------
(***************************************************************************)
(* FeasibleMemorySchedulerSpilling (feasible_memory_scheduler_spilling.cpp).*)
(* Three passes over the schedule remove spills that are not needed, and a *)
(* fourth one turns the others into DMA operations.  What they change:     *)
(*   list      the schedule                                                *)
(*   scan      the address LinearScan knows for each buffer                *)
(*   reRead    _reReadDataInRoot, the data operations to repeat            *)
(*   modified  the operations with modifiedMemoryRange_                    *)
(*   undefined an index that erase was given is past the end               *)
(* No operation works in place, so a buffer has one writer, or writers of  *)
(* different parts.                                                        *)
(***************************************************************************)
EXTENDS MemoryScheduler

IsSpill(e) == e.type \in {"write", "read"}
Only(rs) == CHOOSE r \in rs : TRUE
OutBuffer(e) == Only(e.outs).buf
SpillBuffer(e) == IF e.type = "write" THEN Only(e.ins).buf ELSE OutBuffer(e)
Writers(b) == {i \in Ops : b \in prog.outs[i]}

OneWriter(b) == Cardinality(Writers(b)) = 1
WithoutIndexes(list, ks) ==
  LET kept == Ascending(DOMAIN list \ ks) IN [k \in DOMAIN kept |-> list[kept[k]]]

-----------------------------------------------------------------------------
(***************************************************************************)
(* optimizeDataOpsSpills: a data operation that is not used before it is   *)
(* evicted is done when it is read back, and one that is only read is done *)
(* again instead of being written out.                                     *)
(***************************************************************************)
\* dataOpSpillTree: where the data operation and its spills are.
SpillTree(list, d) ==
  LET spills == {k \in DOMAIN list : IsSpill(list[k]) /\ list[k].op = d}
  IN  IF spills = {} \/ Cardinality(prog.outs[d]) > 1 THEN <<>>
      ELSE Ascending(spills \cup {Max({k \in 1 .. Min(spills) - 1 : IsOriginal(list[k]) /\ list[k].op = d})})

\* Mutant: a later read is not made the operation itself.
RemovePairAlone(acc, tree, i) == [acc EXCEPT !.remove = @ \cup {tree[i], tree[i + 1]}]

\* The pair is not needed; if it began with the operation itself, the next read
\* takes its place.
RemovePair(acc, tree, i) ==
  LET first == acc.list[tree[i]]
      reads == {j \in i + 2 .. Len(tree) : acc.list[tree[j]].type = "read"}
  IN  [acc EXCEPT
        !.remove = @ \cup {tree[i], tree[i + 1]},
        !.list = IF ~IsOriginal(first) \/ reads = {} THEN @
                 ELSE [@ EXCEPT ![tree[Min(reads)]].type = first.type,
                                ![tree[Min(reads)]].ins = first.ins]]

\* The write is not needed; the first buffer gets back its address.
ReReadInstead(acc, tree, i) ==
  LET first == acc.list[tree[i]] b == OutBuffer(first)
  IN  [acc EXCEPT
        !.remove = @ \cup {tree[i + 1]},
        !.reRead = @ \cup {first.op},
        !.scan = IF b \in acc.allocated THEN @ ELSE [@ EXCEPT ![b] = Only(first.outs).addr],
        !.allocated = @ \cup {b}]

OptimizePair(acc, tree, i) ==
  LET first == acc.list[tree[i]]
      b == OutBuffer(first)
      between == {acc.list[k].op : k \in tree[i] + 1 .. tree[i + 1] - 1}
      argument == \E j \in between : b \in prog.ins[j]
      result == \E j \in between : b \in prog.outs[j]
  IN  IF first.type = "write" \/ acc.list[tree[i + 1]].type # "write" THEN acc
      ELSE IF ~argument /\ ~result THEN RemovePair(acc, tree, i)
      ELSE IF argument /\ ~result /\ OneWriter(b) /\ first.op \notin prog.strided
      THEN ReReadInstead(acc, tree, i)
      ELSE acc

OptimizeDataOpsSpills(s) ==
  LET Optimize(acc, d) ==
        LET tree == SpillTree(s.list, d)
        IN  FoldLeft(LAMBDA a, i : OptimizePair(a, tree, i), acc, [i \in 1 .. Len(tree) - 1 |-> i])
      done == FoldLeft(Optimize, [list |-> s.list, scan |-> s.scan, reRead |-> s.reRead,
                                  allocated |-> {}, remove |-> {}], Ascending(isDataOp))
  IN  [s EXCEPT !.list = WithoutIndexes(done.list, done.remove),
                !.scan = done.scan, !.reRead = done.reRead]

-----------------------------------------------------------------------------
(***************************************************************************)
(* removeComputeOpRelocationSpills: a result that is written out and read  *)
(* back to another address at once is put there from the start.            *)
(***************************************************************************)
\* The events at the closest other time before and after event w.
TimeBefore(list, w) ==
  LET before == {k \in 1 .. w - 1 : list[k].begin < list[w].begin}
  IN  {k \in before : list[k].begin = Max({list[j].begin : j \in before})}
TimeAfter(list, w) ==
  LET after == {k \in w + 1 .. Len(list) : list[k].begin > list[w].begin}
  IN  {k \in after : list[k].begin = Min({list[j].begin : j \in after})}

\* Mutant: what is in the memory meanwhile is not looked at.
RangeNeverUsed(list, first, write, read, orig) == FALSE

\* Whether the memory to which the result is read back is used from first on.
RangeUsed(list, first, write, read, orig) ==
  LET target == Only(list[read].outs)
      Touches(r) == Overlap(r.buf, r.addr, target.buf, target.addr)
  IN  \E k \in first .. read - 1 \ {write} :
        \/ \E r \in list[k].ins : Touches(r)
        \/ \E r \in list[k].outs : Touches(r) /\ ~(k = orig /\ r.buf = target.buf)

Relocate(acc, w) ==
  LET list == acc.list
      origs == {k \in TimeBefore(list, w) : list[k].op = list[w].op /\ IsOriginal(list[k])}
      reads == {k \in TimeAfter(list, w) : list[k].op = list[w].op}
      b == SpillBuffer(list[w])
  IN  IF \/ origs = {} \/ reads = {}
         \/ RangeUsed(list, Min(TimeBefore(list, w)), w, Min(reads), Min(origs))
         \/ ~OneWriter(b)
      THEN acc
      ELSE [acc EXCEPT
             !.list[Min(origs)].outs = {r \in @ : r.buf # b} \cup list[Min(reads)].outs,
             !.modified = @ \cup {list[w].op},
             !.remove = @ \o <<w, Min(reads)>>]

\* computeSpillWriteMap and spillReadCount: the writes of single results that are
\* read back once, by operation.
RelocationWrites(list) ==
  LET Writes(i) == {k \in DOMAIN list : list[k].type = "write" /\ list[k].op = i}
      Reads(i) == {k \in DOMAIN list : list[k].type = "read" /\ list[k].op = i}
      chosen == {i \in Ops \ isDataOp : /\ Cardinality(prog.outs[i]) = 1 /\ Writes(i) # {}
                                        /\ Cardinality({k \in Reads(i) : k > Min(Writes(i))}) = 1}
      Before(k, l) == list[k].op < list[l].op \/ (list[k].op = list[l].op /\ k < l)
  IN  Sorted(UNION {Writes(i) : i \in chosen}, Before)

\* The indexes to remove are used from the last one found to the first, whatever
\* their order.
EraseEach(s, indexes) ==
  FoldLeft(LAMBDA acc, k : IF k > Len(acc.list) THEN [acc EXCEPT !.undefined = TRUE]
                           ELSE [acc EXCEPT !.list = RemoveAt(@, k)],
           s, Reverse(indexes))

RemoveComputeOpRelocationSpills(s) ==
  LET done == FoldLeft(Relocate, [list |-> s.list, modified |-> {}, remove |-> <<>>],
                       RelocationWrites(s.list))
  IN  EraseEach([s EXCEPT !.list = done.list, !.modified = done.modified], done.remove)

-----------------------------------------------------------------------------
(***************************************************************************)
(* removeRedundantSpillWrites: a buffer that has been written out before,  *)
(* or is never read back, is not written out.                              *)
(***************************************************************************)
SameSpill(list, k, l) ==
  SpillBuffer(list[k]) = SpillBuffer(list[l]) /\ list[k].op = list[l].op

RemoveRedundantSpillWrites(s) ==
  LET list == s.list
      Spills(type) == {k \in DOMAIN list : list[k].type = type}
      again == {k \in Spills("write") : \E j \in Spills("write") : j < k /\ SameSpill(list, j, k)}
      unread == {k \in Spills("write") \ again :
                  ~\E j \in Spills("read") : j > k /\ SameSpill(list, k, j)}
  IN  [s EXCEPT
        !.list = WithoutIndexes(list, again \cup unread),
        !.scan = FoldLeft(LAMBDA scan, k : [scan EXCEPT ![SpillBuffer(list[k])] = Only(list[k].ins).addr],
                          @, Ascending(unread))]
=============================================================================
