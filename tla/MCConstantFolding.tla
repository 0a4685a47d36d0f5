--------------------------- MODULE MCConstantFolding ---------------------------
(***************************************************************************)
(* Instances of ConstantFolding for TLC.                                   *)
(***************************************************************************)
EXTENDS ConstantFolding

CONSTANTS small, large

MCSize == [x \in Attrs |-> IF x = small THEN 2 ELSE 3]

\* What ContentAttr::get asks for.
PlainRequests == [kind : {"fold"}, attr : Attrs, from : {None}]

\* Requests of every kind: large is a constant that an equivalence or one more
\* transformation makes of small.
AllRequests ==
  PlainRequests \cup {[kind |-> "extend", attr |-> large, from |-> small],
                      [kind |-> "equivalence", attr |-> large, from |-> small]}

\* A behaviour of up to k requests, each one of R.
UpTo(k, R) == [n \in 1 .. MaxRequests |-> IF n <= k THEN R ELSE {}]

\* One folding thread, the default, and a cache that overflows.
Overflowing ==
  [requests |-> UpTo(3, PlainRequests), maxConcurrentTasks |-> 1,
   memoryUsageLimit |-> 5, cleanLevel |-> 2, maxLookups |-> 2]

\* One constant alone reaches the limit.
Tiny == [Overflowing EXCEPT !.memoryUsageLimit = 3, !.cleanLevel = 1, !.maxLookups = 0]

\* One folding thread and a cache that holds everything.
Roomy == [Overflowing EXCEPT !.memoryUsageLimit = 60, !.cleanLevel = 40, !.maxLookups = 0]

\* Two folding threads and, once something was folded, requests of every kind.
Concurrent ==
  [Roomy EXCEPT !.requests = [UpTo(3, AllRequests) EXCEPT ![1] = PlainRequests],
                !.maxConcurrentTasks = 2]

\* Both constants are folded and then renamed, twice and in either direction: each
\* of two tasks may hold the entry that the other one wants.
Fold(a) == [kind |-> "fold", attr |-> a, from |-> None]
Renames == [kind : {"equivalence"}, attr : Attrs, from : Attrs]
Exchanging ==
  [Concurrent EXCEPT !.requests = <<{Fold(small)}, {Fold(large)},
                                    {r \in Renames : r.from # r.attr},
                                    {r \in Renames : r.from # r.attr}>>]

EachConfig == {Overflowing, Tiny, Concurrent, Exchanging}
OverflowingOnly == {Overflowing}
RoomyOnly == {Roomy}
=============================================================================
