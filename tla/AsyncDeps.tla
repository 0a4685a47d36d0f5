------------------------------- MODULE AsyncDeps -------------------------------
(***************************************************************************)
(* vpux::AsyncDepsInfo (async_deps_info.cpp): the dependencies between the *)
(* 'async.execute' operations 1 .. n of a function.  depsMap[i] is the set *)
(* of operations that i waits for.                                         *)
(***************************************************************************)
EXTENDS Integers, FiniteSetsExt, SequencesExt

Upto(n) == [i \in 1 .. n |-> i]

\* addDependency for each pair <<from, to>> of edges.
AddDependencies(depsMap, edges) ==
  [i \in DOMAIN depsMap |-> depsMap[i] \cup {e[1] : e \in {e \in edges : e[2] = i}}]

\* computeFullClosureWithBitVector: what was closed before is used again; the last
\* operation is not closed, since nothing depends on it.
FullClosure(depsMap) ==
  FoldLeft(LAMBDA closure, i : [closure EXCEPT ![i] = @ \cup UNION {closure[d] : d \in depsMap[i]}],
           depsMap, Upto(Len(depsMap) - 1))

\* computePartialClosureWithDenseSet: the dependencies of the dependencies only.
PartialClosure(depsMap) ==
  [i \in DOMAIN depsMap |->
    IF i = Len(depsMap) THEN depsMap[i] ELSE depsMap[i] \cup UNION {depsMap[d] : d \in depsMap[i]}]

\* computeTransitiveClosure
Closure(depsMap, threshold) ==
  IF Len(depsMap) > threshold THEN PartialClosure(depsMap) ELSE FullClosure(depsMap)

\* Mutant: whatever a dependency reaches directly or not, it is dropped with it.
OptimizeTooMuch(depsMap, threshold) ==
  [i \in DOMAIN depsMap |->
    {d \in depsMap[i] : \A c \in depsMap[i] : d \notin depsMap[c]} \ {Max({0} \cup depsMap[i])}]

\* optimizeDepsMap: a dependency is dropped when another one implies it.  The ones
\* already dropped count too, as the loop runs over a copy.
OptimizeDepsMap(depsMap, threshold) ==
  LET closure == Closure(depsMap, threshold)
  IN  [i \in DOMAIN depsMap |->
        IF Cardinality(depsMap[i]) <= 1 THEN depsMap[i]
        ELSE {d \in depsMap[i] : \A c \in depsMap[i] : d \notin closure[c]}]

\* The pairs <<d, i>> where i waits for d, directly or not, whatever order the
\* operations are numbered in.
Ordered(depsMap) ==
  FoldLeft(LAMBDA order, k :
             order \cup ({p[1] : p \in {p \in order : p[2] = k}} \X {p[2] : p \in {p \in order : p[1] = k}}),
           UNION {depsMap[i] \X {i} : i \in DOMAIN depsMap}, Upto(Len(depsMap)))

\* hasCycle, as verifyAcyclic needs it.
HasCycle(depsMap) == \E i \in DOMAIN depsMap : <<i, i>> \in Ordered(depsMap)
=============================================================================
