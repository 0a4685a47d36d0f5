---------------------------- MODULE DataTheorems ----------------------------
(***************************************************************************)
(* What the models use to compute with, proved once for all of them: sums  *)
(* over finite sets, folds over sequences, sets in a strict order, the     *)
(* sequences themselves, and the algorithms of GapLists on a list of gaps. *)
(*                                                                         *)
(* Sums and folds go by the subsets of a finite set: a smallest set that   *)
(* is a counterexample (WFMin, which is about a set and not about an       *)
(* operator).  The lists of gaps rest on what a list covers: SpliceGaps    *)
(* says it of the one operation that changes a list, UseGapTakesBlock and  *)
(* FreeIntoAdds say that alloc removes a block from what is covered and    *)
(* free adds one.  GapListsUnique says that nothing else is in a list.     *)
(***************************************************************************)
EXTENDS GapLists, FiniteSetsExt, SequencesExt, FiniteSetTheorems, SequenceTheorems, WellFoundedInduction, TLAPS

\* A nonempty set of numbers has a least one.
LEMMA NatMinimum ==
  ASSUME NEW S, S \subseteq Nat, S # {}
  PROVE  \E m \in S : \A n \in S : m <= n
<1>1. PICK m \in S : \A n \in S : <<n, m>> \notin OpToRel(<, Nat)
  BY NatLessThanWellFounded, WFMin
<1>2. \A n \in S : ~(n < m)
  BY <1>1 DEF OpToRel
<1> QED BY <1>2

-----------------------------------------------------------------------------
(***************************************************************************)
(* Sums: MapThenSumSet over a finite set.                                  *)
(***************************************************************************)
Sum(f, S) == MapThenSumSet(LAMBDA x : f[x], S)

\* The element that the fold takes next, and the function it computes.
NextOf(S) == CHOOSE x \in S : TRUE
SumStep(f, g, S) == IF S = {} THEN 0 ELSE f[NextOf(S)] + g[S \ {NextOf(S)}]
SumsSubsets(f, g, S) == g = [T \in SUBSET S |-> SumStep(f, g, T)]
SubsetSums(f, S) == CHOOSE g : SumsSubsets(f, g, S)

-----------------------------------------------------------------------------
\* A set of subsets of a finite set that is not empty has a member none of whose
\* proper subsets is in it: a smallest counterexample.
LEMMA MinimalSubset ==
  ASSUME NEW S, IsFiniteSet(S), NEW F \in SUBSET (SUBSET S), F # {}
  PROVE  \E T \in F : \A U \in F : U \subseteq T => U = T
<1> DEFINE R == StrictSubsetOrdering(S)
<1>1. F \subseteq FiniteSubsetsOf(S)
  BY FS_FiniteSubsetsOfFinite
<1>2. IsWellFoundedOn(R, FiniteSubsetsOf(S))
  BY FS_StrictSubsetOrderingWellFounded
<1>3. PICK T \in F : \A U \in F : ~(<<U, T>> \in R)
  <2> HIDE DEF R
  <2> QED BY <1>1, <1>2, WFMin
<1>4. \A U \in F : U \subseteq T => U = T
  BY <1>3 DEF StrictSubsetOrdering
<1> QED BY <1>4

\* The fold takes a member of the set.
LEMMA NextOfIsMember ==
  ASSUME NEW S, S # {}
  PROVE  NextOf(S) \in S
BY DEF NextOf

\* MapThenSumSet is the value for the whole set of the function that sums subsets.
LEMMA SumIsSubsetSums ==
  ASSUME NEW f, NEW S
  PROVE  Sum(f, S) = SubsetSums(f, S)[S]
BY DEF Sum, MapThenSumSet, MapThenFoldSet, SubsetSums, SumsSubsets, SumStep, NextOf

\* Two functions that sum the subsets of two sets agree on the subsets of both.
LEMMA SubsetSumsAgree ==
  ASSUME NEW f, NEW S, NEW T, IsFiniteSet(S), NEW g, NEW h,
         SumsSubsets(f, g, S), SumsSubsets(f, h, T)
  PROVE  \A U \in SUBSET (S \cap T) : g[U] = h[U]
<1> DEFINE F == {U \in SUBSET S : U \subseteq T /\ g[U] # h[U]}
<1> SUFFICES ASSUME F # {} PROVE FALSE
  OBVIOUS
<1>1. PICK U \in F : \A V \in F : V \subseteq U => V = U
  <2> HIDE DEF F
  <2> SUFFICES F \in SUBSET (SUBSET S)
    BY MinimalSubset
  <2> QED BY DEF F
<1>2. g[U] = SumStep(f, g, U) /\ h[U] = SumStep(f, h, U)
  BY DEF SumsSubsets
<1>3. U # {}
  BY <1>2 DEF SumStep
<1> DEFINE V == U \ {NextOf(U)}
<1>4. NextOf(U) \in U
  BY <1>3, NextOfIsMember
<1>5. V # U /\ V \subseteq U
  BY <1>4
<1>6. V \notin F
  BY <1>1, <1>5
<1>7. g[V] = h[V]
  BY <1>5, <1>6
<1> QED BY <1>2, <1>7 DEF SumStep

\* There is a function that sums the subsets of a finite set.
LEMMA SubsetSumsExist ==
  ASSUME NEW f, NEW S, IsFiniteSet(S)
  PROVE  SumsSubsets(f, SubsetSums(f, S), S)
<1> DEFINE Some(T) == \E g : SumsSubsets(f, g, T)
           F == {T \in SUBSET S : ~Some(T)}
<1>1. ASSUME F # {} PROVE FALSE
  <2>1. PICK T \in F : \A U \in F : U \subseteq T => U = T
    <3> HIDE DEF F
    <3> SUFFICES F \in SUBSET (SUBSET S)
      BY <1>1, MinimalSubset
    <3> QED BY DEF F
  <2> DEFINE rest(U) == U \ {NextOf(U)}
             sums(U) == CHOOSE g : SumsSubsets(f, g, U)
             g == [U \in SUBSET T |-> IF U = {} THEN 0
                                       ELSE f[NextOf(U)] + sums(rest(U))[rest(U)]]
  <2>2. ASSUME NEW U \in SUBSET T, U # T PROVE SumsSubsets(f, sums(U), U)
    <3>1. U \in SUBSET S /\ U \notin F
      BY <2>1, <2>2
    <3> QED BY <3>1
  <2>3. ASSUME NEW U \in SUBSET T, U # {} PROVE rest(U) \in SUBSET T /\ rest(U) # T /\ rest(U) # U
    BY <2>3, NextOfIsMember
  <2>4. ASSUME NEW V \in SUBSET T, V # T PROVE g[V] = sums(V)[V]
    <3>1. SumsSubsets(f, sums(V), V)
      BY <2>2, <2>4
    <3> HIDE DEF sums
    <3>2. sums(V)[V] = SumStep(f, sums(V), V)
      BY <3>1 DEF SumsSubsets
    <3>3. CASE V = {}
      BY <3>2, <3>3 DEF SumStep
    <3>4. CASE V # {}
      <4>1. rest(V) \in SUBSET T /\ rest(V) # T /\ rest(V) \in SUBSET V
        BY <3>4, <2>3
      <4>2. SumsSubsets(f, sums(rest(V)), rest(V))
        BY <4>1, <2>2
      <4>3. IsFiniteSet(V)
        BY FS_Subset, <2>1
      <4> HIDE DEF rest
      <4>4. sums(V)[rest(V)] = sums(rest(V))[rest(V)]
        BY <3>1, <4>1, <4>2, <4>3, SubsetSumsAgree
      <4> QED BY <3>2, <3>4, <4>4 DEF SumStep, rest
    <3> QED BY <3>3, <3>4
  <2>5. ASSUME NEW U \in SUBSET T PROVE g[U] = SumStep(f, g, U)
    <3>1. CASE U = {}
      BY <3>1 DEF SumStep
    <3>2. CASE U # {}
      <4>1. rest(U) \in SUBSET T /\ rest(U) # T
        BY <3>2, <2>3
      <4>2. g[rest(U)] = sums(rest(U))[rest(U)]
        BY <4>1, <2>4
      <4>3. g[U] = f[NextOf(U)] + sums(rest(U))[rest(U)]
        BY <3>2
      <4> HIDE DEF g, sums
      <4> QED BY <4>2, <4>3, <3>2 DEF SumStep
    <3> QED BY <3>1, <3>2
  <2>6. SumsSubsets(f, g, T)
    <3>1. g = [U \in SUBSET T |-> g[U]]
      OBVIOUS
    <3> HIDE DEF g
    <3> QED BY <3>1, <2>5 DEF SumsSubsets
  <2> QED BY <2>1, <2>6
<1>2. Some(S)
  BY <1>1
<1> QED BY <1>2 DEF SubsetSums

-----------------------------------------------------------------------------
\* An empty sum is 0.
LEMMA SumEmpty ==
  ASSUME NEW f
  PROVE  Sum(f, {}) = 0
<1>1. SumsSubsets(f, SubsetSums(f, {}), {})
  BY SubsetSumsExist, FS_EmptySet
<1> QED BY <1>1, SumIsSubsetSums DEF SumsSubsets, SumStep

\* What the fold does in its first step.
LEMMA SumTakesNext ==
  ASSUME NEW f, NEW S, IsFiniteSet(S), S # {}
  PROVE  Sum(f, S) = f[NextOf(S)] + Sum(f, S \ {NextOf(S)})
<1> DEFINE T == S \ {NextOf(S)}
           g == SubsetSums(f, S)
           h == SubsetSums(f, T)
<1>1. SumsSubsets(f, g, S)
  BY SubsetSumsExist
<1>2. IsFiniteSet(T)
  BY FS_RemoveElement
<1>3. SumsSubsets(f, h, T)
  BY <1>2, SubsetSumsExist
<1>4. g[S] = f[NextOf(S)] + g[T]
  BY <1>1 DEF SumsSubsets, SumStep
<1>5. g[T] = h[T]
  <2> HIDE DEF g, h
  <2> QED BY <1>1, <1>3, SubsetSumsAgree, SMTT(30)
<1>6. Sum(f, S) = g[S] /\ Sum(f, T) = h[T]
  BY SumIsSubsetSums
<1> QED BY <1>4, <1>5, <1>6

\* A sum of integers is an integer.
LEMMA SumIsInt ==
  ASSUME NEW S, IsFiniteSet(S), NEW f, \A x \in S : f[x] \in Int
  PROVE  Sum(f, S) \in Int
<1> DEFINE F == {T \in SUBSET S : Sum(f, T) \notin Int}
<1> SUFFICES ASSUME F # {} PROVE FALSE
  OBVIOUS
<1>1. PICK T \in F : \A U \in F : U \subseteq T => U = T
  <2> HIDE DEF F
  <2> SUFFICES F \in SUBSET (SUBSET S)
    BY MinimalSubset
  <2> QED BY DEF F
<1>2. T # {}
  BY SumEmpty
<1> DEFINE U == T \ {NextOf(T)}
<1>3. NextOf(T) \in T
  BY <1>2, NextOfIsMember
<1>4. Sum(f, U) \in Int
  BY <1>1, <1>3
<1>5. IsFiniteSet(T)
  BY FS_Subset
<1>6. Sum(f, T) = f[NextOf(T)] + Sum(f, U)
  BY <1>2, <1>5, SumTakesNext
<1>7. f[NextOf(T)] \in Int
  BY <1>3
<1> QED BY <1>4, <1>6, <1>7

\* The sum does not depend on the order in which the fold takes the members.
LEMMA SumRemove ==
  ASSUME NEW S, IsFiniteSet(S), NEW f, \A x \in S : f[x] \in Int, NEW y \in S
  PROVE  Sum(f, S) = f[y] + Sum(f, S \ {y})
<1> DEFINE F == {T \in SUBSET S : \E x \in T : Sum(f, T) # f[x] + Sum(f, T \ {x})}
<1> SUFFICES ASSUME F # {} PROVE FALSE
  OBVIOUS
<1>1. PICK T \in F : \A U \in F : U \subseteq T => U = T
  <2> HIDE DEF F
  <2> SUFFICES F \in SUBSET (SUBSET S)
    BY MinimalSubset
  <2> QED BY DEF F
<1>2. PICK x \in T : Sum(f, T) # f[x] + Sum(f, T \ {x})
  OBVIOUS
<1> DEFINE n == NextOf(T)
           rest == (T \ {x}) \ {n}
<1>3. n \in T
  BY <1>2, NextOfIsMember
<1>4. \A U \in SUBSET T : U \in SUBSET S /\ IsFiniteSet(U)
  BY FS_Subset
<1>5. Sum(f, T) = f[n] + Sum(f, T \ {n})
  BY <1>2, <1>4, SumTakesNext
<1>6. n # x
  BY <1>2, <1>5
<1>7. Sum(f, T \ {n}) = f[x] + Sum(f, rest)
  <2>1. T \ {n} \notin F /\ x \in T \ {n} /\ T \ {n} \in SUBSET S
    BY <1>1, <1>3, <1>6
  <2>2. (T \ {n}) \ {x} = rest
    OBVIOUS
  <2> QED BY <2>1, <2>2
<1>8. Sum(f, T \ {x}) = f[n] + Sum(f, rest)
  <2>1. T \ {x} \notin F /\ n \in T \ {x} /\ T \ {x} \in SUBSET S
    BY <1>1, <1>2, <1>3, <1>6
  <2> QED BY <2>1
<1>9. Sum(f, rest) \in Int /\ f[x] \in Int /\ f[n] \in Int
  <2> rest \in SUBSET T
    OBVIOUS
  <2> QED BY <1>3, <1>4, SumIsInt
<1> HIDE DEF n, rest, F
<1>10. Sum(f, T) = f[n] + (f[x] + Sum(f, rest))
  BY <1>5, <1>7
<1> QED BY <1>2, <1>8, <1>9, <1>10

\* One more member adds its value.
LEMMA SumAdd ==
  ASSUME NEW S, IsFiniteSet(S), NEW f, NEW y, y \notin S, \A x \in S \cup {y} : f[x] \in Int
  PROVE  Sum(f, S \cup {y}) = Sum(f, S) + f[y]
<1> DEFINE T == S \cup {y}
<1>1. IsFiniteSet(T)
  BY FS_AddElement
<1>2. Sum(f, T) = f[y] + Sum(f, T \ {y})
  <2> HIDE DEF T
  <2> y \in T /\ \A x \in T : f[x] \in Int
    BY DEF T
  <2> QED BY <1>1, SumRemove
<1>3. T \ {y} = S
  OBVIOUS
<1>4. Sum(f, S) \in Int
  BY SumIsInt
<1>5. f[y] \in Int
  OBVIOUS
<1>6. Sum(f, S \cup {y}) = f[y] + Sum(f, S)
  BY <1>2, <1>3
<1> HIDE DEF T
<1> QED BY <1>4, <1>5, <1>6, SMT

\* A sum of naturals is one, and not below the sum of any subset.
LEMMA SumOfNaturals ==
  ASSUME NEW S, IsFiniteSet(S), NEW f, \A x \in S : f[x] \in Nat
  PROVE  /\ Sum(f, S) \in Nat
         /\ \A x \in S : f[x] <= Sum(f, S)
<1> DEFINE F == {T \in SUBSET S : Sum(f, T) \notin Nat}
<1>1. ASSUME F # {} PROVE FALSE
  <2>1. PICK T \in F : \A U \in F : U \subseteq T => U = T
    <3> HIDE DEF F
    <3> SUFFICES F \in SUBSET (SUBSET S)
      BY <1>1, MinimalSubset
    <3> QED BY DEF F
  <2>2. PICK x \in T : TRUE
    BY SumEmpty
  <2>3. Sum(f, T \ {x}) \in Nat
    BY <2>1
  <2>4. IsFiniteSet(T) /\ \A z \in T : f[z] \in Int
    BY FS_Subset
  <2>5. Sum(f, T) = f[x] + Sum(f, T \ {x})
    BY <2>4, SumRemove
  <2>6. f[x] \in Nat
    OBVIOUS
  <2> QED BY <2>3, <2>5, <2>6
<1>2. ASSUME NEW x \in S PROVE f[x] <= Sum(f, S)
  <2>1. Sum(f, S \ {x}) \in Nat
    BY <1>1
  <2>2. Sum(f, S) = f[x] + Sum(f, S \ {x})
    BY SumRemove
  <2>3. f[x] \in Nat
    OBVIOUS
  <2> QED BY <2>1, <2>2, <2>3
<1>3. Sum(f, S) \in Nat
  BY <1>1
<1> QED BY <1>2, <1>3

\* The sum depends only on the values at the members.
LEMMA SumAgree ==
  ASSUME NEW S, IsFiniteSet(S), NEW f, NEW g, \A x \in S : f[x] \in Int /\ f[x] = g[x]
  PROVE  Sum(f, S) = Sum(g, S)
<1> DEFINE F == {T \in SUBSET S : Sum(f, T) # Sum(g, T)}
<1> SUFFICES ASSUME F # {} PROVE FALSE
  OBVIOUS
<1>1. PICK T \in F : \A U \in F : U \subseteq T => U = T
  <2> HIDE DEF F
  <2> SUFFICES F \in SUBSET (SUBSET S)
    BY MinimalSubset
  <2> QED BY DEF F
<1>2. PICK x \in T : TRUE
  BY SumEmpty
<1>3. Sum(f, T \ {x}) = Sum(g, T \ {x})
  BY <1>1
<1>4. IsFiniteSet(T) /\ (\A z \in T : f[z] \in Int) /\ (\A z \in T : g[z] \in Int)
  BY FS_Subset
<1>5. Sum(f, T) = f[x] + Sum(f, T \ {x})
  BY <1>4, SumRemove
<1>6. Sum(g, T) = g[x] + Sum(g, T \ {x})
  BY <1>4, SumRemove
<1> QED BY <1>3, <1>5, <1>6

\* With values that are naturals, a subset sums to at most as much.
LEMMA SumOfSubset ==
  ASSUME NEW S, IsFiniteSet(S), NEW f, \A x \in S : f[x] \in Nat, NEW T \in SUBSET S
  PROVE  Sum(f, T) <= Sum(f, S)
<1> DEFINE F == {U \in SUBSET S : T \subseteq U /\ ~(Sum(f, T) <= Sum(f, U))}
<1> SUFFICES ASSUME F # {} PROVE FALSE
  OBVIOUS
<1>1. PICK U \in F : \A V \in F : V \subseteq U => V = U
  <2> HIDE DEF F
  <2> SUFFICES F \in SUBSET (SUBSET S)
    BY MinimalSubset
  <2> QED BY DEF F
<1>2. \A V \in SUBSET S : Sum(f, V) \in Nat
  BY FS_Subset, SumOfNaturals
<1>3. U # T
  BY <1>2
<1>4. PICK x \in U : x \notin T
  BY <1>3
<1>5. Sum(f, T) <= Sum(f, U \ {x})
  BY <1>1, <1>4
<1>6. IsFiniteSet(U) /\ \A z \in U : f[z] \in Int
  BY FS_Subset
<1>7. Sum(f, U) = f[x] + Sum(f, U \ {x})
  BY <1>6, SumRemove
<1>8. f[x] \in Nat /\ Sum(f, U \ {x}) \in Nat /\ Sum(f, T) \in Nat
  BY <1>2
<1> QED BY <1>5, <1>7, <1>8

-----------------------------------------------------------------------------
\* On a finite set that is not empty a function has a largest value.
LEMMA LargestValue ==
  ASSUME NEW S, IsFiniteSet(S), S # {}, NEW f, \A x \in S : f[x] \in Int
  PROVE  \E x \in S : \A y \in S : f[y] <= f[x]
<1> DEFINE From(x) == {y \in S : f[y] >= f[x]}
           F == {From(x) : x \in S}
<1>1. F \in SUBSET (SUBSET S) /\ F # {}
  OBVIOUS
<1> HIDE DEF F
<1>2. PICK T \in F : \A U \in F : U \subseteq T => U = T
  BY <1>1, MinimalSubset
<1>3. PICK x \in S : T = From(x)
  BY <1>2 DEF F
<1>4. ASSUME NEW y \in S, ~(f[y] <= f[x]) PROVE FALSE
  <2>1. f[x] \in Int /\ f[y] \in Int /\ f[y] > f[x]
    BY <1>4
  <2>2. \A z \in S : f[z] >= f[y] => f[z] >= f[x]
    <3> SUFFICES ASSUME NEW z \in S, f[z] >= f[y] PROVE f[z] >= f[x]
      OBVIOUS
    <3> QED BY <2>1
  <2>3. From(y) \subseteq From(x) /\ From(y) \in F
    BY <2>2 DEF F
  <2>4. From(y) = From(x)
    BY <1>2, <1>3, <2>3
  <2>5. x \in From(x) /\ x \notin From(y)
    BY <2>1
  <2> QED BY <2>4, <2>5
<1> QED BY <1>4

-----------------------------------------------------------------------------
(***************************************************************************)
(* Folds over sequences.                                                   *)
(***************************************************************************)
\* A function that takes the elements of seq whose positions are in s, from the
\* left: run[k] is what the first k positions give.
Runs(step, base, seq, s, n, run) ==
  /\ run[0] = base
  /\ \A k \in 1 .. n : run[k] = IF k \in s THEN step[<<run[k - 1], seq[k]>>] ELSE run[k - 1]

\* The equation that the function of MapThenFoldSet solves.
FoldEquation(step, base, seq, it, s) ==
  it[s] = IF s = {} THEN base ELSE step[<<it[s \ {Max(s)}], seq[Max(s)]>>]

\* The fold from base stays in V, and W says more of the value for each set of positions.
FoldStays(V, W, step, base, seq) ==
  /\ base \in V /\ base \in W[{}]
  /\ \A s \in SUBSET DOMAIN seq : s # {} =>
       \A v \in V : v \in W[s \ {Max(s)}] => step[<<v, seq[Max(s)]>>] \in W[s]

\* it is the solution of the equation, and so does any function that solves the
\* equation where it agrees with it.
FoldSolution(W, step, base, seq, it) ==
  /\ \A s \in SUBSET DOMAIN seq : FoldEquation(step, base, seq, it, s) /\ it[s] \in W[s]
  /\ \A jt :
       (/\ jt[{}] = base
        /\ \A s \in SUBSET DOMAIN seq :
             s # {} /\ jt[s \ {Max(s)}] = it[s \ {Max(s)}] => FoldEquation(step, base, seq, jt, s))
       => jt[DOMAIN seq] = it[DOMAIN seq]

-----------------------------------------------------------------------------
\* There is such a run for every set of positions.
LEMMA RunExists ==
  ASSUME NEW V, NEW T, NEW seq \in Seq(T), NEW step \in [V \X T -> V], NEW base \in V, NEW s
  PROVE  \E run \in [0 .. Len(seq) -> V] : Runs(step, base, seq, s, Len(seq), run)
<1> DEFINE Some(n) == \E run \in [0 .. n -> V] : Runs(step, base, seq, s, n, run)
           F == {n \in 0 .. Len(seq) : ~Some(n)}
<1>1. Some(0)
  <2> DEFINE run == [k \in 0 .. 0 |-> base]
  <2>1. run \in [0 .. 0 -> V] /\ run[0] = base
    OBVIOUS
  <2>2. 1 .. 0 = {}
    OBVIOUS
  <2> HIDE DEF run
  <2>3. Runs(step, base, seq, s, 0, run)
    BY <2>1, <2>2 DEF Runs
  <2> QED BY <2>1, <2>3
<1>2. ASSUME NEW n \in 1 .. Len(seq), Some(n - 1) PROVE Some(n)
  <2>1. PICK run \in [0 .. n - 1 -> V] : Runs(step, base, seq, s, n - 1, run)
    BY <1>2
  <2> DEFINE last == IF n \in s THEN step[<<run[n - 1], seq[n]>>] ELSE run[n - 1]
             next == [k \in 0 .. n |-> IF k = n THEN last ELSE run[k]]
  <2>2. last \in V
    <3>1. run[n - 1] \in V /\ seq[n] \in T
      BY ElementOfSeq
    <3> QED BY <3>1
  <2> HIDE DEF last
  <2>3. next \in [0 .. n -> V]
    BY <2>2
  <2>4. next[0] = base
    BY <2>1 DEF Runs
  <2>5. ASSUME NEW k \in 1 .. n
        PROVE  next[k] = IF k \in s THEN step[<<next[k - 1], seq[k]>>] ELSE next[k - 1]
    <3>1. CASE k = n
      <4>1. next[k] = last /\ next[k - 1] = run[n - 1]
        BY <3>1
      <4> QED BY <4>1, <3>1 DEF last
    <3>2. CASE k # n
      BY <3>2, <2>1 DEF Runs
    <3> QED BY <3>1, <3>2
  <2> HIDE DEF next
  <2> QED BY <2>3, <2>4, <2>5 DEF Runs
<1>3. F = {}
  <2> SUFFICES ASSUME F # {} PROVE FALSE
    OBVIOUS
  <2>1. F \subseteq Nat
    OBVIOUS
  <2>2. PICK n \in F : \A k \in F : n <= k
    <3> HIDE DEF F
    <3> QED BY <2>1, NatMinimum
  <2>3. n \in 1 .. Len(seq)
    <3>1. n \in 0 .. Len(seq) /\ ~Some(n)
      OBVIOUS
    <3> HIDE DEF Some
    <3> QED BY <1>1, <3>1
  <2>4. n - 1 \notin F
    BY <2>2, <2>3
  <2>5. Some(n - 1)
    BY <2>3, <2>4
  <2> HIDE DEF Some
  <2> QED BY <1>2, <2>3, <2>5 DEF Some
<1>4. Len(seq) \in 0 .. Len(seq)
  OBVIOUS
<1> QED BY <1>3, <1>4

\* What a run gives for the first k positions depends on those only.
LEMMA RunPrefix ==
  ASSUME NEW seq, NEW step, NEW base, NEW s, NEW r, NEW f, NEW g, NEW m \in Nat, NEW n \in 0 .. m,
         Runs(step, base, seq, s, m, f), Runs(step, base, seq, r, m, g),
         \A k \in 1 .. n : k \in s <=> k \in r
  PROVE  f[n] = g[n]
<1> DEFINE F == {k \in 0 .. n : f[k] # g[k]}
<1> SUFFICES ASSUME F # {} PROVE FALSE
  OBVIOUS
<1>1. F \subseteq Nat
  OBVIOUS
<1>2. PICK k \in F : \A j \in F : k <= j
  <2> HIDE DEF F
  <2> QED BY <1>1, NatMinimum
<1>3. k \in 1 .. n
  BY DEF Runs
<1>4. k - 1 \notin F
  BY <1>2, <1>3
<1>5. f[k - 1] = g[k - 1]
  BY <1>3, <1>4
<1>6. /\ f[k] = IF k \in s THEN step[<<f[k - 1], seq[k]>>] ELSE f[k - 1]
      /\ g[k] = IF k \in r THEN step[<<g[k - 1], seq[k]>>] ELSE g[k - 1]
  BY <1>3 DEF Runs
<1>7. k \in s <=> k \in r
  BY <1>3
<1>8. f[k] = g[k]
  BY <1>5, <1>6, <1>7, Zenon
<1> QED BY <1>8

\* A finite set of numbers that is not empty has a greatest member, and Max is it.
LEMMA MaxIsGreatest ==
  ASSUME NEW S, S \subseteq Int, IsFiniteSet(S), S # {}
  PROVE  Max(S) \in S /\ \A x \in S : x <= Max(S)
<1> DEFINE f == [x \in S |-> x]
<1>1. \A x \in S : f[x] \in Int
  OBVIOUS
<1>2. PICK x \in S : \A y \in S : f[y] <= f[x]
  <2> HIDE DEF f
  <2> QED BY <1>1, LargestValue
<1>3. \A y \in S : x >= y
  BY <1>2
<1> QED BY <1>3 DEF Max

\* The values of a function on a finite set are finitely many.
LEMMA ValuesAreFinite ==
  ASSUME NEW S, IsFiniteSet(S), NEW f
  PROVE  IsFiniteSet({f[x] : x \in S})
<1> DEFINE T == {f[x] : x \in S}
           g == [x \in S |-> f[x]]
<1>1. g \in [S -> T] /\ \A y \in T : \E x \in S : g[x] = y
  OBVIOUS
<1>2. g \in Surjection(S, T)
  <2> HIDE DEF g, T
  <2> QED BY <1>1 DEF Surjection
<1> HIDE DEF g, T
<1>3. IsFiniteSet(T)
  BY <1>2, FS_Surjection
<1> QED BY <1>3 DEF T

\* The equation of the fold has a solution with values in V.
LEMMA FoldExists ==
  ASSUME NEW V, NEW T, NEW seq \in Seq(T), NEW step \in [V \X T -> V], NEW base \in V
  PROVE  \E it \in [SUBSET DOMAIN seq -> V] :
           \A s \in SUBSET DOMAIN seq : FoldEquation(step, base, seq, it, s)
<1> DEFINE n == Len(seq)
           RunOf(s) == CHOOSE run \in [0 .. n -> V] : Runs(step, base, seq, s, n, run)
           it == [s \in SUBSET DOMAIN seq |-> RunOf(s)[n]]
<1>1. \A s : RunOf(s) \in [0 .. n -> V] /\ Runs(step, base, seq, s, n, RunOf(s))
  BY RunExists
<1>2. n \in Nat /\ DOMAIN seq = 1 .. n
  OBVIOUS
<1> HIDE DEF RunOf
<1>3. it \in [SUBSET DOMAIN seq -> V]
  BY <1>1, <1>2
<1>4. ASSUME NEW s \in SUBSET DOMAIN seq, s = {} PROVE it[s] = base
  <2>1. RunOf(s)[0] = base
    BY <1>1 DEF Runs
  <2>2. Runs(step, base, seq, {}, n, RunOf(s))
    BY <1>1, <1>4
  <2>3. [k \in 0 .. n |-> base] \in [0 .. n -> V] /\ Runs(step, base, seq, {}, n, [k \in 0 .. n |-> base])
    BY <1>2 DEF Runs
  <2>4. RunOf(s)[n] = [k \in 0 .. n |-> base][n]
    <3> DEFINE flat == [k \in 0 .. n |-> base]
    <3>1. n \in 0 .. n
      BY <1>2
    <3> HIDE DEF n, flat
    <3> QED BY <2>2, <2>3, <1>2, <3>1, RunPrefix DEF flat
  <2> QED BY <2>4, <1>2, <1>4
<1>5. ASSUME NEW s \in SUBSET DOMAIN seq, s # {}
      PROVE  it[s] = step[<<it[s \ {Max(s)}], seq[Max(s)]>>]
  <2> DEFINE x == Max(s)
             r == s \ {x}
  <2>1. IsFiniteSet(s)
    <3>1. IsFiniteSet(1 .. n)
      BY FS_Interval, <1>2
    <3> QED BY <3>1, FS_Subset, <1>2
  <2>2. x \in s /\ \A y \in s : y <= x
    BY <2>1, <1>2, <1>5, MaxIsGreatest
  <2> HIDE DEF x
  <2>3. x \in 1 .. n
    BY <2>2, <1>2
  <2>4. ASSUME NEW t \in SUBSET s, \A y \in t : y <= x PROVE RunOf(t)[n] = RunOf(t)[x]
    <3> DEFINE f == RunOf(t)
               F == {k \in x .. n : f[k] # f[x]}
    <3> SUFFICES ASSUME F # {} PROVE FALSE
      BY <2>3
    <3>1. F \subseteq Nat
      BY <2>3
    <3>2. PICK k \in F : \A j \in F : k <= j
      <4> HIDE DEF F
      <4> QED BY <3>1, NatMinimum
    <3>3. k \in x + 1 .. n /\ k - 1 \notin F
      BY <3>2, <2>3
    <3>4. f[k - 1] = f[x]
      BY <3>3, <2>3
    <3>5. k \notin t
      BY <3>3, <2>4, <2>3
    <3>6. k \in 1 .. n
      BY <3>3, <2>3
    <3>7. f[k] = f[k - 1]
      BY <3>5, <3>6, <1>1 DEF Runs
    <3> QED BY <3>4, <3>7
  <2>5. RunOf(s)[x] = step[<<RunOf(s)[x - 1], seq[x]>>]
    BY <1>1, <2>2, <2>3 DEF Runs
  <2>6. RunOf(s)[x - 1] = RunOf(r)[x - 1]
    <3>1. \A k \in 1 .. x - 1 : k \in s <=> k \in r
      BY <2>3
    <3>2. x - 1 \in 0 .. n
      BY <2>3
    <3> HIDE DEF r, n
    <3> QED BY <1>1, <1>2, <3>1, <3>2, RunPrefix
  <2>7. RunOf(r)[x] = RunOf(r)[x - 1]
    BY <1>1, <2>3 DEF Runs
  <2>8. RunOf(s)[n] = RunOf(s)[x] /\ RunOf(r)[n] = RunOf(r)[x]
    BY <2>2, <2>4
  <2>9. r \in SUBSET DOMAIN seq
    OBVIOUS
  <2> QED BY <2>5, <2>6, <2>7, <2>8, <2>9 DEF x
<1> HIDE DEF it
<1> QED BY <1>3, <1>4, <1>5 DEF FoldEquation

LEMMA SmallestSetExists ==
  ASSUME NEW S, IsFiniteSet(S)
  PROVE  \A G \in SUBSET (SUBSET S) : G # {} => \E s \in G : \A r \in G : r \subseteq s => r = s
BY MinimalSubset

\* The fold is one of the values that W allows.
LEMMA FoldWithin ==
  ASSUME NEW V, NEW T, NEW seq \in Seq(T), NEW step \in [V \X T -> V], NEW base, NEW W,
         FoldStays(V, W, step, base, seq)
  PROVE  \E it \in [SUBSET DOMAIN seq -> V] : FoldSolution(W, step, base, seq, it)
<1> DEFINE D == DOMAIN seq
<1>1. base \in V /\ base \in W[{}]
  BY DEF FoldStays
<1>2. PICK it \in [SUBSET D -> V] : \A s \in SUBSET D : FoldEquation(step, base, seq, it, s)
  BY <1>1, FoldExists
<1>3. IsFiniteSet(D) /\ D \subseteq Int
  <2>1. Len(seq) \in Nat /\ D = 1 .. Len(seq)
    OBVIOUS
  <2>2. IsFiniteSet(1 .. Len(seq))
    BY <2>1, FS_Interval
  <2> QED BY <2>1, <2>2
<1>4. ASSUME NEW s \in SUBSET D, s # {} PROVE Max(s) \in s /\ s \ {Max(s)} \in SUBSET D /\ s \ {Max(s)} # s
  <2>1. IsFiniteSet(s) /\ s \subseteq Int
    BY <1>3, FS_Subset
  <2> QED BY <1>4, <2>1, MaxIsGreatest
<1>8. \A G \in SUBSET (SUBSET D) : G # {} => \E s \in G : \A r \in G : r \subseteq s => r = s
  BY <1>3, SmallestSetExists
<1>5. \A s \in SUBSET D : it[s] \in W[s]
  <2> DEFINE F == {s \in SUBSET D : it[s] \notin W[s]}
  <2> SUFFICES ASSUME F # {} PROVE FALSE
    OBVIOUS
  <2>1. PICK s \in F : \A r \in F : r \subseteq s => r = s
    <3>1. F \in SUBSET (SUBSET D)
      OBVIOUS
    <3>2. F # {}
      OBVIOUS
    <3> HIDE DEF F, D
    <3> QED BY <1>8, <3>1, <3>2, Zenon
  <2>2. it[{}] = base
    <3>1. {} \in SUBSET D
      OBVIOUS
    <3> QED BY <1>2, <3>1 DEF FoldEquation
  <2>3. s # {}
    BY <1>1, <2>2
  <2> DEFINE r == s \ {Max(s)}
  <2>4. r \in SUBSET D /\ r # s
    BY <1>4, <2>3
  <2>5. r \notin F
    BY <2>1, <2>4
  <2>6. it[r] \in W[r] /\ it[r] \in V
    BY <2>4, <2>5
  <2>7. it[s] = step[<<it[r], seq[Max(s)]>>]
    BY <1>2, <2>3 DEF FoldEquation
  <2>8. it[s] \in W[s]
    BY <2>3, <2>6, <2>7 DEF FoldStays
  <2> QED BY <2>8
<1>6. ASSUME NEW jt, jt[{}] = base,
             \A s \in SUBSET D :
               s # {} /\ jt[s \ {Max(s)}] = it[s \ {Max(s)}] => FoldEquation(step, base, seq, jt, s)
      PROVE  jt[D] = it[D]
  <2> DEFINE F == {s \in SUBSET D : jt[s] # it[s]}
  <2> SUFFICES ASSUME F # {} PROVE FALSE
    OBVIOUS
  <2>1. PICK s \in F : \A r \in F : r \subseteq s => r = s
    <3>1. F \in SUBSET (SUBSET D)
      OBVIOUS
    <3>2. F # {}
      OBVIOUS
    <3> HIDE DEF F, D
    <3> QED BY <1>8, <3>1, <3>2, Zenon
  <2>2. it[{}] = base
    <3>1. {} \in SUBSET D
      OBVIOUS
    <3> QED BY <1>2, <3>1 DEF FoldEquation
  <2>3. s # {}
    BY <1>6, <2>2
  <2> DEFINE r == s \ {Max(s)}
  <2>4. r \in SUBSET D /\ r # s
    BY <1>4, <2>3
  <2>5. r \notin F
    BY <2>1, <2>4
  <2>6. jt[r] = it[r]
    BY <2>4, <2>5
  <2>7. jt[s] = step[<<jt[r], seq[Max(s)]>>]
    BY <1>6, <2>3, <2>6 DEF FoldEquation
  <2>8. it[s] = step[<<it[r], seq[Max(s)]>>]
    BY <1>2, <2>3 DEF FoldEquation
  <2> QED BY <2>6, <2>7, <2>8
<1>7. FoldSolution(W, step, base, seq, it)
  <2> HIDE DEF D
  <2> QED BY <1>2, <1>5, <1>6 DEF FoldSolution, D
<1> QED BY <1>7

-----------------------------------------------------------------------------
\* A strict total order of a set, as a set of pairs.
StrictOrder(R, S) ==
  /\ \A x \in S : <<x, x>> \notin R
  /\ \A x, y, z \in S : <<x, y>> \in R /\ <<y, z>> \in R => <<x, z>> \in R
  /\ \A x, y \in S : x = y \/ <<x, y>> \in R \/ <<y, x>> \in R

OrderRank(R, S, x) == Cardinality({y \in S : <<y, x>> \in R})
ByRank(R, S) == [k \in 1 .. Cardinality(S) |-> CHOOSE x \in S : OrderRank(R, S, x) = k - 1]

\* In a finite set every member has a rank of its own, and every rank is taken.
LEMMA RanksAreTaken ==
  ASSUME NEW S, IsFiniteSet(S), NEW R, StrictOrder(R, S)
  PROVE  /\ \A x \in S : OrderRank(R, S, x) \in 0 .. Cardinality(S) - 1
         /\ \A x, y \in S : OrderRank(R, S, x) = OrderRank(R, S, y) => x = y
         /\ \A k \in 1 .. Cardinality(S) : \E x \in S : OrderRank(R, S, x) = k - 1
<1> DEFINE n == Cardinality(S)
           below(x) == {y \in S : <<y, x>> \in R}
           rank == [x \in S |-> OrderRank(R, S, x)]
<1>1. n \in Nat
  BY FS_CardinalityType
<1>2. ASSUME NEW x \in S PROVE OrderRank(R, S, x) \in Nat /\ OrderRank(R, S, x) < n
  <2>1. below(x) \in SUBSET S /\ x \notin below(x)
    BY DEF StrictOrder
  <2>2. below(x) # S
    BY <2>1
  <2> HIDE DEF below
  <2>3. IsFiniteSet(below(x)) /\ Cardinality(below(x)) <= n /\ Cardinality(below(x)) # n
    BY <2>1, <2>2, FS_Subset
  <2>4. Cardinality(below(x)) \in Nat
    BY <2>3, FS_CardinalityType
  <2> QED BY <1>1, <2>3, <2>4 DEF OrderRank, below
<1>3. ASSUME NEW x \in S, NEW y \in S, <<x, y>> \in R PROVE OrderRank(R, S, x) # OrderRank(R, S, y)
  <2>1. below(x) \in SUBSET below(y) /\ x \in below(y) /\ x \notin below(x)
    BY <1>3 DEF StrictOrder
  <2>2. below(y) \in SUBSET S /\ below(x) # below(y)
    BY <2>1
  <2> HIDE DEF below
  <2>3. IsFiniteSet(below(y))
    BY <2>2, FS_Subset
  <2>4. Cardinality(below(x)) # Cardinality(below(y))
    BY <2>1, <2>2, <2>3, FS_Subset
  <2> QED BY <2>4 DEF OrderRank, below
<1>4. \A x, y \in S : OrderRank(R, S, x) = OrderRank(R, S, y) => x = y
  <2> SUFFICES ASSUME NEW x \in S, NEW y \in S, x # y PROVE OrderRank(R, S, x) # OrderRank(R, S, y)
    OBVIOUS
  <2>1. <<x, y>> \in R \/ <<y, x>> \in R
    BY DEF StrictOrder
  <2> QED BY <1>3, <2>1
<1>5. rank \in [S -> 0 .. n - 1]
  BY <1>1, <1>2
<1>6. rank \in Injection(S, 0 .. n - 1)
  <2>1. \A x, y \in S : rank[x] = rank[y] => x = y
    BY <1>4
  <2> HIDE DEF rank
  <2> QED BY <1>5, <2>1 DEF Injection, IsInjective
<1>7. IsFiniteSet(0 .. n - 1) /\ Cardinality(0 .. n - 1) = n
  <2>1. 0 \in Int /\ n - 1 \in Int
    BY <1>1
  <2> HIDE DEF n
  <2>2. IsFiniteSet(0 .. n - 1) /\ Cardinality(0 .. n - 1) = IF 0 > n - 1 THEN 0 ELSE n - 1 - 0 + 1
    BY <2>1, FS_Interval
  <2> QED BY <1>1, <2>2
<1>8. rank \in Surjection(S, 0 .. n - 1)
  <2> HIDE DEF rank
  <2> QED BY <1>6, <1>7, FS_Injection
<1>9. \A k \in 0 .. n - 1 : \E x \in S : rank[x] = k
  <2> HIDE DEF rank
  <2> QED BY <1>8 DEF Surjection
<1>10. \A k \in 1 .. n : \E x \in S : OrderRank(R, S, x) = k - 1
  BY <1>1, <1>9
<1> QED BY <1>1, <1>2, <1>4, <1>10

\* The members of a finite set by rank: each of them once.
LEMMA ByRankIsSorted ==
  ASSUME NEW S, IsFiniteSet(S), NEW R, StrictOrder(R, S)
  PROVE  /\ ByRank(R, S) \in Seq(S)
         /\ Len(ByRank(R, S)) = Cardinality(S)
         /\ \A x \in S : \E k \in DOMAIN ByRank(R, S) : ByRank(R, S)[k] = x
         /\ \A j, k \in DOMAIN ByRank(R, S) : ByRank(R, S)[j] = ByRank(R, S)[k] => j = k
<1> DEFINE n == Cardinality(S)
           q == ByRank(R, S)
<1>1. n \in Nat
  BY FS_CardinalityType
<1>2. \A k \in 1 .. n : q[k] \in S /\ OrderRank(R, S, q[k]) = k - 1
  BY RanksAreTaken DEF ByRank
<1>3. q \in Seq(S) /\ Len(q) = n /\ DOMAIN q = 1 .. n
  <2>1. q = [k \in 1 .. n |-> q[k]]
    BY DEF ByRank
  <2>2. q \in [1 .. n -> S]
    <3> HIDE DEF q
    <3> QED BY <1>2, <2>1
  <2> HIDE DEF q
  <2> QED BY <1>1, <2>2, SeqDef, LenProperties
<1>4. ASSUME NEW x \in S PROVE \E k \in DOMAIN q : q[k] = x
  <2>1. PICK k \in 1 .. n : k - 1 = OrderRank(R, S, x)
    <3>1. OrderRank(R, S, x) \in 0 .. n - 1
      BY RanksAreTaken
    <3>2. OrderRank(R, S, x) + 1 \in 1 .. n /\ (OrderRank(R, S, x) + 1) - 1 = OrderRank(R, S, x)
      BY <1>1, <3>1
    <3> QED BY <3>2
  <2> HIDE DEF q
  <2>2. OrderRank(R, S, q[k]) = OrderRank(R, S, x) /\ q[k] \in S
    BY <1>2, <2>1
  <2>3. q[k] = x
    BY <2>2, RanksAreTaken
  <2> QED BY <1>3, <2>3
<1>5. ASSUME NEW j \in DOMAIN q, NEW k \in DOMAIN q, q[j] = q[k] PROVE j = k
  <2> HIDE DEF q
  <2>1. j - 1 = k - 1 /\ j \in Int /\ k \in Int
    BY <1>2, <1>3, <1>5
  <2> QED BY <2>1
<1> QED BY <1>3, <1>4, <1>5

\* Max of finitely many naturals is one of them and the greatest.
LEMMA MaxOfNaturals ==
  ASSUME NEW S, S \subseteq Nat, IsFiniteSet(S), S # {}
  PROVE  Max(S) \in S /\ Max(S) \in Nat /\ \A x \in S : x <= Max(S)
<1>1. S \subseteq Int
  OBVIOUS
<1> QED BY <1>1, MaxIsGreatest

\* The position that FoldLeft takes last.
LEMMA MaxOfPositions ==
  ASSUME NEW T, NEW seq \in Seq(T), NEW p \in SUBSET DOMAIN seq, p # {}
  PROVE  Max(p) \in p /\ p \ {Max(p)} \in SUBSET DOMAIN seq
<1>1. Len(seq) \in Nat /\ DOMAIN seq = 1 .. Len(seq)
  OBVIOUS
<1>2. IsFiniteSet(p) /\ p \subseteq Int
  <2>1. IsFiniteSet(1 .. Len(seq))
    BY <1>1, FS_Interval
  <2> QED BY <1>1, <2>1, FS_Subset
<1> QED BY <1>2, MaxIsGreatest

\* A finite set has a first member in a strict total order.
LEMMA FirstInOrder ==
  ASSUME NEW S, IsFiniteSet(S), S # {}, NEW R, StrictOrder(R, S)
  PROVE  \E x \in S : \A y \in S \ {x} : <<x, y>> \in R
<1>1. Cardinality(S) \in Nat /\ Cardinality(S) # 0
  BY FS_CardinalityType, FS_EmptySet
<1>2. PICK x \in S : OrderRank(R, S, x) = 0
  BY <1>1, RanksAreTaken
<1>3. IsFiniteSet({y \in S : <<y, x>> \in R})
  BY FS_Subset
<1>4. {y \in S : <<y, x>> \in R} = {}
  BY <1>2, <1>3, FS_EmptySet DEF OrderRank
<1> QED BY <1>4 DEF StrictOrder

\* The least of some naturals is one of them.
LEMMA MinOfNaturals ==
  ASSUME NEW S, S \subseteq Nat, IsFiniteSet(S), S # {}
  PROVE  Min(S) \in S /\ \A x \in S : Min(S) <= x
<1> DEFINE R == {p \in S \X S : p[1] < p[2]}
<1>1. StrictOrder(R, S)
  BY DEF StrictOrder
<1> HIDE DEF R
<1>2. PICK x \in S : \A y \in S \ {x} : <<x, y>> \in R
  BY <1>1, FirstInOrder
<1>3. \A y \in S : x <= y
  <2>1. \A y \in S \ {x} : x < y
    BY <1>2 DEF R
  <2> QED BY <2>1
<1> QED BY <1>2, <1>3 DEF Min

-----------------------------------------------------------------------------
(***************************************************************************)
(* Sequences.                                                              *)
(***************************************************************************)
\* Two sequences of one element make one of two.
LEMMA TwoElements ==
  ASSUME NEW i, NEW j
  PROVE  <<i>> \o <<j>> = <<i, j>>
<1> DEFINE w == <<i>> \o <<j>>
<1>1. <<i>> \in Seq({i, j}) /\ <<j>> \in Seq({i, j}) /\ Len(<<i>>) = 1 /\ Len(<<j>>) = 1
  OBVIOUS
<1>2. w \in Seq({i, j}) /\ Len(w) = 2 /\ w[1] = i /\ w[2] = j
  BY <1>1
<1> HIDE DEF w
<1>3. w = <<i, j>>
  BY <1>2
<1> QED BY <1>3 DEF w

\* A sequence over a set is one over a larger set.
LEMMA SeqWidens ==
  ASSUME NEW S, NEW T, S \subseteq T, NEW q \in Seq(S)
  PROVE  q \in Seq(T)
OBVIOUS

\* The first element of a list that is not empty, and the rest.
LEMMA HeadAndTail ==
  ASSUME NEW S, NEW q \in Seq(S), q # <<>>
  PROVE  /\ Head(q) = q[1] /\ 1 \in DOMAIN q /\ Head(q) \in S /\ Tail(q) \in Seq(S)
         /\ \A k \in DOMAIN Tail(q) : k + 1 \in DOMAIN q /\ Tail(q)[k] = q[k + 1]
         /\ \A k \in DOMAIN q : k = 1 \/ (k - 1 \in DOMAIN Tail(q) /\ q[k] = Tail(q)[k - 1])
         /\ \A k \in DOMAIN q : k \in Nat \ {0}
<1>1. Len(q) \in Nat \ {0} /\ DOMAIN q = 1 .. Len(q) /\ Len(Tail(q)) = Len(q) - 1
      /\ Tail(q) \in Seq(S) /\ DOMAIN Tail(q) = 1 .. Len(Tail(q))
  OBVIOUS
<1>2. \A k \in DOMAIN Tail(q) : k + 1 \in DOMAIN q /\ Tail(q)[k] = q[k + 1]
  BY <1>1
<1>3. \A k \in DOMAIN q : k = 1 \/ (k - 1 \in DOMAIN Tail(q) /\ q[k] = Tail(q)[k - 1])
  BY <1>1, <1>2
<1> QED BY <1>1, <1>2, <1>3

\* What a sequence holds.
LEMMA SeqHolds ==
  ASSUME NEW S, NEW q \in Seq(S)
  PROVE  q \in Seq(ToSet(q)) /\ IsFiniteSet(ToSet(q)) /\ ToSet(q) \subseteq S
<1>1. ToSet(q) = {q[k] : k \in 1 .. Len(q)}
  BY DEF ToSet
<1>2. IsFiniteSet(1 .. Len(q))
  BY FS_Interval
<1>3. IsFiniteSet({q[k] : k \in 1 .. Len(q)})
  <2> DEFINE f == [k \in 1 .. Len(q) |-> q[k]]
             T == {q[k] : k \in 1 .. Len(q)}
  <2>1. f \in Surjection(1 .. Len(q), T)
    BY DEF Surjection
  <2> QED BY <1>2, <2>1, FS_Surjection
<1>4. q \in Seq(ToSet(q))
  <2>1. \A k \in 1 .. Len(q) : q[k] \in ToSet(q)
    BY <1>1
  <2> QED BY <2>1
<1>5. ToSet(q) \subseteq S
  BY <1>1
<1> QED BY <1>1, <1>3, <1>4, <1>5

\* What two sequences hold together.
LEMMA AppendHolds ==
  ASSUME NEW S, NEW q \in Seq(S), NEW T, NEW r \in Seq(T)
  PROVE  ToSet(q \o r) = ToSet(q) \cup ToSet(r) /\ q \o r \in Seq(S \cup T)
<1>1. q \in Seq(S \cup T) /\ r \in Seq(S \cup T)
  BY SeqWidens
<1>2. q \o r \in Seq(S \cup T)
  BY <1>1
<1>3. /\ Len(q \o r) = Len(q) + Len(r) /\ Len(q) \in Nat /\ Len(r) \in Nat
      /\ \A k \in 1 .. Len(q) : (q \o r)[k] = q[k]
      /\ \A k \in 1 .. Len(r) : (q \o r)[Len(q) + k] = r[k]
  BY <1>1
<1>4. ToSet(q) = {q[k] : k \in 1 .. Len(q)} /\ ToSet(r) = {r[k] : k \in 1 .. Len(r)}
      /\ ToSet(q \o r) = {(q \o r)[k] : k \in 1 .. Len(q \o r)}
  BY <1>1, <1>2 DEF ToSet
<1>5. ASSUME NEW x \in ToSet(q \o r) PROVE x \in ToSet(q) \cup ToSet(r)
  <2>1. PICK k \in 1 .. Len(q) + Len(r) : x = (q \o r)[k]
    BY <1>3, <1>4
  <2>2. CASE k <= Len(q)
    <3>1. k \in 1 .. Len(q)
      BY <1>3, <2>2
    <3> QED BY <1>3, <1>4, <2>1, <3>1
  <2>3. CASE ~(k <= Len(q))
    <3>1. k - Len(q) \in 1 .. Len(r) /\ k = Len(q) + (k - Len(q))
      BY <1>3, <2>3
    <3> QED BY <1>3, <1>4, <2>1, <3>1
  <2> QED BY <2>2, <2>3
<1>6. ASSUME NEW x \in ToSet(q) PROVE x \in ToSet(q \o r)
  <2>1. PICK k \in 1 .. Len(q) : x = q[k]
    BY <1>4
  <2>2. k \in 1 .. Len(q \o r)
    BY <1>3
  <2> QED BY <1>3, <1>4, <2>1, <2>2
<1>7. ASSUME NEW x \in ToSet(r) PROVE x \in ToSet(q \o r)
  <2>1. PICK k \in 1 .. Len(r) : x = r[k]
    BY <1>4
  <2>2. Len(q) + k \in 1 .. Len(q \o r)
    BY <1>3
  <2> QED BY <1>3, <1>4, <2>1, <2>2
<1> QED BY <1>2, <1>5, <1>6, <1>7

-----------------------------------------------------------------------------
(***************************************************************************)
(* Lists of gaps.                                                          *)
(***************************************************************************)
\* alignValUp rounds up, by less than the alignment.
LEMMA AlignValUpBounds ==
  ASSUME NEW val \in Nat, NEW align \in Nat \ {0}
  PROVE  /\ AlignValUp(val, align) \in Nat
         /\ val <= AlignValUp(val, align)
         /\ AlignValUp(val, align) < val + align
<1> DEFINE q == (val + align - 1) \div align
<1>1. q \in Nat /\ q * align <= val + align - 1 /\ val + align - 1 < q * align + align
  OBVIOUS
<1> QED BY <1>1 DEF AlignValUp

\* What Splice does to each element of a sequence.
LEMMA SpliceElements ==
  ASSUME NEW S, NEW s \in Seq(S), NEW new \in Seq(S),
         NEW i \in 1 .. Len(s) + 1, NEW n \in Nat, i + n <= Len(s) + 1
  PROVE  /\ Splice(s, i, n, new) \in Seq(S)
         /\ Len(Splice(s, i, n, new)) = Len(s) - n + Len(new)
         /\ \A j \in 1 .. Len(s) - n + Len(new) :
              Splice(s, i, n, new)[j] =
                IF j < i THEN s[j]
                ELSE IF j < i + Len(new) THEN new[j - i + 1]
                ELSE s[j - Len(new) + n]
<1> DEFINE left  == SubSeq(s, 1, i - 1)
           right == SubSeq(s, i + n, Len(s))
<1>1. /\ left \in Seq(S)
      /\ Len(left) = i - 1
      /\ \A j \in 1 .. i - 1 : left[j] = s[j]
  <2>1. \A j \in 1 .. i - 1 : s[j] \in S
    BY ElementOfSeq
  <2> QED BY <2>1, SubSeqProperties
<1>2. /\ right \in Seq(S)
      /\ Len(right) = Len(s) - n - i + 1
      /\ \A j \in 1 .. Len(s) - n - i + 1 : right[j] = s[i + n + j - 1]
  <2>1. \A j \in i + n .. Len(s) : s[j] \in S
    BY ElementOfSeq
  <2> QED BY <2>1, SubSeqProperties
<1> HIDE DEF left, right
<1>3. /\ left \o new \in Seq(S)
      /\ Len(left \o new) = i - 1 + Len(new)
      /\ \A j \in 1 .. i - 1 + Len(new) :
           (left \o new)[j] = IF j < i THEN s[j] ELSE new[j - i + 1]
  <2>1. Len(new) \in Nat
    BY LenProperties
  <2>2. /\ left \o new \in Seq(S)
        /\ Len(left \o new) = Len(left) + Len(new)
        /\ \A j \in 1 .. Len(left) + Len(new) :
             (left \o new)[j] = IF j <= Len(left) THEN left[j] ELSE new[j - Len(left)]
    BY <1>1, ConcatProperties
  <2>3. ASSUME NEW j \in 1 .. i - 1 + Len(new)
        PROVE  (left \o new)[j] = IF j < i THEN s[j] ELSE new[j - i + 1]
    <3>1. j - Len(left) = j - i + 1
      BY <1>1
    <3> QED BY <1>1, <2>1, <2>2, <3>1
  <2> QED BY <1>1, <2>1, <2>2, <2>3
<1>4. /\ (left \o new) \o right \in Seq(S)
      /\ Len((left \o new) \o right) = Len(s) - n + Len(new)
      /\ \A j \in 1 .. Len(s) - n + Len(new) :
           ((left \o new) \o right)[j] =
             IF j <= i - 1 + Len(new) THEN (left \o new)[j] ELSE right[j - (i - 1 + Len(new))]
  <2>1. /\ (left \o new) \o right \in Seq(S)
        /\ Len((left \o new) \o right) = Len(left \o new) + Len(right)
        /\ \A j \in 1 .. Len(left \o new) + Len(right) :
             ((left \o new) \o right)[j] =
               IF j <= Len(left \o new) THEN (left \o new)[j] ELSE right[j - Len(left \o new)]
    <3>1. left \o new \in Seq(S) /\ right \in Seq(S)
      BY <1>2, <1>3
    <3> QED BY <3>1, ConcatProperties, Zenon
  <2>2. Len(left \o new) + Len(right) = Len(s) - n + Len(new)
    <3>1. Len(new) \in Nat /\ Len(s) \in Nat
      BY LenProperties
    <3> QED BY <1>2, <1>3, <3>1
  <2> QED BY <1>3, <2>1, <2>2
<1>5. Splice(s, i, n, new) = (left \o new) \o right
  BY DEF Splice, left, right
<1>6. ASSUME NEW j \in 1 .. Len(s) - n + Len(new)
      PROVE  Splice(s, i, n, new)[j] =
                IF j < i THEN s[j]
                ELSE IF j < i + Len(new) THEN new[j - i + 1]
                ELSE s[j - Len(new) + n]
  <2>1. CASE j <= i - 1 + Len(new)
    BY <2>1, <1>3, <1>4, <1>5, SMTT(30)
  <2>2. CASE ~(j <= i - 1 + Len(new))
    <3> DEFINE k == j - (i - 1 + Len(new))
    <3>1. k \in 1 .. Len(s) - n - i + 1 /\ i + n + k - 1 = j - Len(new) + n
      BY <2>2, LenProperties
    <3>2. ((left \o new) \o right)[j] = right[k]
      BY <2>2, <1>4
    <3> HIDE DEF k
    <3>3. right[k] = s[j - Len(new) + n]
      BY <1>2, <3>1
    <3>4. ~(j < i) /\ ~(j < i + Len(new))
      BY <2>2, LenProperties
    <3> QED BY <3>2, <3>3, <3>4, <1>5
  <2> QED BY <2>1, <2>2
<1> QED BY <1>4, <1>5, <1>6

-----------------------------------------------------------------------------
\* Lists of gaps and what they cover.
GapRec == [begin : Nat, end : Nat]
In(g, x) == g.begin <= x /\ x < g.end
Covers(gs, x) == \E i \in DOMAIN gs : In(gs[i], x)

IsGapList(gs, total) ==
  /\ gs \in Seq(GapRec)
  /\ \A i \in DOMAIN gs : gs[i].begin < gs[i].end /\ gs[i].end <= total
  /\ \A i, j \in DOMAIN gs : i < j => gs[i].end < gs[j].begin

\* SpliceElements of a list of gaps.
LEMMA SpliceGapRecords ==
  \A gs, new \in Seq(GapRec) : \A i \in 1 .. Len(gs) + 1, n \in Nat :
    i + n <= Len(gs) + 1 =>
      /\ Splice(gs, i, n, new) \in Seq(GapRec)
      /\ Len(Splice(gs, i, n, new)) = Len(gs) - n + Len(new)
      /\ \A j \in 1 .. Len(gs) - n + Len(new) :
           Splice(gs, i, n, new)[j] =
             IF j < i THEN gs[j]
             ELSE IF j < i + Len(new) THEN new[j - i + 1]
             ELSE gs[j - Len(new) + n]
<1> DEFINE S == Seq(GapRec)
<1> SUFFICES ASSUME NEW gs \in S, NEW new \in S, NEW i \in 1 .. Len(gs) + 1, NEW n \in Nat,
                    i + n <= Len(gs) + 1
             PROVE  /\ Splice(gs, i, n, new) \in Seq(GapRec)
                    /\ Len(Splice(gs, i, n, new)) = Len(gs) - n + Len(new)
                    /\ \A j \in 1 .. Len(gs) - n + Len(new) :
                         Splice(gs, i, n, new)[j] =
                           IF j < i THEN gs[j]
                           ELSE IF j < i + Len(new) THEN new[j - i + 1]
                           ELSE gs[j - Len(new) + n]
  OBVIOUS
<1> QED BY SpliceElements

\* Replacing n gaps by new ones that keep apart from the others keeps the list in
\* order; it covers what the new gaps and the other old ones cover.
LEMMA SpliceGaps ==
  ASSUME NEW total \in Nat, NEW gs, IsGapList(gs, total), NEW new, IsGapList(new, total),
         NEW i \in 1 .. Len(gs) + 1, NEW n \in Nat, i + n <= Len(gs) + 1,
         \A k \in DOMAIN new, j \in DOMAIN gs :
           /\ j < i => gs[j].end < new[k].begin
           /\ j >= i + n => new[k].end < gs[j].begin
  PROVE  /\ IsGapList(Splice(gs, i, n, new), total)
         /\ \A x \in Nat : Covers(Splice(gs, i, n, new), x) <=>
              \/ Covers(new, x)
              \/ \E j \in DOMAIN gs : (j < i \/ j >= i + n) /\ In(gs[j], x)
<1> DEFINE r == Splice(gs, i, n, new)
           L == Len(gs)
           K == Len(new)
<1>1. /\ gs \in Seq(GapRec) /\ new \in Seq(GapRec)
      /\ L \in Nat /\ DOMAIN gs = 1 .. L
      /\ K \in Nat /\ DOMAIN new = 1 .. K
  BY LenProperties DEF IsGapList
<1>2. /\ r \in Seq(GapRec)
      /\ Len(r) = L - n + K
      /\ \A j \in 1 .. L - n + K :
           r[j] = IF j < i THEN gs[j] ELSE IF j < i + K THEN new[j - i + 1] ELSE gs[j - K + n]
  <2>1. gs \in Seq(GapRec) /\ new \in Seq(GapRec)
    BY <1>1
  <2>2. i + n <= Len(gs) + 1 /\ i \in 1 .. Len(gs) + 1 /\ n \in Nat
    OBVIOUS
  <2> QED BY <2>1, <2>2, SpliceGapRecords
<1>3. DOMAIN r = 1 .. L - n + K
  BY <1>2, LenProperties
<1> HIDE DEF r, L, K
<1>4. ASSUME NEW j \in DOMAIN r
      PROVE  \/ /\ j < i /\ j \in DOMAIN gs
                /\ r[j] = gs[j]
             \/ /\ i <= j /\ j < i + K /\ j - i + 1 \in DOMAIN new
                /\ r[j] = new[j - i + 1]
             \/ /\ i + K <= j /\ j - K + n \in DOMAIN gs /\ j - K + n >= i + n
                /\ r[j] = gs[j - K + n]
  <2>1. j \in 1 .. L - n + K /\ j \in Int /\ i \in 1 .. L + 1 /\ i + n <= L + 1
    BY <1>3, <1>1 DEF L
  <2>2. CASE j < i
    BY <2>1, <2>2, <1>1, <1>2
  <2>3. CASE i <= j /\ j < i + K
    <3>1. ~(j < i) /\ j - i + 1 \in 1 .. K
      BY <2>1, <2>3, <1>1
    <3>2. r[j] = new[j - i + 1]
      BY <2>1, <2>3, <3>1, <1>2
    <3> QED BY <2>3, <3>1, <3>2, <1>1
  <2>4. CASE i + K <= j
    <3>1. j - K + n \in 1 .. L /\ j - K + n >= i + n /\ ~(j < i) /\ ~(j < i + K)
      BY <2>1, <2>4, <1>1, SMTT(30)
    <3> QED BY <2>1, <2>4, <3>1, <1>1, <1>2
  <2> QED BY <2>3, <2>4, <2>1, <2>2, <1>1
<1>5. /\ \A j \in DOMAIN gs : gs[j] \in GapRec /\ gs[j].begin < gs[j].end /\ gs[j].end <= total
      /\ \A j \in DOMAIN new : new[j] \in GapRec /\ new[j].begin < new[j].end /\ new[j].end <= total
  BY <1>1, ElementOfSeq DEF IsGapList, L, K
<1>6. \A j \in DOMAIN r : r[j].begin < r[j].end /\ r[j].end <= total
  BY <1>4, <1>5
<1>7. ASSUME NEW j \in DOMAIN r, NEW k \in DOMAIN r, j < k
      PROVE  r[j].end < r[k].begin
  <2>1. /\ \A a, b \in DOMAIN gs : a < b => gs[a].end < gs[b].begin
        /\ \A a, b \in DOMAIN new : a < b => new[a].end < new[b].begin
    BY DEF IsGapList
  <2>2. j \in Int /\ k \in Int
    BY <1>3
  <2> DEFINE Kept(m)  == m < i /\ m \in DOMAIN gs /\ r[m] = gs[m]
             Added(m) == i <= m /\ m < i + K /\ m - i + 1 \in DOMAIN new /\ r[m] = new[m - i + 1]
             Moved(m) == /\ i + K <= m /\ m - K + n \in DOMAIN gs /\ m - K + n >= i + n
                         /\ r[m] = gs[m - K + n]
  <2>3. (Kept(j) \/ Added(j) \/ Moved(j)) /\ (Kept(k) \/ Added(k) \/ Moved(k))
    BY <1>4
  <2>4. CASE Kept(j) /\ Kept(k)
    BY <2>1, <2>4, <1>7
  <2>5. CASE Kept(j) /\ Added(k)
    BY <2>5
  <2>6. CASE Kept(j) /\ Moved(k)
    <3>1. j < k - K + n
      BY <2>2, <2>6, <1>1
    <3> QED BY <2>1, <2>6, <3>1
  <2>7. CASE Added(j) /\ Added(k)
    <3>1. j - i + 1 < k - i + 1
      BY <2>2, <1>7
    <3> QED BY <2>1, <2>7, <3>1
  <2>8. CASE Added(j) /\ Moved(k)
    BY <2>8
  <2>9. CASE Moved(j) /\ Moved(k)
    <3>1. j - K + n < k - K + n
      BY <2>2, <1>1, <1>7
    <3> QED BY <2>1, <2>9, <3>1
  <2>10. ~(Added(j) /\ Kept(k)) /\ ~(Moved(j) /\ (Kept(k) \/ Added(k)))
    BY <2>2, <1>1, <1>7
  <2> QED BY <2>3, <2>4, <2>5, <2>6, <2>7, <2>8, <2>9, <2>10
<1>8. IsGapList(r, total)
  BY <1>2, <1>6, <1>7 DEF IsGapList
<1>9. ASSUME NEW x \in Nat
      PROVE  Covers(r, x) <=> \/ Covers(new, x)
                              \/ \E j \in DOMAIN gs : (j < i \/ j >= i + n) /\ In(gs[j], x)
  <2>1. ASSUME NEW j \in DOMAIN r, In(r[j], x)
        PROVE  \/ \E k \in DOMAIN new : In(new[k], x)
               \/ \E k \in DOMAIN gs : (k < i \/ k >= i + n) /\ In(gs[k], x)
    BY <2>1, <1>4
  <2>2. ASSUME NEW k \in DOMAIN new, In(new[k], x)
        PROVE  \E j \in DOMAIN r : In(r[j], x)
    <3>1. k + i - 1 \in DOMAIN r /\ r[k + i - 1] = new[k]
      <4>1. k + i - 1 \in 1 .. L - n + K /\ ~(k + i - 1 < i) /\ k + i - 1 < i + K
        BY <1>1 DEF L
      <4>2. (k + i - 1) - i + 1 = k
        BY <1>1
      <4> QED BY <4>1, <4>2, <1>2, <1>3
    <3> QED BY <2>2, <3>1
  <2>3. ASSUME NEW k \in DOMAIN gs, k < i, In(gs[k], x)
        PROVE  \E j \in DOMAIN r : In(r[j], x)
    <3>1. k \in DOMAIN r /\ r[k] = gs[k]
      BY <2>3, <1>1, <1>2, <1>3 DEF L
    <3> QED BY <2>3, <3>1
  <2>4. ASSUME NEW k \in DOMAIN gs, k >= i + n, In(gs[k], x)
        PROVE  \E j \in DOMAIN r : In(r[j], x)
    <3>1. k - n + K \in DOMAIN r /\ r[k - n + K] = gs[k]
      <4>1. k - n + K \in 1 .. L - n + K /\ ~(k - n + K < i) /\ ~(k - n + K < i + K)
        BY <2>4, <1>1, SMTT(30)
      <4>2. (k - n + K) - K + n = k
        BY <1>1
      <4> QED BY <4>1, <4>2, <1>2, <1>3
    <3> QED BY <2>4, <3>1
  <2> QED BY <2>3, <2>4, <2>1, <2>2 DEF Covers
<1> QED BY <1>8, <1>9 DEF r

\* What a list of gaps is, with the types the provers need.
LEMMA GapListFacts ==
  ASSUME NEW total \in Nat, NEW gs, IsGapList(gs, total)
  PROVE  /\ gs \in Seq(GapRec)
         /\ Len(gs) \in Nat /\ DOMAIN gs = 1 .. Len(gs)
         /\ \A i \in DOMAIN gs : /\ gs[i] \in GapRec
                                 /\ gs[i].begin \in Nat /\ gs[i].end \in Nat
                                 /\ gs[i].begin < gs[i].end /\ gs[i].end <= total
         /\ \A i, j \in DOMAIN gs : i < j => gs[i].end < gs[j].begin
<1>1. gs \in Seq(GapRec) /\ Len(gs) \in Nat /\ DOMAIN gs = 1 .. Len(gs)
  BY LenProperties DEF IsGapList
<1>2. \A i \in DOMAIN gs : gs[i] \in GapRec
  BY <1>1, ElementOfSeq
<1>3. \A i \in DOMAIN gs : gs[i].begin \in Nat /\ gs[i].end \in Nat
  BY <1>2 DEF GapRec
<1> QED BY <1>1, <1>2, <1>3 DEF IsGapList

\* A list of one gap.
LEMMA OneGap ==
  ASSUME NEW total \in Nat, NEW b \in Nat, NEW e \in Nat, b < e, e <= total
  PROVE  /\ IsGapList(<<Gap(b, e)>>, total)
         /\ \A x \in Nat : Covers(<<Gap(b, e)>>, x) <=> b <= x /\ x < e
BY DEF IsGapList, Gap, GapRec, Covers, In

\* getAddrFromGap returns an address at which the block is inside the gap, from
\* either direction.
LEMMA AddrFromGap ==
  ASSUME NEW g \in GapRec, NEW size \in Nat \ {0}, NEW alignment \in Nat \ {0}, NEW dir,
         GetAddrFromGap(g, size, alignment, dir) # InvalidAddress
  PROVE  /\ GetAddrFromGap(g, size, alignment, dir) \in Nat
         /\ g.begin <= GetAddrFromGap(g, size, alignment, dir)
         /\ GetAddrFromGap(g, size, alignment, dir) + size <= g.end
<1>1. g.begin \in Nat /\ g.end \in Nat /\ g.begin + size <= g.end
  BY DEF GapRec, GetAddrFromGap, GapSize
<1>2. CASE dir = "Up"
  <2>1. GetAddrFromGap(g, size, alignment, dir) = AlignValUp(g.begin, alignment)
    BY <1>1, <1>2 DEF GetAddrFromGap, GapSize, GetAddrUp
  <2>2. AlignValUp(g.begin, alignment) \in Nat /\ g.begin <= AlignValUp(g.begin, alignment)
    BY <1>1, AlignValUpBounds
  <2>3. AlignValUp(g.begin, alignment) + size <= g.end
    BY <1>1, <1>2, <2>2 DEF GetAddrFromGap, GapSize, GetAddrUp
  <2> QED BY <2>1, <2>2, <2>3
<1>3. CASE dir # "Up"
  <2> DEFINE v == g.end - size
             begin == AlignValUp(v, alignment)
             lower == IF begin + size > g.end THEN begin - alignment ELSE begin
  <2>1. v \in Nat /\ g.begin <= v
    BY <1>1
  <2>2. begin \in Nat /\ v <= begin /\ begin < v + alignment
    BY <2>1, AlignValUpBounds
  <2>3. GetAddrFromGap(g, size, alignment, dir) =
          IF begin + size > g.end /\ g.begin + alignment > begin THEN InvalidAddress
          ELSE IF lower + size > g.end THEN InvalidAddress
          ELSE lower
    BY <1>1, <1>3 DEF GetAddrFromGap, GapSize, GetAddrDown
  <2> HIDE DEF begin
  <2> QED BY <1>1, <2>1, <2>2, <2>3
<1> QED BY <1>2, <1>3

\* The loop of chooseMinimalGap has a winner among any gaps.
LEMMA PreferredExists ==
  ASSUME NEW total \in Nat, NEW gs, IsGapList(gs, total),
         NEW S, S \subseteq DOMAIN gs, S # {}, NEW dir
  PROVE  \E i \in S : \A j \in S : Preferred(gs, i, j, dir)
<1>1. /\ Len(gs) \in Nat /\ DOMAIN gs = 1 .. Len(gs)
      /\ \A i \in DOMAIN gs : GapSize(gs[i]) \in Nat
  BY GapListFacts DEF GapSize
<1> DEFINE sizes == {GapSize(gs[i]) : i \in S}
<1>2. sizes \subseteq Nat /\ sizes # {}
  BY <1>1
<1>3. PICK m \in sizes : \A k \in sizes : m <= k
  BY <1>2, NatMinimum
<1> DEFINE smallest == {i \in S : GapSize(gs[i]) = m}
<1>4. smallest # {} /\ smallest \subseteq Nat
  BY <1>1
<1>5. ASSUME NEW j \in S
      PROVE  m <= GapSize(gs[j]) /\ m \in Nat /\ GapSize(gs[j]) \in Nat /\ j \in Nat
  <2>1. GapSize(gs[j]) \in sizes
    OBVIOUS
  <2> QED BY <1>1, <1>2, <1>3, <2>1
<1>6. CASE dir = "Up"
  <2>1. PICK i \in smallest : \A j \in smallest : i <= j
    BY <1>4, NatMinimum
  <2>2. ASSUME NEW j \in S
        PROVE  Preferred(gs, i, j, dir)
    <3>1. GapSize(gs[i]) = m /\ (GapSize(gs[j]) = m => i <= j)
      BY <2>1
    <3> QED BY <1>5, <1>6, <3>1 DEF Preferred
  <2> QED BY <2>2
<1>7. CASE dir # "Up"
  <2> DEFINE mirrored == {Len(gs) - i : i \in smallest}
  <2>1. mirrored \subseteq Nat /\ mirrored # {}
    BY <1>1, <1>4
  <2>2. PICK k \in mirrored : \A l \in mirrored : k <= l
    BY <2>1, NatMinimum
  <2>3. PICK i \in smallest : k = Len(gs) - i
    OBVIOUS
  <2>4. ASSUME NEW j \in smallest
        PROVE  i >= j
    <3>1. Len(gs) - j \in mirrored
      OBVIOUS
    <3>2. k <= Len(gs) - j
      BY <2>2, <3>1
    <3> QED BY <1>1, <1>4, <2>3, <3>2
  <2>5. ASSUME NEW j \in S
        PROVE  Preferred(gs, i, j, dir)
    <3>1. GapSize(gs[i]) = m /\ (GapSize(gs[j]) = m => i >= j)
      BY <2>4
    <3> QED BY <1>5, <1>7, <3>1, SMTT(30) DEF Preferred
  <2> QED BY <2>5
<1> QED BY <1>6, <1>7

\* chooseMinimalGap returns a gap the block fits in.
LEMMA ChosenGapFits ==
  ASSUME NEW total \in Nat, NEW gs, IsGapList(gs, total), NEW size, NEW alignment, NEW dir,
         ChooseMinimalGap(gs, size, alignment, dir) # 0
  PROVE  /\ ChooseMinimalGap(gs, size, alignment, dir) \in DOMAIN gs
         /\ Fits(gs, ChooseMinimalGap(gs, size, alignment, dir), size, alignment, dir)
<1> DEFINE fit == Suitable(gs, size, alignment, dir)
           others == fit \ {LastGap(gs, dir)}
<1>1. fit \subseteq DOMAIN gs /\ \A i \in fit : Fits(gs, i, size, alignment, dir)
  BY DEF Suitable
<1>2. ChooseMinimalGap(gs, size, alignment, dir) =
        IF fit = {} THEN 0
        ELSE IF others = {} THEN LastGap(gs, dir)
        ELSE CHOOSE i \in others : \A j \in others : Preferred(gs, i, j, dir)
  BY DEF ChooseMinimalGap
<1> HIDE DEF fit
<1>3. fit # {}
  BY <1>2
<1>4. CASE others = {}
  BY <1>1, <1>2, <1>3, <1>4
<1>5. CASE others # {}
  <2>1. \E i \in others : \A j \in others : Preferred(gs, i, j, dir)
    BY <1>1, <1>5, PreferredExists
  <2>2. ChooseMinimalGap(gs, size, alignment, dir) \in others
    BY <1>2, <1>3, <1>5, <2>1
  <2> QED BY <1>1, <2>2
<1> QED BY <1>4, <1>5

\* What useGap leaves of a gap is the gap without the block.
LEMMA PiecesOfGap ==
  ASSUME NEW total \in Nat, NEW g \in GapRec, g.end <= total,
         NEW addr \in Nat, NEW end \in Nat,
         g.begin <= addr, addr < end, end <= g.end
  PROVE  /\ IsGapList(Pieces(g, addr, end), total)
         /\ \A k \in DOMAIN Pieces(g, addr, end) :
              /\ g.begin <= Pieces(g, addr, end)[k].begin
              /\ Pieces(g, addr, end)[k].end <= g.end
         /\ \A x \in Nat : Covers(Pieces(g, addr, end), x) <=> In(g, x) /\ ~(addr <= x /\ x < end)
<1>1. g.begin \in Nat /\ g.end \in Nat
  BY DEF GapRec
<1>2. CASE g.begin < addr /\ end < g.end
  <2> DEFINE l == <<Gap(g.begin, addr)>>
             r == <<Gap(end, g.end)>>
  <2>1. Pieces(g, addr, end) = l \o r
    BY <1>2 DEF Pieces
  <2>2. /\ l \in Seq(GapRec) /\ Len(l) = 1 /\ l[1] = Gap(g.begin, addr)
        /\ r \in Seq(GapRec) /\ Len(r) = 1 /\ r[1] = Gap(end, g.end)
    BY <1>1 DEF Gap, GapRec
  <2> HIDE DEF l, r
  <2>3. /\ l \o r \in Seq(GapRec)
        /\ Len(l \o r) = Len(l) + Len(r)
        /\ \A k \in 1 .. Len(l) + Len(r) : (l \o r)[k] = IF k <= Len(l) THEN l[k] ELSE r[k - Len(l)]
    <3>1. l \in Seq(GapRec) /\ r \in Seq(GapRec)
      BY <2>2
    <3> QED BY <3>1, ConcatProperties, Zenon
  <2> DEFINE new == l \o r
  <2>4. new[1] = Gap(g.begin, addr) /\ new[2] = Gap(end, g.end)
    BY <2>2, <2>3
  <2>5. new \in Seq(GapRec) /\ DOMAIN new = {1, 2}
    BY <2>2, <2>3, LenProperties
  <2> HIDE DEF new
  <2>6. \A k \in DOMAIN new : /\ new[k].begin < new[k].end
                              /\ g.begin <= new[k].begin /\ new[k].end <= g.end
                              /\ new[k].end <= total
    BY <1>1, <1>2, <2>4, <2>5 DEF Gap
  <2>7. \A j, k \in DOMAIN new : j < k => new[j].end < new[k].begin
    BY <1>1, <2>4, <2>5 DEF Gap
  <2>8. \A x \in Nat : (\E k \in DOMAIN new : new[k].begin <= x /\ x < new[k].end)
                       <=> (g.begin <= x /\ x < g.end) /\ ~(addr <= x /\ x < end)
    BY <1>1, <1>2, <2>4, <2>5 DEF Gap
  <2>9. Pieces(g, addr, end) = new
    BY <2>1 DEF new
  <2> QED BY <2>5, <2>6, <2>7, <2>8, <2>9 DEF IsGapList, Covers, In
<1>3. CASE g.begin < addr /\ ~(end < g.end)
  <2>1. Pieces(g, addr, end) = <<Gap(g.begin, addr)>>
    BY <1>3 DEF Pieces
  <2> QED BY <1>1, <1>3, <2>1 DEF IsGapList, Gap, GapRec, Covers, In
<1>4. CASE ~(g.begin < addr) /\ end < g.end
  <2>1. Pieces(g, addr, end) = <<Gap(end, g.end)>>
    BY <1>4 DEF Pieces
  <2> QED BY <1>1, <1>4, <2>1 DEF IsGapList, Gap, GapRec, Covers, In
<1>5. CASE ~(g.begin < addr) /\ ~(end < g.end)
  <2>1. Pieces(g, addr, end) = <<>>
    BY <1>5 DEF Pieces
  <2> QED BY <1>1, <1>5, <2>1 DEF IsGapList, Gap, GapRec, Covers, In
<1> QED BY <1>2, <1>3, <1>4, <1>5

\* useGap removes exactly the block from what the gaps cover.
LEMMA UseGapTakesBlock ==
  ASSUME NEW total \in Nat, NEW gs, IsGapList(gs, total),
         NEW i \in DOMAIN gs, NEW addr \in Nat, NEW size \in Nat \ {0},
         gs[i].begin <= addr, addr + size <= gs[i].end
  PROVE  /\ IsGapList(UseGap(gs, i, addr, size), total)
         /\ \A x \in Nat : Covers(UseGap(gs, i, addr, size), x) <=>
              Covers(gs, x) /\ ~(addr <= x /\ x < addr + size)
<1> DEFINE end == addr + size
           new == Pieces(gs[i], addr, end)
<1>1. /\ Len(gs) \in Nat /\ DOMAIN gs = 1 .. Len(gs)
      /\ \A j \in DOMAIN gs : /\ gs[j] \in GapRec
                              /\ gs[j].begin \in Nat /\ gs[j].end \in Nat
                              /\ gs[j].begin < gs[j].end /\ gs[j].end <= total
      /\ \A j, k \in DOMAIN gs : j < k => gs[j].end < gs[k].begin
  BY GapListFacts
<1>2. /\ IsGapList(new, total)
      /\ \A k \in DOMAIN new : gs[i].begin <= new[k].begin /\ new[k].end <= gs[i].end
      /\ \A x \in Nat : Covers(new, x) <=> In(gs[i], x) /\ ~(addr <= x /\ x < end)
  <2>1. /\ gs[i] \in GapRec /\ gs[i].end <= total
        /\ end \in Nat /\ gs[i].begin <= addr /\ addr < end /\ end <= gs[i].end
    BY <1>1
  <2> HIDE DEF end
  <2> QED BY <2>1, PiecesOfGap
<1>3. UseGap(gs, i, addr, size) = Splice(gs, i, 1, new)
  BY DEF UseGap
<1> HIDE DEF new
<1>4. \A k \in DOMAIN new : new[k].begin \in Nat /\ new[k].end \in Nat
  BY <1>2, GapListFacts
<1>5. \A k \in DOMAIN new, j \in DOMAIN gs :
        /\ j < i => gs[j].end < new[k].begin
        /\ j >= i + 1 => new[k].end < gs[j].begin
  <2> SUFFICES ASSUME NEW k \in DOMAIN new, NEW j \in DOMAIN gs
               PROVE  /\ j < i => gs[j].end < new[k].begin
                      /\ j >= i + 1 => new[k].end < gs[j].begin
    OBVIOUS
  <2>1. /\ gs[i].begin <= new[k].begin /\ new[k].end <= gs[i].end
        /\ new[k].begin \in Nat /\ new[k].end \in Nat
    BY <1>2, <1>4
  <2>2. /\ j < i => gs[j].end < gs[i].begin
        /\ j >= i + 1 => gs[i].end < gs[j].begin
    BY <1>1
  <2>3. /\ gs[i].begin \in Nat /\ gs[i].end \in Nat /\ gs[j].begin \in Nat /\ gs[j].end \in Nat
    BY <1>1
  <2> QED BY <2>1, <2>2, <2>3
<1>6. i \in 1 .. Len(gs) + 1 /\ i + 1 <= Len(gs) + 1
  BY <1>1
<1>7. /\ IsGapList(Splice(gs, i, 1, new), total)
      /\ \A x \in Nat : Covers(Splice(gs, i, 1, new), x) <=>
           \/ Covers(new, x)
           \/ \E j \in DOMAIN gs : (j < i \/ j >= i + 1) /\ In(gs[j], x)
  BY <1>2, <1>5, <1>6, SpliceGaps
<1>8. ASSUME NEW x \in Nat
      PROVE  (In(gs[i], x) /\ ~(addr <= x /\ x < end))
                 \/ (\E j \in DOMAIN gs : (j < i \/ j >= i + 1) /\ In(gs[j], x))
               <=> Covers(gs, x) /\ ~(addr <= x /\ x < end)
  <2>1. ASSUME NEW j \in DOMAIN gs, j < i \/ j >= i + 1, In(gs[j], x)
        PROVE  ~(addr <= x /\ x < end)
    BY <1>1, <2>1, SMTT(30) DEF In
  <2>2. ASSUME NEW j \in DOMAIN gs
        PROVE  j = i \/ j < i \/ j >= i + 1
    BY <1>1
  <2> QED BY <2>1, <2>2 DEF Covers
<1> QED BY <1>2, <1>3, <1>7, <1>8

\* The binary search of allocFixed finds the gap that holds a free block.
LEMMA GapAtHoldsBlock ==
  ASSUME NEW total \in Nat, NEW gs, IsGapList(gs, total),
         NEW addr \in Nat, NEW size \in Nat \ {0},
         \A x \in addr .. addr + size - 1 : Covers(gs, x)
  PROVE  /\ GapAt(gs, addr) \in DOMAIN gs
         /\ gs[GapAt(gs, addr)].begin <= addr
         /\ addr + size <= gs[GapAt(gs, addr)].end
<1>1. /\ Len(gs) \in Nat /\ DOMAIN gs = 1 .. Len(gs)
      /\ \A j \in DOMAIN gs : /\ gs[j].begin \in Nat /\ gs[j].end \in Nat
                              /\ gs[j].begin < gs[j].end
      /\ \A j, k \in DOMAIN gs : j < k => gs[j].end < gs[k].begin
  BY GapListFacts
<1>2. PICK i \in DOMAIN gs : In(gs[i], addr)
  BY DEF Covers
<1> DEFINE At(k) == gs[k].begin <= addr /\ (k < Len(gs) => addr < gs[k + 1].begin)
<1>3. At(i)
  <2>1. CASE i < Len(gs)
    <3>1. i + 1 \in DOMAIN gs /\ i < i + 1
      BY <1>1, <2>1
    <3>2. gs[i].end < gs[i + 1].begin
      BY <1>1, <3>1
    <3> QED BY <1>1, <1>2, <3>1, <3>2 DEF In
  <2> QED BY <1>2, <2>1 DEF In
<1>4. PICK k \in DOMAIN gs : k = GapAt(gs, addr) /\ At(k)
  BY <1>3 DEF GapAt
<1>5. k = i
  <2>1. ~(k < i)
    <3> SUFFICES ASSUME k < i PROVE FALSE
      OBVIOUS
    <3>1. k + 1 \in DOMAIN gs /\ k < Len(gs) /\ (k + 1 = i \/ k + 1 < i)
      BY <1>1
    <3>2. gs[k + 1].begin <= gs[i].begin
      BY <1>1, <3>1
    <3> QED BY <1>1, <1>2, <1>4, <3>1, <3>2 DEF In
  <2>2. ~(i < k)
    BY <1>1, <1>2, <1>4 DEF In
  <2> QED BY <1>1, <2>1, <2>2
<1>6. addr + size <= gs[i].end
  <2> SUFFICES ASSUME gs[i].end < addr + size PROVE FALSE
    BY <1>1
  <2>1. gs[i].end \in addr .. addr + size - 1
    BY <1>1, <1>2 DEF In
  <2>2. PICK j \in DOMAIN gs : In(gs[j], gs[i].end)
    BY <2>1 DEF Covers
  <2>3. gs[j].begin <= gs[i].end /\ gs[i].end < gs[j].end
    BY <2>2 DEF In
  <2>4. j < i \/ j = i \/ i < j
    BY <1>1
  <2> QED BY <1>1, <2>3, <2>4, SMTT(30)
<1> QED BY <1>4, <1>5, <1>6

\* The list of gaps new is gs with the block addr .. end - 1 added.
Adds(new, gs, addr, end, total) ==
  /\ IsGapList(new, total)
  /\ \A x \in Nat : Covers(new, x) <=> Covers(gs, x) \/ (addr <= x /\ x < end)

\* The form of SpliceGaps that free needs: one new gap.
LEMMA SpliceOneGap ==
  ASSUME NEW total \in Nat, NEW gs, IsGapList(gs, total),
         NEW b \in Nat, NEW e \in Nat, b < e, e <= total,
         NEW i \in 1 .. Len(gs) + 1, NEW n \in Nat, i + n <= Len(gs) + 1,
         \A j \in DOMAIN gs : /\ j < i => gs[j].end < b
                              /\ j >= i + n => e < gs[j].begin,
         NEW addr \in Nat, NEW end \in Nat,
         \A x \in Nat : (b <= x /\ x < e) <=>
           \/ addr <= x /\ x < end
           \/ \E j \in DOMAIN gs : i <= j /\ j < i + n /\ In(gs[j], x)
  PROVE  Adds(Splice(gs, i, n, <<Gap(b, e)>>), gs, addr, end, total)
<1> DEFINE new == <<Gap(b, e)>>
<1>1. /\ Len(gs) \in Nat /\ DOMAIN gs = 1 .. Len(gs)
  BY GapListFacts
<1>2. /\ IsGapList(new, total)
      /\ \A x \in Nat : Covers(new, x) <=> b <= x /\ x < e
  BY OneGap
<1>3. \A k \in DOMAIN new : new[k].begin = b /\ new[k].end = e
  BY DEF Gap
<1> HIDE DEF new
<1>4. /\ IsGapList(Splice(gs, i, n, new), total)
      /\ \A x \in Nat : Covers(Splice(gs, i, n, new), x) <=>
           \/ Covers(new, x)
           \/ \E j \in DOMAIN gs : (j < i \/ j >= i + n) /\ In(gs[j], x)
  <2>1. \A k \in DOMAIN new, j \in DOMAIN gs :
          /\ j < i => gs[j].end < new[k].begin
          /\ j >= i + n => new[k].end < gs[j].begin
    <3> SUFFICES ASSUME NEW k \in DOMAIN new, NEW j \in DOMAIN gs
                 PROVE  /\ j < i => gs[j].end < new[k].begin
                        /\ j >= i + n => new[k].end < gs[j].begin
      OBVIOUS
    <3>1. new[k].begin = b /\ new[k].end = e
      BY <1>3
    <3> QED BY <3>1
  <2> QED BY <1>2, <2>1, SpliceGaps
<1>5. \A j \in DOMAIN gs : (i <= j /\ j < i + n) \/ j < i \/ j >= i + n
  BY <1>1
<1>6. ASSUME NEW x \in Nat
      PROVE  Covers(Splice(gs, i, n, new), x) <=> Covers(gs, x) \/ (addr <= x /\ x < end)
  BY <1>2, <1>4, <1>5 DEF Covers
<1> QED BY <1>4, <1>6 DEF Adds, new

\* free next to or ahead of a gap, with nothing that touches on the left.
LEMMA PutBeforeAdds ==
  ASSUME NEW total \in Nat, NEW gs, IsGapList(gs, total),
         NEW i \in DOMAIN gs, NEW addr \in Nat, NEW end \in Nat,
         addr < end, end <= gs[i].begin, \A j \in DOMAIN gs : j < i => gs[j].end < addr
  PROVE  Adds(PutBefore(gs, i, addr, end), gs, addr, end, total)
<1>1. /\ Len(gs) \in Nat /\ DOMAIN gs = 1 .. Len(gs)
      /\ \A j \in DOMAIN gs : /\ gs[j].begin \in Nat /\ gs[j].end \in Nat
                              /\ gs[j].begin < gs[j].end /\ gs[j].end <= total
      /\ \A j, k \in DOMAIN gs : j < k => gs[j].end < gs[k].begin
  BY GapListFacts
<1>2. i \in 1 .. Len(gs) + 1 /\ i + 0 <= Len(gs) + 1 /\ i + 1 <= Len(gs) + 1
  BY <1>1
<1>3. CASE end = gs[i].begin
  <2>1. PutBefore(gs, i, addr, end) = Splice(gs, i, 1, <<Gap(addr, gs[i].end)>>)
    BY <1>3 DEF PutBefore
  <2>2. \A j \in DOMAIN gs : /\ j < i => gs[j].end < addr
                             /\ j >= i + 1 => gs[i].end < gs[j].begin
    BY <1>1
  <2>3. ASSUME NEW x \in Nat
        PROVE  (addr <= x /\ x < gs[i].end) <=>
                 \/ addr <= x /\ x < end
                 \/ \E j \in DOMAIN gs : i <= j /\ j < i + 1 /\ In(gs[j], x)
    <3>1. \A j \in DOMAIN gs : i <= j /\ j < i + 1 <=> j = i
      BY <1>1
    <3> QED BY <1>1, <1>3, <3>1 DEF In
  <2>4. addr < gs[i].end /\ gs[i].end \in Nat /\ gs[i].end <= total
    BY <1>1
  <2> QED BY <1>2, <2>3, <2>4, <2>1, <2>2, SpliceOneGap, ZenonT(60)
<1>4. CASE end # gs[i].begin
  <2>1. PutBefore(gs, i, addr, end) = Splice(gs, i, 0, <<Gap(addr, end)>>)
    BY <1>4 DEF PutBefore
  <2>2. \A j \in DOMAIN gs : /\ j < i => gs[j].end < addr
                             /\ j >= i + 0 => end < gs[j].begin
    <3>1. end < gs[i].begin
      BY <1>1, <1>4
    <3> QED BY <1>1, <3>1
  <2>3. ASSUME NEW x \in Nat
        PROVE  (addr <= x /\ x < end) <=>
                 \/ addr <= x /\ x < end
                 \/ \E j \in DOMAIN gs : i <= j /\ j < i + 0 /\ In(gs[j], x)
    BY <1>1
  <2>4. end <= total
    <3>1. end <= gs[i].begin /\ gs[i].begin < gs[i].end /\ gs[i].end <= total
      BY <1>1
    <3> QED BY <1>1, <3>1
  <2> QED BY <1>2, <2>3, <2>4, <2>1, <2>2, SpliceOneGap
<1> QED BY <1>3, <1>4

\* free next to or behind a gap, with nothing that touches on the right.
LEMMA PutAfterAdds ==
  ASSUME NEW total \in Nat, NEW gs, IsGapList(gs, total),
         NEW i \in DOMAIN gs, NEW addr \in Nat, NEW end \in Nat,
         addr < end, end <= total, gs[i].end <= addr,
         \A j \in DOMAIN gs : i < j => end < gs[j].begin
  PROVE  Adds(PutAfter(gs, i, addr, end), gs, addr, end, total)
<1>1. /\ Len(gs) \in Nat /\ DOMAIN gs = 1 .. Len(gs)
      /\ \A j \in DOMAIN gs : /\ gs[j].begin \in Nat /\ gs[j].end \in Nat
                              /\ gs[j].begin < gs[j].end /\ gs[j].end <= total
      /\ \A j, k \in DOMAIN gs : j < k => gs[j].end < gs[k].begin
  BY GapListFacts
<1>2. CASE addr = gs[i].end
  <2>1. PutAfter(gs, i, addr, end) = Splice(gs, i, 1, <<Gap(gs[i].begin, end)>>)
    BY <1>2 DEF PutAfter
  <2>2. \A j \in DOMAIN gs : /\ j < i => gs[j].end < gs[i].begin
                             /\ j >= i + 1 => end < gs[j].begin
    BY <1>1
  <2>3. ASSUME NEW x \in Nat
        PROVE  (gs[i].begin <= x /\ x < end) <=>
                 \/ addr <= x /\ x < end
                 \/ \E j \in DOMAIN gs : i <= j /\ j < i + 1 /\ In(gs[j], x)
    <3>1. \A j \in DOMAIN gs : i <= j /\ j < i + 1 <=> j = i
      BY <1>1
    <3> QED BY <1>1, <1>2, <3>1 DEF In
  <2>4. gs[i].begin < end /\ gs[i].begin \in Nat
    BY <1>1, <1>2
  <2>5. i \in 1 .. Len(gs) + 1 /\ i + 1 <= Len(gs) + 1
    BY <1>1
  <2> QED BY <2>3, <2>4, <2>5, <2>1, <2>2, SpliceOneGap, ZenonT(60)
<1>3. CASE addr # gs[i].end
  <2> DEFINE p == i + 1
  <2>1. PutAfter(gs, i, addr, end) = Splice(gs, p, 0, <<Gap(addr, end)>>)
    BY <1>3 DEF PutAfter
  <2>2. \A j \in DOMAIN gs : /\ j < p => gs[j].end < addr
                             /\ j >= p + 0 => end < gs[j].begin
    <3>1. gs[i].end < addr
      BY <1>1, <1>3
    <3>2. \A j \in DOMAIN gs : j < p => j = i \/ j < i
      BY <1>1
    <3> QED BY <1>1, <3>1, <3>2
  <2>3. ASSUME NEW x \in Nat
        PROVE  (addr <= x /\ x < end) <=>
                 \/ addr <= x /\ x < end
                 \/ \E j \in DOMAIN gs : p <= j /\ j < p + 0 /\ In(gs[j], x)
    BY <1>1
  <2>4. p \in 1 .. Len(gs) + 1 /\ p + 0 <= Len(gs) + 1
    BY <1>1
  <2> HIDE DEF p
  <2> QED BY <2>3, <2>4, <2>1, <2>2, SpliceOneGap
<1> QED BY <1>2, <1>3

\* A block of which no address is free lies on one side of every gap.
LEMMA GapsApartFromBlock ==
  ASSUME NEW total \in Nat, NEW gs, IsGapList(gs, total),
         NEW addr \in Nat, NEW end \in Nat, addr < end,
         \A x \in addr .. end - 1 : ~Covers(gs, x)
  PROVE  \A j \in DOMAIN gs : gs[j].end <= addr \/ end <= gs[j].begin
<1> SUFFICES ASSUME NEW j \in DOMAIN gs, addr < gs[j].end, gs[j].begin < end
             PROVE  FALSE
  BY GapListFacts
<1>1. gs[j].begin \in Nat /\ gs[j].end \in Nat /\ gs[j].begin < gs[j].end
  BY GapListFacts
<1>2. CASE gs[j].begin <= addr
  <2>1. addr \in addr .. end - 1 /\ In(gs[j], addr)
    BY <1>1, <1>2 DEF In
  <2> QED BY <2>1 DEF Covers
<1>3. CASE addr < gs[j].begin
  <2>1. gs[j].begin \in addr .. end - 1 /\ In(gs[j], gs[j].begin)
    BY <1>1, <1>3 DEF In
  <2> QED BY <2>1 DEF Covers
<1> QED BY <1>1, <1>2, <1>3

\* free between two neighbouring gaps.
LEMMA PutBetweenAdds ==
  ASSUME NEW total \in Nat, NEW gs, IsGapList(gs, total),
         NEW addr \in Nat, NEW end \in Nat, addr < end,
         end <= total, NEW i \in Between(gs, addr, end)
  PROVE  Adds(PutBetween(gs, i, addr, end), gs, addr, end, total)
<1>1. /\ Len(gs) \in Nat /\ DOMAIN gs = 1 .. Len(gs)
      /\ \A j \in DOMAIN gs : /\ gs[j].begin \in Nat /\ gs[j].end \in Nat
                              /\ gs[j].begin < gs[j].end /\ gs[j].end <= total
      /\ \A j, k \in DOMAIN gs : j < k => gs[j].end < gs[k].begin
  BY GapListFacts
<1> DEFINE p == i + 1
<1>2. /\ i \in DOMAIN gs /\ p \in DOMAIN gs /\ i < p
      /\ gs[i].end <= addr /\ end <= gs[p].begin
      /\ \A j \in DOMAIN gs : j < p => j = i \/ j < i
      /\ \A j \in DOMAIN gs : i < j => j = p \/ p < j
  BY <1>1 DEF Between
<1>3. CASE addr = gs[i].end /\ end = gs[p].begin
  <2>1. PutBetween(gs, i, addr, end) = Splice(gs, i, 2, <<Gap(gs[i].begin, gs[p].end)>>)
    BY <1>3 DEF PutBetween
  <2> HIDE DEF p
  <2>2. \A j \in DOMAIN gs : /\ j < i => gs[j].end < gs[i].begin
                             /\ j >= i + 2 => gs[p].end < gs[j].begin
    <3>1. \A j \in DOMAIN gs : j >= i + 2 => p < j
      BY <1>1, <1>2 DEF p
    <3> QED BY <1>1, <1>2, <3>1
  <2>3. ASSUME NEW x \in Nat
        PROVE  (gs[i].begin <= x /\ x < gs[p].end) <=>
                 \/ addr <= x /\ x < end
                 \/ \E j \in DOMAIN gs : i <= j /\ j < i + 2 /\ In(gs[j], x)
    <3>1. \A j \in DOMAIN gs : i <= j /\ j < i + 2 <=> (j = i \/ j = p)
      BY <1>1, <1>2 DEF p
    <3>2. (\E j \in DOMAIN gs : i <= j /\ j < i + 2 /\ In(gs[j], x)) <=> In(gs[i], x) \/ In(gs[p], x)
      BY <1>2, <3>1
    <3>3. (gs[i].begin <= x /\ x < gs[p].end) <=>
            (addr <= x /\ x < end) \/ In(gs[i], x) \/ In(gs[p], x)
      BY <1>1, <1>2, <1>3 DEF In
    <3> QED BY <3>2, <3>3
  <2>4. gs[i].begin \in Nat /\ gs[p].end \in Nat /\ gs[i].begin < gs[p].end /\ gs[p].end <= total
    BY <1>1, <1>2, <1>3
  <2>5. i \in 1 .. Len(gs) + 1 /\ i + 2 <= Len(gs) + 1
    BY <1>1, <1>2 DEF p
  <2> DEFINE b == gs[i].begin
             e == gs[p].end
  <2>6. Adds(Splice(gs, i, 2, <<Gap(b, e)>>), gs, addr, end, total)
    <3>1. b \in Nat /\ e \in Nat /\ b < e /\ e <= total
      BY <2>4
    <3>2. \A j \in DOMAIN gs : /\ j < i => gs[j].end < b
                               /\ j >= i + 2 => e < gs[j].begin
      BY <2>2
    <3>3. \A x \in Nat : (b <= x /\ x < e) <=>
            \/ addr <= x /\ x < end
            \/ \E j \in DOMAIN gs : i <= j /\ j < i + 2 /\ In(gs[j], x)
      BY <2>3
    <3> HIDE DEF b, e
    <3> QED BY <2>5, <3>1, <3>2, <3>3, SpliceOneGap
  <2> QED BY <2>1, <2>6
<1>4. CASE addr = gs[i].end /\ end # gs[p].begin
  <2>1. PutBetween(gs, i, addr, end) = PutAfter(gs, i, addr, end)
    BY <1>4 DEF PutBetween
  <2>2. end < gs[p].begin
    BY <1>1, <1>2, <1>4
  <2> HIDE DEF p
  <2>3. \A j \in DOMAIN gs : i < j => end < gs[j].begin
    BY <1>1, <1>2, <2>2
  <2> QED BY <1>2, <2>1, <2>3, PutAfterAdds
<1>5. CASE addr # gs[i].end
  <2>1. PutBetween(gs, i, addr, end) = PutBefore(gs, p, addr, end)
    BY <1>5 DEF PutBetween
  <2>2. gs[i].end < addr
    BY <1>1, <1>2, <1>5
  <2> HIDE DEF p
  <2>3. \A j \in DOMAIN gs : j < p => gs[j].end < addr
    BY <1>1, <1>2, <2>2, SMTT(30)
  <2> QED BY <1>2, <2>1, <2>3, PutBeforeAdds
<1> QED BY <1>3, <1>4, <1>5

\* free adds exactly the block to what the gaps cover.  Its last case needs that a
\* block behind the first gap and between no two gaps is behind the last one.
LEMMA FreeIntoAdds ==
  ASSUME NEW total \in Nat, NEW gs, IsGapList(gs, total),
         NEW addr \in Nat, NEW size \in Nat \ {0},
         addr + size <= total, \A x \in addr .. addr + size - 1 : ~Covers(gs, x)
  PROVE  Adds(FreeInto(gs, addr, size), gs, addr, addr + size, total)
<1> DEFINE end == addr + size
<1>1. /\ Len(gs) \in Nat /\ DOMAIN gs = 1 .. Len(gs)
      /\ \A j \in DOMAIN gs : /\ gs[j].begin \in Nat /\ gs[j].end \in Nat
                              /\ gs[j].begin < gs[j].end /\ gs[j].end <= total
      /\ \A j, k \in DOMAIN gs : j < k => gs[j].end < gs[k].begin
  BY GapListFacts
<1>2. end \in Nat /\ addr < end /\ end <= total
  OBVIOUS
<1>3. \A j \in DOMAIN gs : gs[j].end <= addr \/ end <= gs[j].begin
  BY <1>2, GapsApartFromBlock
<1>4. FreeInto(gs, addr, size) =
        IF gs = <<>> THEN <<Gap(addr, end)>>
        ELSE IF end <= gs[1].begin THEN PutBefore(gs, 1, addr, end)
        ELSE IF Between(gs, addr, end) # {} THEN PutBetween(gs, FirstBetween(gs, addr, end), addr, end)
        ELSE PutLast(gs, addr, end)
  BY DEF FreeInto
<1> HIDE DEF end
<1>5. CASE gs = <<>>
  <2>1. FreeInto(gs, addr, size) = <<Gap(addr, end)>>
    BY <1>4, <1>5
  <2>2. \A x \in Nat : ~Covers(gs, x)
    BY <1>5 DEF Covers
  <2>3. /\ IsGapList(<<Gap(addr, end)>>, total)
        /\ \A x \in Nat : Covers(<<Gap(addr, end)>>, x) <=> addr <= x /\ x < end
    BY <1>2, OneGap
  <2>4. Adds(FreeInto(gs, addr, size), gs, addr, end, total)
    BY <2>1, <2>2, <2>3 DEF Adds
  <2> QED BY <2>4 DEF end
<1>6. CASE gs # <<>> /\ end <= gs[1].begin
  <2>1. FreeInto(gs, addr, size) = PutBefore(gs, 1, addr, end)
    BY <1>4, <1>6
  <2>2. 1 \in DOMAIN gs /\ \A j \in DOMAIN gs : ~(j < 1)
    BY <1>1, <1>6, EmptySeq
  <2> QED BY <1>2, <1>6, <2>1, <2>2, PutBeforeAdds DEF end
<1>7. CASE gs # <<>> /\ ~(end <= gs[1].begin) /\ Between(gs, addr, end) # {}
  <2>1. FreeInto(gs, addr, size) = PutBetween(gs, FirstBetween(gs, addr, end), addr, end)
    BY <1>4, <1>7
  <2>2. Between(gs, addr, end) \subseteq Nat
    BY <1>1 DEF Between
  <2>3. \E i \in Between(gs, addr, end) : \A j \in Between(gs, addr, end) : i <= j
    BY <1>7, <2>2, NatMinimum
  <2>4. FirstBetween(gs, addr, end) \in Between(gs, addr, end)
    BY <2>3 DEF FirstBetween
  <2> QED BY <1>2, <2>1, <2>4, PutBetweenAdds DEF end
<1>8. CASE gs # <<>> /\ ~(end <= gs[1].begin) /\ Between(gs, addr, end) = {}
  <2> DEFINE l == Len(gs)
  <2>1. 1 \in DOMAIN gs /\ l \in DOMAIN gs
    BY <1>1, <1>8, EmptySeq
  <2>2. gs[l].end <= addr
    <3> SUFFICES ASSUME end <= gs[l].begin
                 PROVE  FALSE
      BY <1>3, <2>1
    <3> DEFINE right == {j \in DOMAIN gs : end <= gs[j].begin}
    <3>1. right \subseteq Nat /\ right # {}
      BY <1>1, <2>1
    <3>2. PICK m \in right : \A j \in right : m <= j
      BY <3>1, NatMinimum
    <3>3. m # 1 /\ m \in DOMAIN gs /\ end <= gs[m].begin
      BY <1>8
    <3> DEFINE k == m - 1
    <3>4. k \in DOMAIN gs /\ k < m /\ k \in 1 .. Len(gs) - 1 /\ k + 1 = m
      BY <1>1, <3>3
    <3> HIDE DEF k
    <3>5. ~(end <= gs[k].begin)
      BY <1>1, <3>2, <3>4
    <3>6. gs[k].end <= addr
      BY <1>3, <3>4, <3>5
    <3>7. k \in Between(gs, addr, end)
      BY <3>3, <3>4, <3>6 DEF Between
    <3> QED BY <1>8, <3>7
  <2>3. FreeInto(gs, addr, size) = PutAfter(gs, l, addr, end)
    <3>1. ~(end <= gs[l].begin)
      BY <1>1, <1>2, <2>1, <2>2
    <3> QED BY <1>4, <1>8, <3>1 DEF PutLast
  <2>4. \A j \in DOMAIN gs : ~(l < j)
    BY <1>1
  <2> HIDE DEF l
  <2> QED BY <1>2, <2>3, <2>4, <2>1, <2>2, PutAfterAdds DEF end
<1> QED BY <1>5, <1>6, <1>7, <1>8

\* Two different multiples are at least the divisor apart.
LEMMA NextMultiple ==
  ASSUME NEW a \in Nat \ {0}, NEW j \in Int, NEW k \in Int, j * a < k * a
  PROVE  j * a + a <= k * a
<1>1. j < k
  <2> SUFFICES ASSUME k <= j PROVE FALSE
    OBVIOUS
  <2>1. k * a <= j * a
    OBVIOUS
  <2> QED BY <2>1
<1>2. (j + 1) * a <= k * a
  BY <1>1
<1>3. (j + 1) * a = j * a + a
  OBVIOUS
<1> QED BY <1>2, <1>3

\* An aligned address and a result of alignValUp are equal or at least the
\* alignment apart.
LEMMA AlignedMultiples ==
  ASSUME NEW a \in Nat \ {0}, NEW v \in Nat, NEW w \in Nat, w % a = 0
  PROVE  /\ AlignValUp(v, a) < w => AlignValUp(v, a) + a <= w
         /\ w < AlignValUp(v, a) => w + a <= AlignValUp(v, a)
<1> DEFINE q == (v + a - 1) \div a
           k == w \div a
<1>1. q \in Int /\ AlignValUp(v, a) = q * a
  BY DEF AlignValUp
<1>2. k \in Int /\ w = k * a
  OBVIOUS
<1> HIDE DEF q, k
<1> QED BY <1>1, <1>2, NextMultiple

\* getAddrFromGap accepts every gap in which an aligned block of the size fits: the
\* step down by one alignment in the Down direction is enough.
LEMMA GapWithRoomFits ==
  ASSUME NEW g \in GapRec, NEW size \in Nat \ {0}, NEW alignment \in Nat \ {0}, NEW dir,
         NEW addr \in Nat, addr % alignment = 0, g.begin <= addr, addr + size <= g.end
  PROVE  GetAddrFromGap(g, size, alignment, dir) # InvalidAddress
<1>1. g.begin \in Nat /\ g.end \in Nat /\ ~(GapSize(g) < size)
  BY DEF GapRec, GapSize
<1>2. CASE dir = "Up"
  <2> DEFINE begin == AlignValUp(g.begin, alignment)
  <2>1. begin \in Nat /\ begin < g.begin + alignment
    BY <1>1, AlignValUpBounds
  <2>2. begin <= addr
    <3>1. addr < begin => addr + alignment <= begin
      BY <1>1, AlignedMultiples
    <3> QED BY <1>1, <2>1, <3>1
  <2>3. GetAddrFromGap(g, size, alignment, dir) =
          IF begin + size > g.end THEN InvalidAddress ELSE begin
    BY <1>1, <1>2 DEF GetAddrFromGap, GetAddrUp
  <2> HIDE DEF begin
  <2> QED BY <1>1, <2>1, <2>2, <2>3 DEF InvalidAddress
<1>3. CASE dir # "Up"
  <2> DEFINE v == g.end - size
             begin == AlignValUp(v, alignment)
             lower == IF begin + size > g.end THEN begin - alignment ELSE begin
  <2>1. v \in Nat /\ addr <= v
    BY <1>1
  <2>2. begin \in Nat /\ v <= begin /\ begin < v + alignment
    BY <2>1, AlignValUpBounds
  <2>3. addr < begin => addr + alignment <= begin
    BY <2>1, AlignedMultiples
  <2>4. GetAddrFromGap(g, size, alignment, dir) =
          IF begin + size > g.end /\ g.begin + alignment > begin THEN InvalidAddress
          ELSE IF lower + size > g.end THEN InvalidAddress
          ELSE lower
    BY <1>1, <1>3 DEF GetAddrFromGap, GetAddrDown
  <2> HIDE DEF begin
  <2>5. CASE begin + size > g.end
    <3>1. g.begin + alignment <= begin
      BY <1>1, <2>1, <2>2, <2>3, <2>5
    <3> QED BY <1>1, <2>1, <2>2, <2>4, <2>5, <3>1 DEF InvalidAddress
  <2>6. CASE ~(begin + size > g.end)
    BY <1>1, <2>2, <2>4, <2>6 DEF InvalidAddress
  <2> QED BY <2>5, <2>6
<1> QED BY <1>2, <1>3

\* chooseMinimalGap fails only if no gap is suitable, the last one included.
LEMMA NoGapChosen ==
  ASSUME NEW total \in Nat, NEW gs, IsGapList(gs, total), NEW size, NEW alignment, NEW dir,
         ChooseMinimalGap(gs, size, alignment, dir) = 0
  PROVE  \A i \in DOMAIN gs : ~Fits(gs, i, size, alignment, dir)
<1> DEFINE fit == Suitable(gs, size, alignment, dir)
           others == fit \ {LastGap(gs, dir)}
<1>1. 0 \notin DOMAIN gs /\ fit = {i \in DOMAIN gs : Fits(gs, i, size, alignment, dir)}
  BY GapListFacts DEF Suitable
<1>2. ChooseMinimalGap(gs, size, alignment, dir) =
        IF fit = {} THEN 0
        ELSE IF others = {} THEN LastGap(gs, dir)
        ELSE CHOOSE i \in others : \A j \in others : Preferred(gs, i, j, dir)
  BY DEF ChooseMinimalGap
<1> HIDE DEF fit
<1>3. others # {} => \E i \in others : \A j \in others : Preferred(gs, i, j, dir)
  BY <1>1, PreferredExists
<1>4. fit = {}
  <2>1. CASE fit # {} /\ others = {}
    BY <1>1, <1>2, <2>1
  <2>2. CASE fit # {} /\ others # {}
    BY <1>1, <1>2, <1>3, <2>2
  <2> QED BY <2>1, <2>2
<1> QED BY <1>1, <1>4

-----------------------------------------------------------------------------
\* Two lists that cover the same have the same gaps at the same places.
LEMMA SameGaps ==
  ASSUME NEW total \in Nat, NEW g, IsGapList(g, total), NEW h, IsGapList(h, total),
         \A x \in Nat : Covers(g, x) <=> Covers(h, x)
  PROVE  \A i \in DOMAIN g : i \in DOMAIN h /\ g[i] = h[i]
<1>1. /\ Len(g) \in Nat /\ DOMAIN g = 1 .. Len(g) /\ Len(h) \in Nat /\ DOMAIN h = 1 .. Len(h)
      /\ \A i \in DOMAIN g : /\ g[i] \in GapRec /\ g[i].begin \in Nat /\ g[i].end \in Nat
                             /\ g[i].begin < g[i].end
      /\ \A i \in DOMAIN h : /\ h[i] \in GapRec /\ h[i].begin \in Nat /\ h[i].end \in Nat
                             /\ h[i].begin < h[i].end
      /\ \A i, j \in DOMAIN g : i < j => g[i].end < g[j].begin
      /\ \A i, j \in DOMAIN h : i < j => h[i].end < h[j].begin
  BY GapListFacts
<1>0. /\ \A i \in DOMAIN g, x \in Nat : g[i].begin <= x /\ x < g[i].end => Covers(h, x)
      /\ \A i \in DOMAIN h, x \in Nat : h[i].begin <= x /\ x < h[i].end => Covers(g, x)
  <2>1. /\ \A i \in DOMAIN g, x \in Nat : g[i].begin <= x /\ x < g[i].end => Covers(g, x)
        /\ \A i \in DOMAIN h, x \in Nat : h[i].begin <= x /\ x < h[i].end => Covers(h, x)
    BY DEF Covers, In
  <2> QED BY <2>1
<1> DEFINE other == {i \in DOMAIN g : ~(i \in DOMAIN h /\ g[i] = h[i])}
<1> SUFFICES ASSUME other # {} PROVE FALSE
  OBVIOUS
<1>2. PICK m \in other : \A i \in other : m <= i
  <2>1. other \subseteq Nat
    BY <1>1
  <2> QED BY <2>1, NatMinimum
<1>3. \A i \in DOMAIN g : i < m => i \in DOMAIN h /\ g[i] = h[i]
  BY <1>1, <1>2
<1>4. m \in DOMAIN g /\ m \in Nat
  BY <1>1
<1> HIDE DEF other
<1>5. PICK k \in DOMAIN h : h[k].begin <= g[m].begin /\ g[m].begin < h[k].end
  <2>1. Covers(h, g[m].begin)
    BY <1>0, <1>1, <1>4
  <2> QED BY <2>1 DEF Covers, In
<1>6. k >= m
  <2> SUFFICES ASSUME k < m PROVE FALSE
    BY <1>1, <1>4
  <2>1. k \in DOMAIN g
    BY <1>1, <1>4
  <2>2. g[k] = h[k] /\ g[k].end < g[m].begin
    BY <1>1, <1>3, <1>4, <2>1
  <2> QED BY <1>1, <1>4, <1>5, <2>1, <2>2
<1>7. m \in DOMAIN h
  BY <1>1, <1>4, <1>6
<1>8. h[m].begin <= g[m].begin
  <2>1. m = k \/ h[m].end < h[k].begin
    BY <1>1, <1>6, <1>7
  <2> QED BY <1>1, <1>4, <1>5, <1>7, <2>1, SMTT(30)
<1>9. h[m].begin = g[m].begin
  <2> SUFFICES ASSUME h[m].begin < g[m].begin PROVE FALSE
    BY <1>1, <1>4, <1>7, <1>8
  <2>1. Covers(g, h[m].begin)
    BY <1>0, <1>1, <1>7
  <2>2. PICK j \in DOMAIN g : g[j].begin <= h[m].begin /\ h[m].begin < g[j].end
    BY <2>1 DEF Covers, In
  <2>3. j < m
    <3>1. j = m \/ j < m \/ m < j
      BY <1>1, <1>4
    <3>2. m < j => g[m].end < g[j].begin
      BY <1>1, <1>4
    <3> QED BY <1>1, <1>4, <1>7, <2>2, <3>1, <3>2, SMTT(30)
  <2>4. j \in DOMAIN h /\ g[j] = h[j] /\ h[j].end < h[m].begin
    BY <1>1, <1>3, <1>7, <2>3
  <2> QED BY <1>1, <1>7, <2>2, <2>4
<1>10. g[m].end = h[m].end
  <2>1. ~Covers(g, g[m].end)
    <3> SUFFICES ASSUME NEW j \in DOMAIN g, g[j].begin <= g[m].end, g[m].end < g[j].end PROVE FALSE
      BY DEF Covers, In
    <3>1. j = m \/ j < m \/ m < j
      BY <1>1, <1>4
    <3>2. (m < j => g[m].end < g[j].begin) /\ (j < m => g[j].end < g[m].begin)
      BY <1>1, <1>4
    <3> QED BY <1>1, <1>4, <3>1, <3>2
  <2>2. ~Covers(h, h[m].end)
    <3> SUFFICES ASSUME NEW j \in DOMAIN h, h[j].begin <= h[m].end, h[m].end < h[j].end PROVE FALSE
      BY DEF Covers, In
    <3>1. j = m \/ j < m \/ m < j
      BY <1>1, <1>4
    <3>2. (m < j => h[m].end < h[j].begin) /\ (j < m => h[j].end < h[m].begin)
      BY <1>1, <1>7
    <3> QED BY <1>1, <1>7, <3>1, <3>2
  <2>3. CASE g[m].end < h[m].end
    <3>1. Covers(h, g[m].end)
      BY <1>0, <1>1, <1>4, <1>7, <1>9, <2>3
    <3> QED BY <1>1, <1>4, <2>1, <3>1
  <2>4. CASE h[m].end < g[m].end
    <3>1. Covers(g, h[m].end)
      BY <1>0, <1>1, <1>4, <1>7, <1>9, <2>4
    <3> QED BY <1>1, <1>7, <2>2, <3>1
  <2> QED BY <1>1, <1>4, <1>7, <2>3, <2>4
<1>11. g[m] = h[m]
  <2>1. g[m] \in GapRec /\ h[m] \in GapRec
    BY <1>1, <1>4, <1>7
  <2> QED BY <1>9, <1>10, <2>1 DEF GapRec
<1> QED BY <1>7, <1>11 DEF other

\* What a list covers determines the list: gaps are as large as they can be.
LEMMA GapListsUnique ==
  ASSUME NEW total \in Nat, NEW g, IsGapList(g, total), NEW h, IsGapList(h, total),
         \A x \in Nat : Covers(g, x) <=> Covers(h, x)
  PROVE  g = h
<1>1. /\ \A i \in DOMAIN g : i \in DOMAIN h /\ g[i] = h[i]
      /\ \A i \in DOMAIN h : i \in DOMAIN g
  BY SameGaps
<1>2. g \in Seq(GapRec) /\ h \in Seq(GapRec)
  BY GapListFacts
<1>3. DOMAIN g = DOMAIN h
  BY <1>1
<1>4. Len(g) = Len(h)
  BY <1>2, <1>3, LenProperties
<1> QED BY <1>1, <1>2, <1>4, SeqEqual

-----------------------------------------------------------------------------
(***************************************************************************)
(* Counting addresses.                                                     *)
(***************************************************************************)
\* There are n addresses below n.
LEMMA AddressesBelow ==
  ASSUME NEW n \in Nat
  PROVE  IsFiniteSet(0 .. n - 1) /\ Cardinality(0 .. n - 1) = n
<1>1. 0 \in Int /\ n - 1 \in Int /\ (IF 0 > n - 1 THEN 0 ELSE (n - 1) - 0 + 1) = n
  OBVIOUS
<1> QED BY <1>1, FS_Interval

\* n addresses from a on, next to others.
LEMMA BlockAdded ==
  ASSUME NEW A, IsFiniteSet(A), NEW a \in Nat, NEW n \in Nat, A \cap (a .. a + n - 1) = {}
  PROVE  Cardinality(A \cup (a .. a + n - 1)) = Cardinality(A) + n
<1> DEFINE B == a .. a + n - 1
<1>1. IsFiniteSet(B) /\ Cardinality(B) = n
  <2>1. a \in Int /\ a + n - 1 \in Int /\ (IF a > a + n - 1 THEN 0 ELSE a + n - 1 - a + 1) = n
    OBVIOUS
  <2> QED BY <2>1, FS_Interval
<1>2. A \cap B = {}
  OBVIOUS
<1> HIDE DEF B
<1>3. Cardinality(A \cup B) = Cardinality(A) + Cardinality(B) - Cardinality(A \cap B)
  BY <1>1, FS_Union
<1>4. Cardinality(A \cap B) = 0 /\ Cardinality(A) \in Nat
  BY <1>2, FS_EmptySet, FS_CardinalityType
<1>5. Cardinality(A \cup B) = Cardinality(A) + n
  BY <1>1, <1>3, <1>4
<1> QED BY <1>5 DEF B

\* The addresses of the gaps at some positions of a list.
GapAddresses(gs, p, total) == {x \in 0 .. total - 1 : \E k \in p : In(gs[k], x)}

\* One more position adds the size of its gap.
LEMMA GapCounted ==
  ASSUME NEW total \in Nat, NEW gs, IsGapList(gs, total), NEW p \in SUBSET DOMAIN gs, NEW k \in p
  PROVE  Cardinality(GapAddresses(gs, p, total))
           = Cardinality(GapAddresses(gs, p \ {k}, total)) + GapSize(gs[k])
<1> DEFINE A == GapAddresses(gs, p \ {k}, total)
           g == gs[k]
<1>1. /\ g.begin \in Nat /\ g.end \in Nat /\ g.begin < g.end /\ g.end <= total
      /\ \A i \in DOMAIN gs : gs[i].begin \in Nat /\ gs[i].end \in Nat
      /\ \A i, j \in DOMAIN gs : i < j => gs[i].end < gs[j].begin
      /\ DOMAIN gs = 1 .. Len(gs) /\ Len(gs) \in Nat
  BY GapListFacts
<1>2. PICK n \in Nat : n = g.end - g.begin
  BY <1>1
<1>3. g.begin .. g.begin + n - 1 = {x \in 0 .. total - 1 : In(g, x)}
  <2>1. ASSUME NEW b \in Nat, NEW e \in Nat, e <= total, n = e - b
        PROVE  b .. b + n - 1 = {x \in 0 .. total - 1 : b <= x /\ x < e}
    BY <2>1
  <2>2. g.begin .. g.begin + n - 1 = {x \in 0 .. total - 1 : g.begin <= x /\ x < g.end}
    BY <1>1, <1>2, <2>1
  <2> QED BY <2>2 DEF In
<1>4. A \cap (g.begin .. g.begin + n - 1) = {}
  <2> SUFFICES ASSUME NEW x \in 0 .. total - 1, NEW i \in p \ {k}, In(gs[i], x), In(g, x) PROVE FALSE
    BY <1>3 DEF GapAddresses
  <2>1. i \in DOMAIN gs /\ k \in DOMAIN gs /\ (i < k \/ k < i)
    BY <1>1
  <2> QED BY <1>1, <2>1 DEF In
<1>5. IsFiniteSet(A)
  <2>1. A \in SUBSET (0 .. total - 1)
    BY DEF GapAddresses
  <2>2. IsFiniteSet(0 .. total - 1)
    BY FS_Interval
  <2> HIDE DEF A
  <2> QED BY <2>1, <2>2, FS_Subset
<1>6. GapAddresses(gs, p, total) = A \cup (g.begin .. g.begin + n - 1)
  BY <1>3 DEF GapAddresses
<1> HIDE DEF A
<1>7. Cardinality(A \cup (g.begin .. g.begin + n - 1)) = Cardinality(A) + n
  BY <1>1, <1>4, <1>5, BlockAdded
<1> QED BY <1>2, <1>6, <1>7 DEF A, GapSize
=============================================================================
