------------------------------ MODULE ControlEdges ------------------------------
(***************************************************************************)
(* ControlEdgeGenerator (control_edge_generator.hpp) and                   *)
(* FeasibleMemorySchedulerControlEdges: operations that use overlapping    *)
(* memory are ordered as they were scheduled.                              *)
(*                                                                         *)
(* A resource is the memory begin .. end - 1 an operation produces or      *)
(* consumes: the root buffer, and the part of it that is accessed (view),  *)
(* or 0 if that is all of it or not known.  The interval tree of the code  *)
(* is a function on addresses, whose intervals are the runs of addresses   *)
(* with the same owners.                                                   *)
(***************************************************************************)
EXTENDS Integers, FiniteSetsExt, SequencesExt

Resource(op, producer, begin, end, root, view) ==
  [op |-> op, producer |-> producer, begin |-> begin, end |-> end, root |-> root, view |-> view]

NoOwners == [producers |-> {}, consumers |-> {}]

\* Mutant: views of different buffers are taken for views of one.
CanOverlapInAnyBuffer(r, s) ==
  \/ r.end <= s.begin \/ s.end <= r.begin
  \/ r.begin = s.begin /\ r.end = s.end /\ r.view # s.view

CanOverlap(r, s) ==
  \/ r.end <= s.begin \/ s.end <= r.begin
  \/ /\ r.begin = s.begin /\ r.end = s.end
     /\ r.view # 0 /\ s.view # 0 /\ r.root = s.root /\ r.view # s.view

EdgesFrom(rs, to) == {<<r.op, to.op>> : r \in rs}

\* A new producer may coexist with the ones there are: it comes after what they
\* come after.  Otherwise it comes after the consumers, or the producers if there
\* are none, and replaces them.
Coexists(owners, r) == \A p \in owners.producers : CanOverlap(r, p)

ProducerEdges(owners, r, edges) ==
  IF Coexists(owners, r)
  THEN {<<e[1], r.op>> : e \in {e \in edges : e[1] # e[2] /\ \E p \in owners.producers : p.op = e[2]}}
  ELSE EdgesFrom(IF owners.consumers = {} THEN owners.producers ELSE owners.consumers, r)

ConsumerEdges(owners, r) == EdgesFrom({p \in owners.producers : ~CanOverlap(r, p)}, r)

NewOwners(owners, r) ==
  IF ~r.producer THEN [owners EXCEPT !.consumers = @ \cup {r}]
  ELSE IF Coexists(owners, r) THEN [owners EXCEPT !.producers = @ \cup {r}]
  ELSE [NoOwners EXCEPT !.producers = {r}]

Cells(r) == [k \in 1 .. r.end - r.begin |-> r.begin + k - 1]

ProcessCell(acc, a, r) ==
  LET owners == acc.owners[a]
  IN  [owners |-> [acc.owners EXCEPT ![a] = NewOwners(owners, r)],
       edges |-> acc.edges \cup (IF r.producer THEN ProducerEdges(owners, r, acc.edges)
                                 ELSE ConsumerEdges(owners, r))]

\* processNextInterval
ProcessNextInterval(acc, r) == FoldLeft(LAMBDA c, a : ProcessCell(c, a, r), acc, Cells(r))

\* generateControlEdges, in a memory of the given size.
GenerateControlEdges(resources, memory) ==
  FoldLeft(ProcessNextInterval, [owners |-> [a \in 0 .. memory - 1 |-> NoOwners], edges |-> {}],
           resources).edges

\* updateControlEdgesInDepsInfo.  Operations the scheduler let run at the same time
\* are not ordered, unless one was moved since; they take over the order of each
\* other towards the rest.
OrderedEdges(edges, begin, end, modified) ==
  LET real == {e \in edges : e[1] # e[2]}
      dropped == {e \in real : /\ e[1] \notin modified /\ e[2] \notin modified
                               /\ begin[e[2]] < end[e[1]] /\ end[e[2]] > begin[e[1]]}
      before == {p \in dropped \X real : p[1][2] = p[2][1]}
      after == {p \in dropped \X real : p[1][1] = p[2][2]}
  IN  (real \ dropped)
      \cup {<<p[1][1], p[2][2]>> : p \in before}
      \cup {<<p[2][1], p[1][2]>> : p \in after}
=============================================================================
