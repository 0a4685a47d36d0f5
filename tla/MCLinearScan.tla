----------------------------- MODULE MCLinearScan -----------------------------
(***************************************************************************)
(* Instances of LinearScan for TLC: range pinned has a fixed address.      *)
(***************************************************************************)
EXTENDS LinearScan

CONSTANTS one, two, three, pinned

MCSize == [r \in Ranges |-> CASE r = one -> 1 [] r = two -> 2 [] r = three -> 3 [] r = pinned -> 2]
MCAlignment == [r \in Ranges |-> IF r = two THEN 2 ELSE 1]
MCFixedAddr == [r \in Ranges |-> IF r = pinned THEN 2 ELSE None]
MCSpillWeight == [r \in Ranges |-> IF r = one THEN 2 ELSE 1]
MCReserved == <<[addr |-> 0, size |-> 1]>>
MCReservedSpaces == {[size |-> 1, alignment |-> 4]}
MCRegions == {[addr |-> 3, size |-> 2]}
=============================================================================
