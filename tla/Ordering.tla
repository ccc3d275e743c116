------------------------------ MODULE Ordering ------------------------------
(* Finite sets of numbers as sequences: SetToSortSeq(S, <), by the rank of   *)
(* each member, in a form that the provers can reason about.                 *)
EXTENDS Naturals, FiniteSets

Below(S, i) == {j \in S : j < i}
InOrder(S) == [k \in 1 .. Cardinality(S) |-> CHOOSE i \in S : Cardinality(Below(S, i)) = k - 1]
=============================================================================
