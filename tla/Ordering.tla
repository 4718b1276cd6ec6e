------------------------------- MODULE Ordering -------------------------------
(***************************************************************************)
(* What Array.prototype.sort does with distinct elements: the sequence of  *)
(* a finite set in the order of a relation.  (SequencesExt has it as       *)
(* SetToSortSeq, by way of operators that the proof system cannot expand.) *)
(***************************************************************************)
EXTENDS Integers, FiniteSets

\* Each element stands behind as many as precede it.
InOrder(S, precedes) ==
  [n \in 1 .. Cardinality(S) |->
     CHOOSE x \in S : Cardinality({y \in S : <<y, x>> \in precedes}) = n - 1]

\* precedes is a strict total order of S.
TotalOrder(S, precedes) ==
  /\ \A x \in S : <<x, x>> \notin precedes
  /\ \A x, y \in S : x # y => <<x, y>> \in precedes \/ <<y, x>> \in precedes
  /\ \A x, y, z \in S : <<x, y>> \in precedes /\ <<y, z>> \in precedes => <<x, z>> \in precedes
===============================================================================
