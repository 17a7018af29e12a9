-------------------------------- MODULE Ordering --------------------------------
(***************************************************************************)
(* What sorted() returns.  An order is the set of the pairs <<x, y>> in    *)
(* which x comes first; an element's place in a sorted sequence follows    *)
(* from how many come before it, whatever sequence is sorted.              *)
(***************************************************************************)
EXTENDS Naturals, FiniteSets

\* Of two different elements one comes first, and this is transitive.
IsOrder(S, before) ==
  /\ \A x \in S : <<x, x>> \notin before
  /\ \A x, y \in S : x # y => <<x, y>> \in before \/ <<y, x>> \in before
  /\ \A x, y, z \in S : <<x, y>> \in before /\ <<y, z>> \in before => <<x, z>> \in before

Ahead(S, before, x) == {y \in S : <<y, x>> \in before}

InOrder(S, before) ==
  [n \in 1..Cardinality(S) |-> CHOOSE x \in S : Cardinality(Ahead(S, before, x)) = n - 1]

AscendingOrder(numbers) == {p \in numbers \X numbers : p[1] < p[2]}
=============================================================================
