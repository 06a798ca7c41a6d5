------------------------------- MODULE Lists -------------------------------
(***************************************************************************)
(* A Python list comprehension with a condition, [x for x in s if ...]:    *)
(* the items at the positions that satisfy the condition, in their order.  *)
(***************************************************************************)
EXTENDS Integers, Sequences, FiniteSets

(* The numbers in a finite set, in increasing order: the k-th of them is   *)
(* the one that has k - 1 smaller ones.                                    *)
Ascending(I) ==
    [k \in 1..Cardinality(I) |->
        CHOOSE i \in I : Cardinality({j \in I : j < i}) = k - 1]

ItemsAt(s, I) ==
    LET order == Ascending(I)
    IN  [k \in 1..Cardinality(I) |-> s[order[k]]]

=============================================================================
