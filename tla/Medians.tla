------------------------------ MODULE Medians -------------------------------
(***************************************************************************)
(* Order statistics, which medians are made of: the value that a sorted     *)
(* list has at a place, said without sorting.                               *)
(***************************************************************************)
EXTENDS Integers, FiniteSets

(* The i-th smallest of the values that f has on K.                          *)
Nth(K, f, i) ==
  CHOOSE v \in {f[k] : k \in K} :
    /\ Cardinality({k \in K : f[k] < v}) < i
    /\ i <= Cardinality({k \in K : f[k] <= v})
=============================================================================
