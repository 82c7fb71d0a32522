------------------------------- MODULE MapOrder -------------------------------
(***************************************************************************)
(* What deleting keys leaves of a Map, whose order is that of insertion.   *)
(* The entries are a sequence; a deletion is named by the places it keeps. *)
(***************************************************************************)
EXTENDS Naturals, Sequences, FiniteSets

\* The enumerations of S, a set of n numbers, in increasing order: one.
InOrder(n, S) == {f \in [1..n -> S] : \A i, j \in 1..n : i < j => f[i] < f[j]}

\* The entries of es at the places S, in their order.
Remaining(es, S) ==
  {[i \in DOMAIN at |-> es[at[i]]] : at \in InOrder(Cardinality(S), S)}
=============================================================================
