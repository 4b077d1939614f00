------------------------------- MODULE Listings -------------------------------
(***************************************************************************)
(* Rows in the order of their numbers: ORDER BY in the queries, and a      *)
(* comprehension over a sequence, which keeps the order of what it keeps.  *)
(***************************************************************************)
EXTENDS Naturals, FiniteSets

\* some numbers, the smallest first
InOrder(some) ==
    CHOOSE listed \in [1..Cardinality(some) -> some] :
        \A k, m \in 1..Cardinality(some) : k < m => listed[k] < listed[m]

\* what a sequence holds at some of its places
AtPlaces(sequence, places) ==
    LET order == InOrder(places) IN [k \in 1..Cardinality(places) |-> sequence[order[k]]]
=============================================================================
