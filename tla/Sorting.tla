------------------------------ MODULE Sorting ------------------------------
(***************************************************************************)
(* Numbers in ascending order.                                             *)
(***************************************************************************)
EXTENDS Integers, FiniteSets

RankIn(S, n) == Cardinality({m \in S : m <= n})

\* The numbers of S, the lowest first.
Ascending(S) == [k \in 1 .. Cardinality(S) |-> CHOOSE n \in S : RankIn(S, n) = k]

=============================================================================
