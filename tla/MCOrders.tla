------------------------------ MODULE MCOrders ------------------------------
(***************************************************************************)
(* Small instances of Orders for TLC: what checkout may lock.              *)
(***************************************************************************)
EXTENDS Orders, TLC

Offer(total, dp, dpDue, balanceDue, mustPayInFull) ==
  [total |-> total, dp |-> dp, dpDue |-> dpDue, balanceDue |-> balanceDue,
   mustPayInFull |-> mustPayInFull]

\* A DP and two instalments; a DP that is the whole total; the same by rule.
AllTerms == { Offer(3, 1, 1, 2, FALSE), Offer(3, 2, 1, 3, FALSE),
              Offer(2, 2, 1, 2, FALSE), Offer(2, 2, 2, 1, TRUE) }

\* Two deadlines apart, for the order in which a sweep takes its orders.
SweepTerms == { Offer(2, 1, 1, 3, FALSE), Offer(2, 1, 2, 4, FALSE) }

\* Workers differ in nothing but what they do.
WorkersAlike == Permutations(Worker)

=============================================================================
