------------------------------ MODULE MCKitchen ------------------------------
(***************************************************************************)
(* A kitchen for TLC that buys flour, in packs of two, for two days.       *)
(***************************************************************************)
EXTENDS Kitchen, TLC

CONSTANTS r1, r2, p1, p2

FlourSupplier == 1 :> "shop"
FlourPack == 1 :> 2

Alike == Permutations(Runner) \cup Permutations(Purchase)

\* A purchase for day 1 that was cancelled.
Cancelled == [day |-> 1, items |-> (1 :> [qty |-> 2, status |-> "cancelled", got |-> 0])]

Fresh == [p \in Purchase |-> NoPurchase]
Batches(first, second) == 1 :> first @@ 2 :> second
Begin(b, ps, f) == [batch |-> b, purchases |-> ps, failures |-> f]

NoDayYet == {Begin(Batches("none", "none"), Fresh, 0)}
OpenDays == {Begin(Batches("open", "open"), Fresh, 0)}

\* Two open days with a failure to come and no purchases to make; two days in
\* production with one purchase to make; or one such day with two.
TwoDays ==
  {Begin(Batches("open", "open"), [p \in Purchase |-> Cancelled], 0)}
    \cup {Begin(Batches("in_production", "in_production"), [Fresh EXCEPT ![p] = Cancelled], MaxFailures)
            : p \in Purchase}
    \cup {Begin(Batches("in_production", "done"), Fresh, MaxFailures)}

=============================================================================
