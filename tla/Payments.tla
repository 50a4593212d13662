------------------------------ MODULE Payments ------------------------------
(***************************************************************************)
(* The money rules of package payments that other modules build on: what   *)
(* the ledger's sum makes of an order's payment status, how payments are   *)
(* closed, and the down payment and "biaya admin" fixed at checkout.       *)
(* Amounts are whole rupiah.  Nothing here has state.                      *)
(***************************************************************************)
EXTENDS Integers

PaymentStatus == {"unpaid", "dp_paid", "paid_in_full", "forfeited", "refunded"}

ClosedPayment == {"forfeited", "refunded"}

\* Payments only ever move up this order; closed statuses are outside it.
Rank(s) ==
  CASE s = "unpaid"       -> 0
    [] s = "dp_paid"      -> 1
    [] s = "paid_in_full" -> 2
    [] OTHER              -> -1

\* The status the sum of the paid rows calls for.
Reached(total, dp, paid) ==
  IF paid >= total /\ total > 0 THEN "paid_in_full"
  ELSE IF paid >= dp /\ paid > 0 THEN "dp_paid"
  ELSE "unpaid"

\* Fault: the DP is looked at before the total.
Settle_DPFirst(current, total, dp, paid) ==
  IF paid >= dp THEN "dp_paid" ELSE current

\* The status after the ledger changed, for payments that are not closed.
Settle(current, total, dp, paid) ==
  LET next == Reached(total, dp, paid)
  IN  IF Rank(next) < Rank(current) THEN current ELSE next

\* Fault: money that is all in is kept as well.
CanClose_KeepsAll(current, to) == current \in {"dp_paid", "paid_in_full"}

\* A forfeit needs a paid DP and an open balance; a refund, something paid.
CanClose(current, to) ==
  \/ to = "forfeited" /\ current = "dp_paid"
  \/ to = "refunded"  /\ current \in {"dp_paid", "paid_in_full"}

-----------------------------------------------------------------------------
\* Division of a non-negative a by a positive b, rounded up.
CeilDiv(a, b) == (a + b - 1) \div b

Larger(a, b)  == IF a >= b THEN a ELSE b
Smaller(a, b) == IF a <= b THEN a ELSE b

\* The down payment locked at checkout.  policy: percent, coversCost.
DPRequired(policy, total, ingredientCost) ==
  LET share == CeilDiv(total * policy.percent, 100)
      dp    == IF policy.coversCost THEN Larger(share, ingredientCost) ELSE share
  IN  Smaller(dp, total)

=============================================================================
