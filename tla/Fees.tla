-------------------------------- MODULE Fees --------------------------------
(***************************************************************************)
(* The "Biaya admin" a customer pays on top of a payment (FeeRule.Fee), so *)
(* that what the provider leaves the shop is still the whole amount.       *)
(* Amounts are whole rupiah.  Nothing here has state.                      *)
(***************************************************************************)
EXTENDS Integers, Payments

CONSTANTS
  Bps,      \* basis points in one: 10000
  VatBps    \* VAT on the provider's price, in basis points: 1100

ASSUME FeesAssumption == Bps \in Nat \ {0} /\ VatBps \in Nat

\* Rules Validate lets in.  With 10000, 1100 and a rate of at most 5000, the
\* provider never takes all of a payment.
FeeRuleOK(rule) ==
  /\ rule.method \in {"qris", "other"}
  /\ rule.fixed \in Nat /\ rule.rate \in Nat
  /\ rule.vatIncluded \in BOOLEAN
  /\ rule.rate < Bps /\ rule.rate * (Bps + VatBps) < Bps * Bps

\* What the provider takes of each payment as it is, with VAT.
Fixed(rule) == CeilDiv(rule.fixed * (Bps + VatBps), Bps)

\* What it takes of every gross: num of den parts, rounded up.
Num(rule) == IF rule.vatIncluded THEN rule.rate ELSE rule.rate * (Bps + VatBps)
Den(rule) == IF rule.vatIncluded THEN Bps ELSE Bps * Bps
Cut(rule, gross) == CeilDiv(gross * Num(rule), Den(rule))

\* What the shop is left with.
Kept(rule, gross) == gross - Fixed(rule) - Cut(rule, gross)

\* Fault: a rupiah more, in case of rounding.
Exact_OneMore(rule, amount) ==
  ((amount + Fixed(rule)) * Den(rule)) \div (Den(rule) - Num(rule)) + 1

\* The exact gross, rounded up: where the search starts.
Exact(rule, amount) ==
  CeilDiv((amount + Fixed(rule)) * Den(rule), Den(rule) - Num(rule))

\* The first gross from there on that leaves the shop the amount.
Gross(rule, amount) ==
  LET from == Exact(rule, amount)
  IN  CHOOSE g \in from .. from + Den(rule) :
        /\ Kept(rule, g) >= amount
        /\ \A h \in from .. g - 1 : Kept(rule, h) < amount

Fee(rule, amount) ==
  IF rule.method = "qris" THEN 0 ELSE Gross(rule, amount) - amount

=============================================================================
