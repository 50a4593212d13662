---------------------------- MODULE ShopProofs -----------------------------
(***************************************************************************)
(* Proofs about what the shop offers and what staff set, for every ask,    *)
(* shop and fee rule, and any edits sent at any time: first what Plan, the *)
(* DP and the fees promise of every accepted quote (Quotes), then that one *)
(* lock guards what an edit read until it is saved, and the unique index   *)
(* the default packs (Edits), and last what recipes come to, for every     *)
(* line entered or measured (Recipes).                                     *)
(*                                                                         *)
(* For the recipes: fractions are compared by multiplying crosswise; a     *)
(* model that may be stored never takes less of more units; the fit of     *)
(* points by least squares is such a model, by Cauchy and Schwarz; and     *)
(* sums of fractions may be taken in any order, by rows or by columns.     *)
(***************************************************************************)
EXTENDS Quotes, Edits, Recipes, Sums

USE DEF Smaller, Larger

-----------------------------------------------------------------------------
\* Arithmetic.

\* What integer division leaves.
LEMMA Division ==
  ASSUME NEW x \in Int, NEW d \in Nat \ {0}
  PROVE  /\ x \div d \in Int
         /\ d * (x \div d) <= x
         /\ x < d * (x \div d) + d
  OBVIOUS

\* A product of naturals is one.
LEMMA NatProduct ==
  ASSUME NEW x \in Nat, NEW y \in Nat
  PROVE  x * y \in Nat
  OBVIOUS

\* Multiplying by a natural keeps the order.
LEMMA Monotone ==
  ASSUME NEW x \in Int, NEW y \in Int, NEW d \in Nat, x <= y
  PROVE  d * x <= d * y
  OBVIOUS

\* A larger multiple has a larger factor.
LEMMA Cancelled ==
  ASSUME NEW x \in Int, NEW y \in Int, NEW d \in Nat \ {0}, d * x < d * y
  PROVE  x < y
<1>1. CASE x < y
  BY <1>1
<1>2. CASE y <= x
  BY <1>2, Monotone
<1> QED
  BY <1>1, <1>2

\* CeilDiv is the least number whose multiple reaches a.
LEMMA CeilDivLeast ==
  ASSUME NEW a \in Nat, NEW b \in Nat \ {0}
  PROVE  /\ CeilDiv(a, b) \in Nat
         /\ b * CeilDiv(a, b) >= a
         /\ b * (CeilDiv(a, b) - 1) < a
<1> DEFINE x == a + b - 1
           q == x \div b
<1>1. x \in Nat
  OBVIOUS
<1>2. q \in Int /\ b * q <= x /\ x < b * q + b
  BY <1>1, Division
<1>3. CeilDiv(a, b) = q
  BY DEF CeilDiv
<1>4. b * (q - 1) = b * q - b
  BY <1>2
<1>5. q >= 0
  <2>1. SUFFICES ASSUME q + 1 <= 0 PROVE FALSE
    BY <1>2
  <2>2. b * (q + 1) <= b * 0
    BY <2>1, <1>2, Monotone
  <2>3. b * (q + 1) = b * q + b
    BY <1>2
  <2> QED
    BY <2>2, <2>3, <1>1, <1>2
<1>6. b * q \in Int
  BY <1>2
<1> HIDE DEF q
<1> QED
  BY <1>2, <1>3, <1>4, <1>5, <1>6


-----------------------------------------------------------------------------
\* Fees.

\* The provider takes num of den parts, fewer than all.
LEMMA RuleParts ==
  ASSUME NEW rule, FeeRuleOK(rule)
  PROVE  /\ Fixed(rule) \in Nat
         /\ Num(rule) \in Nat
         /\ Den(rule) \in Nat \ {0}
         /\ Den(rule) - Num(rule) \in Nat \ {0}
         /\ Den(rule) - Num(rule) <= Den(rule)
<1>1. /\ Bps \in Nat \ {0} /\ VatBps \in Nat /\ Bps + VatBps \in Nat
      /\ rule.fixed \in Nat /\ rule.rate \in Nat /\ rule.vatIncluded \in BOOLEAN
      /\ rule.rate < Bps /\ rule.rate * (Bps + VatBps) < Bps * Bps
  BY FeesAssumption DEF FeeRuleOK
<1>2. rule.fixed * (Bps + VatBps) \in Nat
  BY <1>1, NatProduct
<1>3. rule.rate * (Bps + VatBps) \in Nat
  BY <1>1, NatProduct
<1>4. Bps * Bps \in Nat
  BY <1>1, NatProduct
<1>5. Fixed(rule) \in Nat
  BY <1>1, <1>2, CeilDivLeast DEF Fixed
<1>6. Num(rule) \in Nat /\ Den(rule) \in Nat /\ Num(rule) < Den(rule)
  BY <1>1, <1>3, <1>4 DEF Num, Den
<1> QED
  BY <1>5, <1>6

\* Of a gross the shop keeps the amount exactly when the parts it keeps are
\* worth the amount and the fixed fee: rounding the cut up changes nothing.
LEMMA KeptEnough ==
  ASSUME NEW rule, FeeRuleOK(rule), NEW amount \in Nat, NEW gross \in Nat
  PROVE  /\ Kept(rule, gross) \in Int
         /\ Kept(rule, gross) >= amount <=>
              (Den(rule) - Num(rule)) * gross >= (amount + Fixed(rule)) * Den(rule)
<1> DEFINE D == Den(rule)
           N == Num(rule)
           c == CeilDiv(gross * N, D)
           k == gross - Fixed(rule) - amount
<1>1. D \in Nat \ {0} /\ N \in Nat /\ Fixed(rule) \in Nat
  BY RuleParts
<1>2. gross * N \in Nat
  BY <1>1, NatProduct
<1>3. c \in Nat /\ D * c >= gross * N /\ D * (c - 1) < gross * N
  BY <1>1, <1>2, CeilDivLeast
<1>4. Kept(rule, gross) = gross - Fixed(rule) - c
  BY DEF Kept, Cut
<1>5. k \in Int
  BY <1>1
<1>6. (D - N) * gross = D * gross - gross * N
  BY <1>1
<1>7. D * k = D * gross - (amount + Fixed(rule)) * D
  BY <1>1
<1>8. D * k \in Int /\ D * c \in Int /\ D * (c - 1) \in Int /\ D * gross \in Int
      /\ (amount + Fixed(rule)) * D \in Int
  BY <1>1, <1>3, <1>5
<1> HIDE DEF D, N, c, k
<1>9. c <= k <=> D * k >= gross * N
  <2>1. ASSUME c <= k PROVE D * k >= gross * N
    <3>1. D * c <= D * k
      BY <2>1, <1>1, <1>3, <1>5, Monotone
    <3> QED
      BY <3>1, <1>2, <1>3, <1>8
  <2>2. ASSUME D * k >= gross * N PROVE c <= k
    <3>1. D * (c - 1) < D * k
      BY <2>2, <1>2, <1>3, <1>8
    <3>2. c - 1 < k
      BY <3>1, <1>1, <1>3, <1>5, Cancelled
    <3> QED
      BY <3>2, <1>3, <1>5
  <2> QED
    BY <2>1, <2>2
<1>10. D * k >= gross * N <=> (D - N) * gross >= (amount + Fixed(rule)) * D
  BY <1>2, <1>6, <1>7, <1>8
<1>11. Kept(rule, gross) >= amount <=> c <= k
  BY <1>1, <1>3, <1>4 DEF k
<1> QED
  BY <1>1, <1>3, <1>4, <1>9, <1>10, <1>11 DEF D, N

\* The exact solution is the least gross that leaves the shop the amount.
LEMMA ExactIsLeast ==
  ASSUME NEW rule, FeeRuleOK(rule), NEW amount \in Nat
  PROVE  /\ Exact(rule, amount) \in Nat
         /\ Exact(rule, amount) >= amount
         /\ Kept(rule, Exact(rule, amount)) >= amount
         /\ \A h \in Nat : h < Exact(rule, amount) => Kept(rule, h) < amount
<1> DEFINE D == Den(rule)
           R == Den(rule) - Num(rule)
           need == (amount + Fixed(rule)) * D
           e == Exact(rule, amount)
<1>1. D \in Nat \ {0} /\ R \in Nat \ {0} /\ R <= D /\ Fixed(rule) \in Nat
  BY RuleParts
<1>2. need \in Nat
  <2>1. amount + Fixed(rule) \in Nat
    BY <1>1
  <2> QED
    BY <2>1, <1>1, NatProduct
<1>3. e \in Nat /\ R * e >= need /\ R * (e - 1) < need
  BY <1>1, <1>2, CeilDivLeast DEF Exact
<1>4. Kept(rule, e) >= amount
  BY <1>3, KeptEnough
<1>5. ASSUME NEW h \in Nat, h < e PROVE Kept(rule, h) < amount
  <2>1. R * h <= R * (e - 1)
    BY <1>1, <1>3, <1>5, Monotone
  <2>2. R * h \in Int /\ R * (e - 1) \in Int
    BY <1>1, <1>3
  <2> HIDE DEF R, need, e, D
  <2>3. ~ (R * h >= need)
    BY <2>1, <2>2, <1>2, <1>3
  <2>4. ~ (Kept(rule, h) >= amount) /\ Kept(rule, h) \in Int
    BY <2>3, KeptEnough DEF R, need, D
  <2> QED
    BY <2>4
<1>6. e >= amount
  <2>1. D * amount <= need
    <3>1. need = D * amount + D * Fixed(rule)
      BY <1>1
    <3>2. D * Fixed(rule) \in Nat /\ D * amount \in Nat
      BY <1>1, NatProduct
    <3> HIDE DEF need
    <3> QED
      BY <3>1, <3>2
  <2>2. R * amount <= D * amount
    <3>1. amount * R <= amount * D
      BY <1>1, Monotone
    <3> QED
      BY <3>1, <1>1
  <2>3. R * amount \in Int /\ D * amount \in Int /\ R * (e - 1) \in Int /\ R * e \in Int
    BY <1>1, <1>3
  <2> HIDE DEF R, need, e, D
  <2>4. R * (amount - 1) < R * e
    <3>1. R * (amount - 1) = R * amount - R
      BY <1>1
    <3> QED
      BY <3>1, <2>1, <2>2, <2>3, <1>1, <1>2, <1>3
  <2>5. amount - 1 < e
    BY <2>4, <1>1, <1>3, Cancelled
  <2> QED
    BY <2>5, <1>3
<1> QED
  BY <1>3, <1>4, <1>5, <1>6

\* So the search stops where it starts.
LEMMA GrossIsExact ==
  ASSUME NEW rule, FeeRuleOK(rule), NEW amount \in Nat
  PROVE  Gross(rule, amount) = Exact(rule, amount)
<1> DEFINE e == Exact(rule, amount)
           Fits(g) == Kept(rule, g) >= amount /\ \A h \in e .. g - 1 : Kept(rule, h) < amount
<1>1. e \in Nat /\ Kept(rule, e) >= amount
  BY ExactIsLeast
<1>2. Den(rule) \in Nat
  BY RuleParts
<1>3. Gross(rule, amount) = CHOOSE g \in e .. e + Den(rule) : Fits(g)
  BY DEF Gross
<1>4. e \in e .. e + Den(rule) /\ Fits(e)
  BY <1>1, <1>2
<1>5. ASSUME NEW g \in e .. e + Den(rule), Fits(g) PROVE g = e
  <2>1. Kept(rule, e) \in Int
    BY <1>1, KeptEnough
  <2>2. ASSUME g > e PROVE FALSE
    <3>1. e \in e .. g - 1
      BY <2>2, <1>1, <1>2
    <3> QED
      BY <3>1, <2>1, <1>1, <1>5
  <2> QED
    BY <2>2, <1>1, <1>2
<1> HIDE DEF e, Fits
<1> QED
  BY <1>3, <1>4, <1>5 DEF e

\* The fee is natural, enough, and the least that is.
LEMMA LeastFee ==
  ASSUME NEW rule, FeeRuleOK(rule), rule.method # "qris", NEW amount \in Nat
  PROVE  /\ Fee(rule, amount) \in Nat
         /\ Kept(rule, amount + Fee(rule, amount)) >= amount
         /\ \A f \in 0 .. Fee(rule, amount) - 1 : Kept(rule, amount + f) < amount
<1> DEFINE e == Exact(rule, amount)
<1>1. Fee(rule, amount) = e - amount
  BY GrossIsExact DEF Fee
<1>2. e \in Nat /\ e >= amount /\ Kept(rule, e) >= amount
      /\ \A h \in Nat : h < e => Kept(rule, h) < amount
  BY ExactIsLeast
<1> HIDE DEF e
<1>3. amount + Fee(rule, amount) = e
  BY <1>1, <1>2
<1>4. ASSUME NEW f \in 0 .. Fee(rule, amount) - 1 PROVE Kept(rule, amount + f) < amount
  <2>1. amount + f \in Nat /\ amount + f < e
    BY <1>1, <1>2
  <2> QED
    BY <2>1, <1>2
<1> QED
  BY <1>1, <1>2, <1>3, <1>4


-----------------------------------------------------------------------------
\* The down payment.

\* A DP is a part of the total, at least the policy's share of it, and covers
\* the ingredients where it must.
LEMMA DPInBounds ==
  ASSUME NEW terms, NEW total \in Nat \ {0}, NEW cost \in Nat,
         terms.percent \in 1 .. 100, terms.coversCost \in BOOLEAN
  PROVE  LET dp == DPRequired(terms, total, cost)
         IN  /\ dp \in 1 .. total
             /\ dp * 100 >= total * terms.percent
             /\ terms.coversCost => dp >= Smaller(cost, total)
<1> DEFINE part == total * terms.percent
           share == CeilDiv(part, 100)
           dp == IF terms.coversCost THEN Larger(share, cost) ELSE share
<1>1. part \in Nat /\ part >= 1 /\ part <= total * 100
  <2>1. part \in Nat
    BY NatProduct
  <2>2. total * 1 <= total * terms.percent /\ total * terms.percent <= total * 100
    BY Monotone
  <2> QED
    BY <2>1, <2>2
<1> HIDE DEF part
<1>2. share \in Nat /\ 100 * share >= part
  <2>1. 100 \in Nat \ {0}
    OBVIOUS
  <2> QED
    BY <2>1, <1>1, CeilDivLeast
<1> HIDE DEF share
<1>3. share >= 1
  BY <1>1, <1>2
<1>4. dp \in Nat /\ dp >= share /\ (terms.coversCost => dp >= cost)
  BY <1>2
<1>5. DPRequired(terms, total, cost) = Smaller(dp, total)
  BY DEF DPRequired, share, part
<1> HIDE DEF dp
<1>6. Smaller(dp, total) \in 1 .. total
  BY <1>3, <1>2, <1>4
<1>7. Smaller(dp, total) * 100 >= part
  BY <1>1, <1>2, <1>4
<1>8. terms.coversCost => Smaller(dp, total) >= Smaller(cost, total)
  BY <1>4
<1> QED
  BY <1>5, <1>6, <1>7, <1>8 DEF part

-----------------------------------------------------------------------------
\* The schedule.

\* Something at most a day earlier is on the same day or the day before.
LEMMA DayBefore ==
  ASSUME NEW t \in Int, NEW p \in Nat, p <= Day
  PROVE  /\ DateOf(t) \in Int /\ DateOf(t - p) \in Int
         /\ DateOf(t) - 1 <= DateOf(t - p)
         /\ DateOf(t - p) <= DateOf(t)
<1> DEFINE a == t \div Day
           b == (t - p) \div Day
<1>1. Day \in Nat \ {0}
  BY ScheduleAssumption
<1>2. a \in Int /\ Day * a <= t /\ t < Day * a + Day
  BY <1>1, Division
<1>3. b \in Int /\ Day * b <= t - p /\ t - p < Day * b + Day
  BY <1>1, Division
<1> HIDE DEF a, b
<1>4. Day * (a - 1) = Day * a - Day /\ Day * (b + 1) = Day * b + Day
      /\ Day * (a + 1) = Day * a + Day
      /\ Day * a \in Int /\ Day * b \in Int
  BY <1>1, <1>2, <1>3
<1>5. a - 1 < b + 1
  <2>1. Day * (a - 1) < Day * (b + 1)
    BY <1>1, <1>2, <1>3, <1>4
  <2> QED
    BY <2>1, <1>1, <1>2, <1>3, Cancelled
<1>6. b < a + 1
  <2>1. Day * b < Day * (a + 1)
    BY <1>1, <1>2, <1>3, <1>4
  <2> QED
    BY <2>1, <1>1, <1>2, <1>3, Cancelled
<1> QED
  BY <1>2, <1>3, <1>5, <1>6 DEF DateOf, a, b


\* What Plan promises always, of every request it accepts.
LEMMA PlanPromise ==
  ASSUME NEW s, NEW r, Accepts(s, r),
         s.buffer \in Nat, r.now \in Int, r.pickup \in Int, r.production \in Nat,
         r.balanceHours \in Nat, r.validFor \in Nat, r.validFor >= MinWindow,
         \A d \in DOMAIN r.cutoffs : r.cutoffs[d] \in Int
  PROVE  /\ Cutoff(s, r) \in Int /\ DPDeadline(s, r) \in Int
         /\ BalanceDue(r) \in Int /\ Start(r) \in Int
         /\ r.now < DPDeadline(s, r) /\ DPDeadline(s, r) <= Cutoff(s, r)
         /\ Cutoff(s, r) <= Start(r) /\ Start(r) <= r.pickup
         /\ BalanceDue(r) <= Start(r)
         /\ \A d \in DOMAIN r.cutoffs : d = DateOf(Start(r)) => Cutoff(s, r) <= r.cutoffs[d]
<1>1. Hour \in Nat /\ MinWindow \in Nat \ {0}
  BY ScheduleAssumption
<1>2. s.buffer * Hour \in Nat /\ r.balanceHours * Hour \in Nat
  BY <1>1, NatProduct
<1>3. Start(r) \in Int /\ Start(r) <= r.pickup
  BY DEF Start
<1>4. BalanceDue(r) \in Int /\ BalanceDue(r) <= Start(r)
  BY <1>2, <1>3 DEF BalanceDue
<1> DEFINE own == Start(r) - s.buffer * Hour
<1>5. own \in Int /\ own <= Start(r)
  BY <1>2, <1>3
<1>6. Cutoff(s, r) = IF DateOf(Start(r)) \in DOMAIN r.cutoffs
                     THEN Smaller(r.cutoffs[DateOf(Start(r))], own) ELSE own
  BY DEF Cutoff
<1> HIDE DEF own
<1>7. /\ Cutoff(s, r) \in Int /\ Cutoff(s, r) <= Start(r)
      /\ \A d \in DOMAIN r.cutoffs : d = DateOf(Start(r)) => Cutoff(s, r) <= r.cutoffs[d]
  <2>1. CASE DateOf(Start(r)) \in DOMAIN r.cutoffs
    BY <2>1, <1>3, <1>5, <1>6
  <2>2. CASE DateOf(Start(r)) \notin DOMAIN r.cutoffs
    BY <2>2, <1>3, <1>5, <1>6
  <2> QED
    BY <2>1, <2>2
<1>8. Cutoff(s, r) - r.now >= MinWindow
  BY DEF Accepts, Payable
<1>9. /\ DPDeadline(s, r) \in Int
      /\ r.now < DPDeadline(s, r) /\ DPDeadline(s, r) <= Cutoff(s, r)
  BY <1>1, <1>7, <1>8 DEF DPDeadline
<1> QED
  BY <1>3, <1>4, <1>7, <1>9

-----------------------------------------------------------------------------
\* Quotes.

\* What is asked, and the answer to it.
IInv ==
  /\ ask \in Asks /\ calendar \in Calendars /\ settings \in Settings /\ policy \in Policies
  /\ quote \in {Blank, Quote(ask, calendar, settings, policy)}

\* A quote answers what was asked, of the shop as it was then.
THEOREM Answered == Spec => []IInv
<1>1. Init => IInv
  BY DEF Init, IInv
<1>2. IInv /\ [Next]_vars => IInv'
  BY DEF IInv, Next, Ask, vars
<1> QED
  BY <1>1, <1>2, PTL DEF Spec

\* The numbers a quote works with, and what an accepted one is made of.
LEMMA AcceptedQuote ==
  ASSUME IInv, quote.result = "accepted"
  PROVE  LET r == RequestOf(ask, Loaded(ask, calendar), policy)
         IN  /\ Accepts(settings, r)
             /\ quote = Accepted(ask, policy, Plan(settings, r))
             /\ settings.buffer \in Nat /\ r.now \in Int /\ r.pickup \in Int
             /\ r.production \in Nat /\ r.production <= Day
             /\ r.balanceHours \in Nat /\ r.validFor \in Nat /\ r.validFor >= MinWindow
             /\ \A d \in DOMAIN r.cutoffs : r.cutoffs[d] \in Int
<1> DEFINE r == RequestOf(ask, Loaded(ask, calendar), policy)
<1>1. quote = Quote(ask, calendar, settings, policy)
  BY DEF IInv, Blank
<1>2. Accepts(settings, r) /\ quote = Accepted(ask, policy, Plan(settings, r))
  <2>1. CASE ask.total < policy.minOrder
    BY <2>1, <1>1 DEF Quote
  <2>2. CASE ~ (ask.total < policy.minOrder) /\ ~Accepts(settings, r)
    <3>1. quote = [result |-> "refused", suggestion |-> Suggest(settings, r)]
      BY <2>2, <1>1 DEF Quote
    <3> QED
      BY <3>1
  <2>3. CASE ~ (ask.total < policy.minOrder) /\ Accepts(settings, r)
    BY <2>3, <1>1 DEF Quote
  <2> QED
    BY <2>1, <2>2, <2>3
<1>3. /\ r.now = ask.now /\ r.pickup = ask.pickup /\ r.production = ask.production
      /\ r.balanceHours = policy.balanceHours /\ r.validFor = policy.validFor
      /\ r.cutoffs = [d \in DOMAIN calendar.cutoffs \cap Window(ask) |-> calendar.cutoffs[d]]
  BY DEF RequestOf, Loaded
<1> HIDE DEF r
<1>4. /\ ask.now \in Int /\ ask.pickup \in Int /\ ask.production \in 1 .. Day
      /\ settings.buffer \in Nat
      /\ policy.balanceHours \in Nat /\ policy.validFor \in Nat /\ policy.validFor >= MinWindow
      /\ \A d \in DOMAIN calendar.cutoffs : calendar.cutoffs[d] \in Int
  BY QuotesAssumption DEF IInv
<1>5. Day \in Nat
  BY ScheduleAssumption
<1>6. \A d \in DOMAIN r.cutoffs : r.cutoffs[d] \in Int
  BY <1>3, <1>4
<1>7. /\ Accepts(settings, r)
      /\ quote = Accepted(ask, policy, Plan(settings, r))
      /\ settings.buffer \in Nat /\ r.now \in Int /\ r.pickup \in Int
      /\ r.production \in Nat /\ r.production <= Day
      /\ r.balanceHours \in Nat /\ r.validFor \in Nat /\ r.validFor >= MinWindow
  BY <1>2, <1>3, <1>4, <1>5
<1> QED
  BY <1>6, <1>7 DEF r

\* The day an order is baked is among the days its quote read.
LEMMA BakingDayRead ==
  ASSUME IInv, quote.result = "accepted"
  PROVE  DateOf(ask.pickup - ask.production) \in Window(ask) /\ DateOf(ask.pickup) \in Window(ask)
<1>1. /\ ask.pickup \in Int /\ ask.production \in Nat /\ ask.production <= Day
      /\ Day \in Nat /\ SuggestDays \in Nat
  BY QuotesAssumption, ScheduleAssumption DEF IInv
<1> QED
  BY <1>1, DayBefore DEF Window

\* Every accepted quote: the first payment is due after now and before the
\* kitchen shops, that before it bakes, and baking before the pickup, whatever
\* batches the day has already (Plan).
THEOREM PlansAlwaysOrdered == Spec => []PlanOrdered
<1>1. IInv => PlanOrdered
  <2> SUFFICES ASSUME IInv, quote.result = "accepted" PROVE PlanOrdered
    BY DEF PlanOrdered
  <2> DEFINE r == RequestOf(ask, Loaded(ask, calendar), policy)
  <2>1. /\ Accepts(settings, r)
        /\ quote = Accepted(ask, policy, Plan(settings, r))
        /\ settings.buffer \in Nat /\ r.now \in Int /\ r.pickup \in Int
        /\ r.production \in Nat /\ r.production <= Day
        /\ r.balanceHours \in Nat /\ r.validFor \in Nat /\ r.validFor >= MinWindow
        /\ \A d \in DOMAIN r.cutoffs : r.cutoffs[d] \in Int
    BY AcceptedQuote
  <2>2. /\ r.now = ask.now /\ r.pickup = ask.pickup
        /\ Start(r) = ask.pickup - ask.production
        /\ r.cutoffs = [d \in DOMAIN calendar.cutoffs \cap Window(ask) |-> calendar.cutoffs[d]]
    BY DEF RequestOf, Loaded, Start
  <2> HIDE DEF r
  <2>3. /\ r.now < DPDeadline(settings, r) /\ DPDeadline(settings, r) <= Cutoff(settings, r)
        /\ Cutoff(settings, r) <= Start(r) /\ Start(r) <= r.pickup
        /\ BalanceDue(r) <= Start(r)
        /\ \A d \in DOMAIN r.cutoffs : d = DateOf(Start(r)) => Cutoff(settings, r) <= r.cutoffs[d]
    BY <2>1, PlanPromise
  <2>4. quote.plan = Plan(settings, r)
    BY <2>1 DEF Accepted
  <2>5. /\ quote.plan.pickup = r.pickup /\ quote.plan.start = Start(r)
        /\ quote.plan.date = DateOf(Start(r)) /\ quote.plan.cutoff = Cutoff(settings, r)
        /\ quote.plan.dpDue = DPDeadline(settings, r) /\ quote.plan.balanceDue = BalanceDue(r)
    BY <2>4 DEF Plan
  <2>6. \A d \in DOMAIN calendar.cutoffs :
          d = quote.plan.date => quote.plan.cutoff <= calendar.cutoffs[d]
    <3>1. SUFFICES ASSUME NEW d \in DOMAIN calendar.cutoffs, d = quote.plan.date
                   PROVE  quote.plan.cutoff <= calendar.cutoffs[d]
      OBVIOUS
    <3>2. d \in Window(ask)
      BY <3>1, <2>2, <2>5, BakingDayRead
    <3>3. d \in DOMAIN r.cutoffs /\ r.cutoffs[d] = calendar.cutoffs[d]
      BY <3>1, <3>2, <2>2
    <3> QED
      BY <3>1, <3>3, <2>3, <2>5
  <2> QED
    BY <2>2, <2>3, <2>5, <2>6 DEF PlanOrdered
<1> QED
  BY <1>1, Answered, PTL

\* Every accepted quote is for a day the shop is open, and baked on one, also
\* when it is baked the day before: the days read are enough (Quote).
THEOREM ClosedDaysAlwaysFree == Spec => []ClosedDaysFree
<1>1. IInv => ClosedDaysFree
  <2> SUFFICES ASSUME IInv, quote.result = "accepted" PROVE ClosedDaysFree
    BY DEF ClosedDaysFree
  <2> DEFINE r == RequestOf(ask, Loaded(ask, calendar), policy)
  <2>1. Accepts(settings, r) /\ quote = Accepted(ask, policy, Plan(settings, r))
    BY AcceptedQuote
  <2>2. /\ r.pickup = ask.pickup /\ Start(r) = ask.pickup - ask.production
        /\ r.closed = calendar.closed \cap Window(ask)
    BY DEF RequestOf, Loaded, Start
  <2> HIDE DEF r
  <2>3. DateOf(r.pickup) \notin r.closed /\ DateOf(Start(r)) \notin r.closed
    BY <2>1 DEF Accepts, OpenDays
  <2>4. quote.plan.pickup = r.pickup /\ quote.plan.date = DateOf(Start(r))
    BY <2>1 DEF Accepted, Plan
  <2> QED
    BY <2>2, <2>3, <2>4, BakingDayRead DEF ClosedDaysFree
<1> QED
  BY <1>1, Answered, PTL

\* The DP of an accepted quote.
LEMMA QuotedDP ==
  ASSUME IInv, quote.result = "accepted"
  PROVE  /\ quote.dp \in 1 .. ask.total
         /\ quote.dp * 100 >= ask.total * policy.percent
         /\ policy.coversCost => quote.dp >= Smaller(ask.ingredients, ask.total)
<1> DEFINE plan == Plan(settings, RequestOf(ask, Loaded(ask, calendar), policy))
<1>1. quote = Accepted(ask, policy, plan)
  BY AcceptedQuote
<1> HIDE DEF plan
<1>2. quote.dp = IF PaysInFull(policy, ask, plan) THEN ask.total
                 ELSE DPRequired(policy, ask.total, ask.ingredients)
  BY <1>1 DEF Accepted
<1>3. /\ ask.total \in Nat \ {0} /\ ask.ingredients \in Nat
      /\ policy.percent \in 1 .. 100 /\ policy.coversCost \in BOOLEAN
  BY QuotesAssumption DEF IInv
<1>4. CASE PaysInFull(policy, ask, plan)
  <2>1. ask.total * policy.percent <= ask.total * 100
    BY <1>3, Monotone
  <2> QED
    BY <2>1, <1>2, <1>3, <1>4
<1>5. CASE ~PaysInFull(policy, ask, plan)
  <2> DEFINE dp == DPRequired(policy, ask.total, ask.ingredients)
  <2>1. /\ dp \in 1 .. ask.total
        /\ dp * 100 >= ask.total * policy.percent
        /\ policy.coversCost => dp >= Smaller(ask.ingredients, ask.total)
    BY <1>3, DPInBounds
  <2>2. quote.dp = dp
    BY <1>2, <1>5
  <2> HIDE DEF dp
  <2> QED
    BY <2>1, <2>2
<1> QED
  BY <1>4, <1>5

\* The terms of every accepted quote hang together: the DP is a part of the
\* total, as large as the policy asks, and falls due before the balance, or
\* all is paid at once (DPRequired, Quote).
THEOREM TermsAlwaysHold == Spec => []TermsHold
<1>1. IInv => TermsHold
  <2> SUFFICES ASSUME IInv, quote.result = "accepted" PROVE TermsHold
    BY DEF TermsHold
  <2> DEFINE r == RequestOf(ask, Loaded(ask, calendar), policy)
             full == PaysInFull(policy, ask, Plan(settings, r))
  <2>1. /\ Accepts(settings, r)
        /\ quote = Accepted(ask, policy, Plan(settings, r))
        /\ settings.buffer \in Nat /\ r.now \in Int /\ r.pickup \in Int
        /\ r.production \in Nat /\ r.production <= Day
        /\ r.balanceHours \in Nat /\ r.validFor \in Nat /\ r.validFor >= MinWindow
        /\ \A d \in DOMAIN r.cutoffs : r.cutoffs[d] \in Int
    BY AcceptedQuote
  <2> HIDE DEF r
  <2>2. BalanceDue(r) \in Int /\ DPDeadline(settings, r) \in Int
    BY <2>1, PlanPromise
  <2>3. /\ quote.mustPayInFull = full
        /\ quote.mustPayInFull => quote.dp = ask.total
        /\ quote.plan = Plan(settings, r)
    BY <2>1 DEF Accepted
  <2>4. /\ quote.plan.dpDue = DPDeadline(settings, r)
        /\ quote.plan.balanceDue = BalanceDue(r)
        /\ quote.plan.mustPayInFull = (BalanceDue(r) <= DPDeadline(settings, r))
    BY <2>3 DEF Plan
  <2>5. full = (ask.total < policy.dpMinTotal \/ quote.plan.mustPayInFull)
    BY <2>3 DEF PaysInFull
  <2> HIDE DEF full
  <2>6. ask.total \in Nat /\ policy.dpMinTotal \in Nat
    BY QuotesAssumption DEF IInv
  <2>7. ASSUME ~quote.mustPayInFull
        PROVE  quote.plan.dpDue < quote.plan.balanceDue /\ ask.total >= policy.dpMinTotal
    <3>1. ~ (ask.total < policy.dpMinTotal) /\ ~ (BalanceDue(r) <= DPDeadline(settings, r))
      BY <2>3, <2>4, <2>5, <2>7
    <3> QED
      BY <3>1, <2>2, <2>4, <2>6
  <2> QED
    BY <2>3, <2>7, QuotedDP DEF TermsHold
<1> QED
  BY <1>1, Answered, PTL

\* The fees of every accepted quote leave the shop the whole amount and are
\* the least that do, for the DP and for the total, by any rule (Fee).
THEOREM FeesAlwaysLeast == Spec => []FeeIsLeast
<1>1. IInv => FeeIsLeast
  <2> SUFFICES ASSUME IInv, quote.result = "accepted", NEW o \in quote.options
               PROVE  IF o.rule.method = "qris" THEN o.fullFee = 0 /\ o.dpFee = 0
                      ELSE /\ o.fullFee >= 0
                           /\ Kept(o.rule, ask.total + o.fullFee) >= ask.total
                           /\ \A f \in 0 .. o.fullFee - 1 : Kept(o.rule, ask.total + f) < ask.total
                           /\ ~quote.mustPayInFull =>
                                /\ Kept(o.rule, quote.dp + o.dpFee) >= quote.dp
                                /\ \A f \in 0 .. o.dpFee - 1 : Kept(o.rule, quote.dp + f) < quote.dp
    BY DEF FeeIsLeast
  <2> DEFINE plan == Plan(settings, RequestOf(ask, Loaded(ask, calendar), policy))
  <2>1. quote = Accepted(ask, policy, plan)
    BY AcceptedQuote
  <2> HIDE DEF plan
  <2>2. quote.options = PaymentOptions(ask.total, quote.dp, quote.mustPayInFull)
    BY <2>1 DEF Accepted
  <2>3. PICK rule \in Rules :
          o = [rule |-> rule, fullFee |-> Fee(rule, ask.total),
               dpFee |-> IF quote.mustPayInFull THEN 0 ELSE Fee(rule, quote.dp)]
    BY <2>2 DEF PaymentOptions
  <2>4. /\ o.rule = rule /\ o.fullFee = Fee(rule, ask.total)
        /\ o.dpFee = IF quote.mustPayInFull THEN 0 ELSE Fee(rule, quote.dp)
    BY <2>3
  <2>5. FeeRuleOK(rule)
    BY QuotesAssumption
  <2>6. ask.total \in Nat /\ quote.dp \in Nat
    BY QuotesAssumption, QuotedDP DEF IInv
  <2>7. CASE rule.method = "qris"
    BY <2>4, <2>7 DEF Fee
  <2>8. CASE rule.method # "qris"
    <3>1. /\ Fee(rule, ask.total) \in Nat
          /\ Kept(rule, ask.total + Fee(rule, ask.total)) >= ask.total
          /\ \A f \in 0 .. Fee(rule, ask.total) - 1 : Kept(rule, ask.total + f) < ask.total
      BY <2>5, <2>6, <2>8, LeastFee
    <3>2. /\ Kept(rule, quote.dp + Fee(rule, quote.dp)) >= quote.dp
          /\ \A f \in 0 .. Fee(rule, quote.dp) - 1 : Kept(rule, quote.dp + f) < quote.dp
      BY <2>5, <2>6, <2>8, LeastFee
    <3> QED
      BY <2>4, <2>8, <3>1, <3>2
  <2> QED
    BY <2>7, <2>8
<1> QED
  BY <1>1, Answered, PTL

-----------------------------------------------------------------------------
\* Suggestions.

\* A time is its day and its time of that day.
LEMMA SplitTime ==
  ASSUME NEW t \in Int
  PROVE  /\ DateOf(t) \in Int /\ TimeOfDay(t) \in 0 .. Day - 1
         /\ DateOf(t) * Day \in Int /\ t = DateOf(t) * Day + TimeOfDay(t)
<1>1. Day \in Nat \ {0}
  BY ScheduleAssumption
<1> DEFINE n == t \div Day
           w == t % Day
<1>2. n \in Int /\ w \in 0 .. Day - 1 /\ t = Day * n + w
  BY <1>1
<1> HIDE DEF n, w
<1>3. n * Day = Day * n /\ n * Day \in Int
  BY <1>1, <1>2
<1> QED
  BY <1>2, <1>3 DEF DateOf, TimeOfDay, n, w

\* A later day is a later time, and n days are n lengths of one.
LEMMA LaterDay ==
  ASSUME NEW m \in Int, NEW n \in Int, m < n
  PROVE  m * Day \in Int /\ n * Day \in Int /\ m * Day + Day <= n * Day
<1>1. Day \in Nat \ {0}
  BY ScheduleAssumption
<1>2. Day * (m + 1) <= Day * n
  BY <1>1, Monotone
<1>3. Day * (m + 1) = m * Day + Day /\ Day * n = n * Day /\ m * Day \in Int /\ n * Day \in Int
  BY <1>1
<1> QED
  BY <1>2, <1>3

LEMMA LaterTime ==
  ASSUME NEW t \in Int, NEW u \in Int, DateOf(t) < DateOf(u)
  PROVE  t < u
<1> DEFINE m == DateOf(t)
           n == DateOf(u)
<1>1. /\ m \in Int /\ n \in Int /\ m < n
      /\ TimeOfDay(t) \in 0 .. Day - 1 /\ TimeOfDay(u) \in 0 .. Day - 1
      /\ t = m * Day + TimeOfDay(t) /\ u = n * Day + TimeOfDay(u)
  BY SplitTime
<1> HIDE DEF m, n
<1>2. m * Day \in Int /\ n * Day \in Int /\ m * Day + Day <= n * Day
  BY <1>1, LaterDay
<1>3. Day \in Nat
  BY ScheduleAssumption
<1> QED
  BY <1>1, <1>2, <1>3

\* The times of some days are those from the first's midnight to the last's.
LEMMA TimesOfDays ==
  ASSUME NEW t \in Int, NEW m \in Int, NEW n \in Int
  PROVE  t \in m * Day .. (n + 1) * Day - 1 <=> DateOf(t) \in m .. n
<1> DEFINE d == DateOf(t)
           x == m * Day
           y == (n + 1) * Day
           z == d * Day
<1>1. d \in Int /\ z \in Int /\ t - z \in 0 .. Day - 1 /\ Day \in Nat
  BY SplitTime, ScheduleAssumption
<1>2. x \in Int /\ y \in Int
  BY <1>1
<1>3. /\ d < m => z + Day <= x
      /\ m < d => x + Day <= z
      /\ d < n + 1 => z + Day <= y
      /\ n + 1 < d => y + Day <= z
      /\ m = d => x = z
      /\ n + 1 = d => y = z
  BY <1>1, LaterDay
<1> HIDE DEF d, x, y, z
<1>4. t \in x .. y - 1 <=> d \in m .. n
  BY <1>1, <1>2, <1>3
<1> QED
  BY <1>4 DEF d, x, y

\* What was asked, of the whole calendar, and of what the quote reads of it.
WholeAsk == RequestOf(ask, calendar, policy)
PartAsk == RequestOf(ask, Loaded(ask, calendar), policy)

\* A time is worked out the same from both.
LEMMA SameTimes ==
  ASSUME IInv
  PROVE  /\ FirstTime(PartAsk) = FirstTime(WholeAsk) /\ FirstTime(WholeAsk) \in Int
         /\ FirstTime(WholeAsk) = RoundUp(Earliest(WholeAsk))
         /\ FirstDay(PartAsk) = FirstDay(WholeAsk) /\ FirstDay(WholeAsk) \in Int
         /\ DateOf(ask.pickup) \in Int /\ DateOf(ask.pickup) <= FirstDay(WholeAsk)
         /\ WishedTime(settings, PartAsk) = WishedTime(settings, WholeAsk) /\ WishedTime(settings, WholeAsk) \in Int
         /\ \A k \in Int : /\ Candidate(settings, PartAsk, k) = Candidate(settings, WholeAsk, k)
                           /\ Candidate(settings, WholeAsk, k) \in Int
<1>1. /\ ask.now \in Int /\ ask.pickup \in Int /\ ask.notice \in Nat
      /\ settings.opens \in Nat /\ settings.closes \in Nat
  BY QuotesAssumption DEF IInv
<1>2. Day \in Nat \ {0} /\ Hour \in Nat /\ SuggestStep \in Nat \ {0}
  BY ScheduleAssumption
<1>3. /\ PartAsk.now = ask.now /\ PartAsk.pickup = ask.pickup /\ PartAsk.notice = ask.notice
      /\ WholeAsk.now = ask.now /\ WholeAsk.pickup = ask.pickup /\ WholeAsk.notice = ask.notice
  BY DEF PartAsk, WholeAsk, RequestOf
<1>4. Earliest(WholeAsk) \in Int /\ Earliest(PartAsk) = Earliest(WholeAsk)
  <2>1. ask.notice * Hour \in Nat
    BY <1>1, <1>2, NatProduct
  <2> QED
    BY <1>1, <1>3, <2>1 DEF Earliest
<1>5. FirstTime(PartAsk) = FirstTime(WholeAsk) /\ FirstTime(WholeAsk) = RoundUp(Earliest(WholeAsk))
  BY <1>4 DEF FirstTime
<1>6. FirstTime(WholeAsk) \in Int
  <2> DEFINE e == Earliest(WholeAsk)
             a == e + SuggestStep - 1
             q == a \div SuggestStep
  <2>1. a \in Int
    BY <1>2, <1>4
  <2>2. q \in Int
    <3> HIDE DEF a
    <3> QED
      BY <1>2, <2>1
  <2>3. FirstTime(WholeAsk) = q * SuggestStep
    BY DEF FirstTime, RoundUp, CeilDiv
  <2> HIDE DEF q
  <2> QED
    BY <1>2, <2>2, <2>3
<1>7. /\ FirstDay(PartAsk) = FirstDay(WholeAsk) /\ FirstDay(WholeAsk) \in Int
      /\ DateOf(ask.pickup) \in Int /\ DateOf(ask.pickup) <= FirstDay(WholeAsk)
  <2>1. DateOf(ask.pickup) \in Int /\ DateOf(FirstTime(WholeAsk)) \in Int
    BY <1>1, <1>6, SplitTime
  <2> QED
    BY <1>3, <1>5, <2>1 DEF FirstDay
<1>8. WishedTime(settings, PartAsk) = WishedTime(settings, WholeAsk) /\ WishedTime(settings, WholeAsk) \in Int
  <2>1. TimeOfDay(ask.pickup) \in 0 .. Day - 1
    BY <1>1, SplitTime
  <2>2. TimeOfDay(ask.pickup) \in Int
    BY <1>2, <2>1
  <2> QED
    BY <1>1, <1>3, <2>2 DEF WishedTime
<1>9. ASSUME NEW k \in Int
      PROVE  /\ Candidate(settings, PartAsk, k) = Candidate(settings, WholeAsk, k)
             /\ Candidate(settings, WholeAsk, k) \in Int
  <2> DEFINE d == FirstDay(WholeAsk) + k
             x == d * Day
  <2>1. d \in Int
    BY <1>7
  <2>2. x \in Int
    <3> HIDE DEF d
    <3> QED
      BY <1>2, <2>1
  <2>3. /\ Candidate(settings, WholeAsk, k) = Larger(x + WishedTime(settings, WholeAsk), FirstTime(WholeAsk))
        /\ Candidate(settings, PartAsk, k) = Larger(x + WishedTime(settings, WholeAsk), FirstTime(WholeAsk))
    BY <1>5, <1>7, <1>8 DEF Candidate
  <2> HIDE DEF x
  <2> QED
    BY <1>6, <1>8, <2>2, <2>3
<1> QED
  BY <1>5, <1>6, <1>7, <1>8, <1>9

\* On the days the quote reads, the shop answers as with its whole calendar.
LEMMA SameAnswer ==
  ASSUME IInv, NEW t \in Int, DateOf(t) \in Window(ask), DateOf(ask.pickup) <= DateOf(t)
  PROVE  Accepts(settings, [PartAsk EXCEPT !.pickup = t]) <=> Works(t)
<1> DEFINE x == [PartAsk EXCEPT !.pickup = t]
           y == [WholeAsk EXCEPT !.pickup = t]
           d == DateOf(t - ask.production)
<1>1. /\ x.pickup = t /\ x.production = ask.production /\ x.now = ask.now /\ x.notice = ask.notice
      /\ y.pickup = t /\ y.production = ask.production /\ y.now = ask.now /\ y.notice = ask.notice
      /\ y.closed = calendar.closed /\ x.closed = calendar.closed \cap Window(ask)
      /\ y.cutoffs = calendar.cutoffs
      /\ x.cutoffs = [e \in DOMAIN calendar.cutoffs \cap Window(ask) |-> calendar.cutoffs[e]]
  BY DEF PartAsk, WholeAsk, RequestOf, Loaded
<1>2. Works(t) = Accepts(settings, y)
  BY DEF Works, WholeAsk
<1> HIDE DEF x, y
<1>3. d \in Window(ask)
  <2>1. /\ ask.pickup \in Int /\ ask.production \in Nat /\ ask.production <= Day
        /\ Day \in Nat /\ SuggestDays \in Nat
    BY QuotesAssumption, ScheduleAssumption DEF IInv
  <2>2. /\ d \in Int /\ DateOf(t) \in Int /\ DateOf(t) - 1 <= d /\ d <= DateOf(t)
        /\ DateOf(ask.pickup) \in Int
    BY <2>1, DayBefore, SplitTime
  <2> QED
    BY <2>1, <2>2 DEF Window
<1>4. Start(x) = t - ask.production /\ Start(y) = t - ask.production
  BY <1>1 DEF Start
<1>5. OpenDays(x) <=> OpenDays(y)
  BY <1>1, <1>3, <1>4 DEF OpenDays
<1>6. Cutoff(settings, x) = Cutoff(settings, y)
  BY <1>1, <1>3, <1>4 DEF Cutoff
<1>7. Payable(settings, x) <=> Payable(settings, y)
  BY <1>1, <1>6 DEF Payable
<1>8. Earliest(x) = Earliest(y)
  BY <1>1 DEF Earliest
<1>9. Accepts(settings, x) <=> Accepts(settings, y)
  BY <1>1, <1>5, <1>7, <1>8 DEF Accepts
<1> QED
  BY <1>2, <1>9 DEF x

\* A day has one pickup as it was wished: the candidate.
LEMMA OneCandidate ==
  ASSUME IInv, NEW k \in Nat, NEW t \in Int, DateOf(t) = FirstDay(WholeAsk) + k
  PROVE  AsWished(t) <=> t = Candidate(settings, WholeAsk, k)
<1> DEFINE x == (FirstDay(WholeAsk) + k) * Day
           w == WishedTime(settings, WholeAsk)
           f == FirstTime(WholeAsk)
           o == TimeOfDay(t)
           c == Candidate(settings, WholeAsk, k)
<1>1. /\ x \in Int /\ o \in Int /\ t = x + o
  BY SplitTime, ScheduleAssumption
<1>2. /\ w \in Int /\ f \in Int /\ f = RoundUp(Earliest(WholeAsk))
      /\ FirstDay(WholeAsk) \in Int /\ DateOf(ask.pickup) \in Int
      /\ DateOf(ask.pickup) <= FirstDay(WholeAsk)
  BY SameTimes
<1>3. c = Larger(x + w, f)
  BY DEF Candidate
<1>4. AsWished(t) <=> t >= f /\ (o = w \/ (t = f /\ o > w))
  BY <1>2 DEF AsWished, WholeAsk
<1> HIDE DEF x, w, f, o, c
<1>5. AsWished(t) <=> t = c
  BY <1>1, <1>2, <1>3, <1>4
<1> QED
  BY <1>5 DEF c

\* The days that fit are those that have such a pickup, and it works.
LEMMA FittingIs ==
  ASSUME IInv, FirstDay(WholeAsk) .. FirstDay(WholeAsk) + SuggestDays \subseteq Window(ask),
         NEW k \in 0 .. SuggestDays, NEW t, t = Candidate(settings, WholeAsk, k)
  PROVE  /\ k \in Fitting(settings, PartAsk) => DateOf(t) = FirstDay(WholeAsk) + k /\ Works(t)
         /\ DateOf(t) = FirstDay(WholeAsk) + k /\ Works(t) => k \in Fitting(settings, PartAsk)
<1>1. /\ t = Candidate(settings, PartAsk, k) /\ t \in Int
      /\ FirstDay(PartAsk) = FirstDay(WholeAsk) /\ FirstDay(WholeAsk) \in Int
      /\ DateOf(ask.pickup) \in Int /\ DateOf(ask.pickup) <= FirstDay(WholeAsk) /\ SuggestDays \in Nat
  BY SameTimes, ScheduleAssumption
<1>2. k \in Fitting(settings, PartAsk) <=>
        /\ TimeOfDay(t) <= settings.closes /\ DateOf(t) = FirstDay(WholeAsk) + k
        /\ Accepts(settings, [PartAsk EXCEPT !.pickup = t])
  BY <1>1 DEF Fitting, Tried
<1>3. DateOf(t) = FirstDay(WholeAsk) + k =>
        (Accepts(settings, [PartAsk EXCEPT !.pickup = t]) <=> Works(t))
  BY <1>1, SameAnswer
<1>4. Works(t) => TimeOfDay(t) <= settings.closes
  <2>1. settings.opens \in Nat /\ settings.closes \in Nat /\ TimeOfDay(t) \in Int
    BY <1>1, QuotesAssumption, SplitTime, ScheduleAssumption DEF IInv
  <2>2. Works(t) => TimeOfDay(t) \in settings.opens .. settings.closes
    BY DEF Works, Accepts, RequestOf
  <2> QED
    BY <2>1, <2>2
<1> QED
  BY <1>2, <1>3, <1>4

\* A refused customer is offered the nearest pickup as it was wished that the
\* shop would take, and none only if there is none, whatever the calendar: as
\* long as the days tried are the days the quote reads (Suggest).
THEOREM SuggestionsNearest == Spec => []SuggestionNearest
<1>1. IInv => SuggestionNearest
  <2> DEFINE first == FirstDay(WholeAsk)
             days == first .. first + SuggestDays
             nearest == {t \in first * Day .. (first + SuggestDays + 1) * Day - 1 : AsWished(t) /\ Works(t)}
             fit == Fitting(settings, PartAsk)
             At(k) == Candidate(settings, WholeAsk, k)
  <2> SUFFICES ASSUME IInv, quote.result = "refused", days \subseteq Window(ask)
               PROVE  IF nearest = {} THEN quote.suggestion = NoPickup
                      ELSE quote.suggestion \in nearest /\ \A t \in nearest : quote.suggestion <= t
    BY DEF SuggestionNearest, WholeAsk
  <2>1. quote.suggestion = Suggest(settings, PartAsk)
    <3>1. quote = Quote(ask, calendar, settings, policy)
      BY DEF IInv, Blank
    <3>2. CASE ask.total < policy.minOrder
      BY <3>1, <3>2 DEF Quote
    <3>3. CASE ~(ask.total < policy.minOrder) /\ ~Accepts(settings, PartAsk)
      BY <3>1, <3>3 DEF Quote, PartAsk
    <3>4. CASE ~(ask.total < policy.minOrder) /\ Accepts(settings, PartAsk)
      BY <3>1, <3>4 DEF Quote, PartAsk, Accepted
    <3> QED
      BY <3>2, <3>3, <3>4
  <2>2. /\ first \in Int /\ SuggestDays \in Nat /\ fit \subseteq 0 .. SuggestDays
        /\ \A k \in Int : At(k) \in Int /\ Candidate(settings, PartAsk, k) = At(k)
    BY SameTimes, ScheduleAssumption DEF Fitting, Tried
  <2>3. ASSUME NEW t \in Int
        PROVE  t \in nearest <=> DateOf(t) \in days /\ AsWished(t) /\ Works(t)
    <3>1. first + SuggestDays \in Int
      BY <2>2
    <3>2. t \in first * Day .. (first + SuggestDays + 1) * Day - 1 <=> DateOf(t) \in days
      BY <2>2, <3>1, TimesOfDays
    <3> QED
      BY <3>2
  <2>4. ASSUME NEW k \in fit
        PROVE  At(k) \in nearest /\ DateOf(At(k)) = first + k
    <3>1. k \in 0 .. SuggestDays /\ At(k) \in Int
      BY <2>2
    <3>2. DateOf(At(k)) = first + k /\ Works(At(k))
      BY <3>1, FittingIs
    <3>3. AsWished(At(k))
      BY <3>1, <3>2, OneCandidate
    <3>4. DateOf(At(k)) \in days
      BY <2>2, <3>1, <3>2
    <3> QED
      BY <2>3, <3>1, <3>2, <3>3, <3>4
  <2>5. ASSUME NEW t \in nearest
        PROVE  \E k \in fit : t = At(k)
    <3>1. t \in Int
      <4>1. first * Day \in Int /\ (first + SuggestDays + 1) * Day - 1 \in Int
        BY <2>2, ScheduleAssumption
      <4> QED
        BY <4>1
    <3>2. DateOf(t) \in days /\ AsWished(t) /\ Works(t) /\ DateOf(t) \in Int
      BY <2>3, <3>1, SplitTime
    <3> DEFINE k == DateOf(t) - first
    <3>3. k \in 0 .. SuggestDays /\ DateOf(t) = first + k
      BY <2>2, <3>2
    <3> HIDE DEF k
    <3>4. t = At(k)
      BY <3>1, <3>2, <3>3, OneCandidate
    <3>5. k \in fit
      BY <3>2, <3>3, <3>4, FittingIs
    <3> QED
      BY <3>4, <3>5
  <2>6. ASSUME NEW k \in fit, NEW l \in fit, k <= l
        PROVE  At(k) <= At(l)
    <3>1. /\ k \in Int /\ l \in Int /\ At(k) \in Int /\ At(l) \in Int
          /\ DateOf(At(k)) = first + k /\ DateOf(At(l)) = first + l
      BY <2>2, <2>4
    <3>2. CASE k = l
      BY <3>1, <3>2
    <3>3. CASE k < l
      <4>1. DateOf(At(k)) < DateOf(At(l))
        BY <2>2, <3>1, <3>3
      <4> HIDE DEF At
      <4> QED
        BY <3>1, <4>1, LaterTime
    <3> QED
      BY <2>6, <3>1, <3>2, <3>3
  <2>7. CASE fit = {}
    <3>1. nearest = {}
      BY <2>5, <2>7
    <3> QED
      BY <2>1, <2>7, <3>1 DEF Suggest
  <2>8. CASE fit # {}
    <3> DEFINE least == CHOOSE k \in fit : \A l \in fit : k <= l
    <3>1. \E k \in fit : \A l \in fit : k <= l
      <4>1. fit \subseteq Nat
        BY <2>2
      <4> HIDE DEF fit
      <4> QED
        BY <2>8, <4>1, SmallestNumber
    <3>2. least \in fit /\ \A l \in fit : least <= l
      <4> HIDE DEF fit
      <4> QED
        BY <3>1
    <3>3. quote.suggestion = At(least)
      BY <2>1, <2>2, <2>8, <3>2 DEF Suggest
    <3> HIDE DEF least, fit, nearest, At
    <3>4. At(least) \in nearest
      BY <2>4, <3>2
    <3>5. ASSUME NEW t \in nearest
          PROVE  At(least) <= t
      <4>1. PICK k \in fit : t = At(k)
        BY <2>5
      <4> QED
        BY <2>6, <3>2, <4>1
    <3> QED
      BY <3>3, <3>4, <3>5
  <2> QED
    BY <2>7, <2>8
<1> QED
  BY <1>1, Answered, PTL

-----------------------------------------------------------------------------
\* What staff set.

Rows == {Unset} \cup {Row(Asked[e].value) : e \in Edit} \cup {Row(FirstPrice[v]) : v \in Sold}
Facts == {Shown(r, t) : r \in Rows, t \in Thing}
Entries == [before : Facts, after : Facts]
Locks == {"settings"} \cup Thing

SamePacks(e) == {p \in Pack : IngredientOf[p] = IngredientOf[Asked[e].pack]}

\* What an edit that asks for a thing goes through, and one for a default pack.
Setting == {[at |-> "locking"], [at |-> "reading"]} \cup [at : {"writing"}, before : Facts]
Packs(e) == [at : {"clearing"}, found : SUBSET SamePacks(e)]
            \cup [at : {"marking"}, cleared : SUBSET SamePacks(e)]

Doing == {Idle} \cup Setting \cup UNION {Packs(e) : e \in Edit}

OfThing(e) == Asked[e].kind \in {"set", "reset"} /\ Asked[e].thing \in Thing
OfPack(e) == Asked[e].kind = "default" /\ Asked[e].pack \in Pack

TypeOK ==
  /\ row \in [Thing -> Rows]
  /\ defaults \subseteq Pack
  /\ trail \in [Thing -> Seq(Entries)]
  /\ holder \in [Locks -> Edit \cup {Nobody}]
  /\ edit \in [Edit -> Doing]
  /\ \A e \in Edit : \/ edit[e] = Idle
                     \/ edit[e] \in Setting /\ OfThing(e)
                     \/ edit[e] \in Packs(e) /\ OfPack(e)

\* Whoever read what applies has the lock of it until the edit is over.
Locked == \A e \in Edit : edit[e].at \in {"reading", "writing"} => holder[LockOf(Asked[e].thing)] = e

\* What was read before a write still applies: the state before, and that
\* another method is offered.
StillRead ==
  \A e \in Edit : edit[e].at = "writing" =>
    /\ edit[e].before = Shown(row[Asked[e].thing], Asked[e].thing)
    /\ Asked[e].kind = "set" /\ Asked[e].thing \in Method /\ ~Offered(Asked[e].value)
         => \E m \in Method \ {Asked[e].thing} : Offered(Current(m))

\* An ingredient has one default at most.
OneDefault == \A p, q \in defaults : IngredientOf[p] = IngredientOf[q] => p = q

EditsInv == TypeOK /\ Locked /\ StillRead /\ OneDefault /\ MethodStays /\ TrailTells

-----------------------------------------------------------------------------
\* An entry that goes on where the trail ended keeps it whole.
LEMMA OneMoreEntry ==
  ASSUME NEW s \in Seq(Entries), NEW first, NEW last, AddsUp(s, first, last),
         NEW e \in Entries, e.before = last
  PROVE  AddsUp(Append(s, e), first, e.after)
<1> DEFINE more == Append(s, e)
<1>1. Len(s) \in Nat /\ Len(more) = Len(s) + 1 /\ more[Len(s) + 1] = e
      /\ \A n \in 1 .. Len(s) : more[n] = s[n]
      OBVIOUS
<1> HIDE DEF more
<1> SUFFICES ASSUME NEW n \in 0 .. Len(more)
             PROVE  (IF n = 0 THEN first ELSE more[n].after)
                      = (IF n = Len(more) THEN e.after ELSE more[n + 1].before)
    BY DEF AddsUp, more
<1>2. n \in 0 .. Len(s) => (IF n = 0 THEN first ELSE s[n].after)
                             = (IF n = Len(s) THEN last ELSE s[n + 1].before)
      BY DEF AddsUp
<1>3. CASE n = Len(s) + 1
      BY <1>1, <1>3
<1>4. CASE n = Len(s)
  <2>1. (IF n = 0 THEN first ELSE s[n].after) = last
        BY <1>1, <1>2, <1>4
  <2>2. n # 0 => more[n] = s[n]
        BY <1>1, <1>4
  <2>3. n # Len(more) /\ more[n + 1].before = last
        BY <1>1, <1>4
  <2> QED BY <2>1, <2>2, <2>3
<1>5. CASE n \in 0 .. Len(s) - 1
  <2>1. n # 0 => more[n] = s[n]
        BY <1>1, <1>5
  <2>2. more[n + 1] = s[n + 1] /\ n # Len(more) /\ n # Len(s) /\ n \in 0 .. Len(s)
        BY <1>1, <1>5
  <2> QED BY <1>2, <2>1, <2>2
<1> QED BY <1>1, <1>3, <1>4, <1>5

\* A lock per thing.
LEMMA LockType ==
  ASSUME NEW t \in Thing
  PROVE  LockOf(t) \in Locks /\ LockOf(t) = IF t \in Sold THEN t ELSE "settings"
BY DEF LockOf, Locks

LEMMA InvInit ==
  ASSUME EditsInit
  PROVE  EditsInv
<1>1. \A t \in Thing : FirstRow(t) \in Rows
      BY DEF FirstRow, Rows
<1>2. row \in [Thing -> Rows] /\ trail \in [Thing -> Seq(Entries)] /\ defaults \subseteq Pack
      BY <1>1 DEF EditsInit
<1>3. holder \in [Locks -> Edit \cup {Nobody}]
      BY DEF EditsInit, Locks
<1>4. edit \in [Edit -> Doing]
      BY DEF EditsInit, Doing
<1>5. \A e \in Edit : edit[e] = Idle /\ edit[e].at = "idle"
      BY DEF EditsInit, Idle
<1>6. MethodStays
  <2>1. PICK m \in Method : TRUE
        BY EditsAssumption
  <2>2. m \in Thing /\ m \notin Sold
        BY EditsAssumption DEF Thing
  <2>3. row[m] = Unset
        BY <2>2 DEF EditsInit, FirstRow
  <2>4. Current(m) = Default[m]
        BY <2>3 DEF Current, ValueOf, Unset
  <2> QED BY <2>1, <2>4, EditsAssumption DEF MethodStays
<1>7. TrailTells
  <2>1. \A t \in Thing : trail[t] = <<>> /\ row[t] = FirstRow(t)
        BY DEF EditsInit
  <2> QED BY <2>1 DEF TrailTells, AddsUp
<1>8. OneDefault
      BY DEF EditsInit, OneDefault
<1> QED BY <1>2, <1>3, <1>4, <1>5, <1>6, <1>7, <1>8 DEF EditsInv, TypeOK, Locked, StillRead

-----------------------------------------------------------------------------
\* Steps.

\* The shape of an edit in a step of it.
Shaped(e, doing) == \/ doing = Idle
                    \/ doing \in Setting /\ OfThing(e)
                    \/ doing \in Packs(e) /\ OfPack(e)

LEMMA Asking ==
  ASSUME NEW e \in Edit
  PROVE  Asked[e].kind # "default" => OfThing(e)
BY EditsAssumption DEF OfThing, Thing

\* Only what asks for a thing locks, reads and writes; only what asks for a
\* pack clears and marks.
LEMMA Stages ==
  ASSUME TypeOK, NEW e \in Edit
  PROVE  /\ edit[e].at \in {"locking", "reading", "writing"} => edit[e] \in Setting /\ OfThing(e)
         /\ edit[e].at = "writing" => edit[e].before \in Facts
         /\ edit[e].at \in {"clearing", "marking"} => edit[e] \in Packs(e) /\ OfPack(e)
         /\ edit[e].at = "clearing" => edit[e].found \subseteq SamePacks(e)
         /\ edit[e].at = "marking" => edit[e].cleared \subseteq SamePacks(e)
<1>1. Shaped(e, edit[e])
      BY DEF TypeOK, Shaped
<1>2. edit[e] = Idle => edit[e].at = "idle"
      BY DEF Idle
<1>3. edit[e] \in Setting => /\ edit[e].at \in {"locking", "reading", "writing"}
                             /\ edit[e].at = "writing" => edit[e].before \in Facts
      BY DEF Setting
<1>4. edit[e] \in Packs(e) => /\ edit[e].at \in {"clearing", "marking"}
                              /\ edit[e].at = "clearing" => edit[e].found \subseteq SamePacks(e)
                              /\ edit[e].at = "marking" => edit[e].cleared \subseteq SamePacks(e)
      BY DEF Packs
<1> QED BY <1>1, <1>2, <1>3, <1>4 DEF Shaped

\* What a step of one edit leaves to the others.
Alone(e) ==
  /\ \A f \in Edit : f # e => edit'[f] = edit[f]
  /\ \A f \in Edit, l \in Locks : f # e /\ holder[l] = f => holder'[l] = f

LEMMA OverStep ==
  ASSUME TypeOK, NEW e \in Edit, Over(e)
  PROVE  /\ edit' \in [Edit -> Doing] /\ edit'[e] = Idle
         /\ holder' \in [Locks -> Edit \cup {Nobody}] /\ Alone(e)
<1>1. edit' = [edit EXCEPT ![e] = Idle] /\ edit \in [Edit -> Doing] /\ Idle \in Doing
      BY DEF Over, TypeOK, Doing
<1>2. DOMAIN holder = Locks /\ \A l \in Locks : holder[l] \in Edit \cup {Nobody}
      BY DEF TypeOK
<1>3. holder' = [l \in Locks |-> IF holder[l] = e THEN Nobody ELSE holder[l]]
      BY <1>2 DEF Over
<1> QED BY <1>1, <1>2, <1>3 DEF Alone

LEMMA DoingStep ==
  ASSUME TypeOK, NEW e \in Edit, NEW doing, Shaped(e, doing), edit' = [edit EXCEPT ![e] = doing]
  PROVE  /\ edit' \in [Edit -> Doing] /\ edit'[e] = doing
         /\ \A f \in Edit : f # e => edit'[f] = edit[f]
<1>1. edit \in [Edit -> Doing]
      BY DEF TypeOK
<1>2. doing \in Doing
      BY DEF Shaped, Doing
<1> QED BY <1>1, <1>2

\* A step that writes nothing but perhaps the default packs.
LEMMA QuietStep ==
  ASSUME EditsInv, NEW e \in Edit, Alone(e), edit' \in [Edit -> Doing], Shaped(e, edit'[e]),
         holder' \in [Locks -> Edit \cup {Nobody}], UNCHANGED <<row, trail>>,
         edit'[e].at \in {"reading", "writing"} => holder'[LockOf(Asked[e].thing)] = e,
         edit'[e].at = "writing" =>
           /\ edit'[e].before = Shown(row[Asked[e].thing], Asked[e].thing)
           /\ Asked[e].kind = "set" /\ Asked[e].thing \in Method /\ ~Offered(Asked[e].value)
                => \E m \in Method \ {Asked[e].thing} : Offered(Current(m)),
         defaults' \subseteq Pack, OneDefault'
  PROVE  EditsInv'
<1>1. \A f \in Edit : Shaped(f, edit'[f])
  <2> TAKE f \in Edit
  <2>1. CASE f = e
        BY <2>1
  <2>2. CASE f # e
        BY <2>2 DEF Alone, EditsInv, TypeOK, Shaped
  <2> QED BY <2>1, <2>2
<1>2. TypeOK'
      BY <1>1 DEF EditsInv, TypeOK, Shaped
<1>3. Locked'
  <2> SUFFICES ASSUME NEW f \in Edit, edit'[f].at \in {"reading", "writing"}
               PROVE  holder'[LockOf(Asked[f].thing)] = f
      BY DEF Locked, LockOf
  <2>1. CASE f = e
        BY <2>1
  <2>2. CASE f # e
    <3>1. edit'[f] = edit[f] /\ holder[LockOf(Asked[f].thing)] = f
          BY <2>2 DEF Alone, EditsInv, Locked
    <3>2. LockOf(Asked[f].thing) \in Locks
          BY <3>1, Stages, LockType DEF EditsInv, OfThing
    <3> QED BY <2>2, <3>1, <3>2 DEF Alone
  <2> QED BY <2>1, <2>2
<1>4. \A m \in Method : Current(m)' = Current(m)
      BY DEF Current
<1>5. StillRead'
  <2> SUFFICES ASSUME NEW f \in Edit, edit'[f].at = "writing"
               PROVE  /\ edit'[f].before = Shown(row[Asked[f].thing], Asked[f].thing)
                      /\ Asked[f].kind = "set" /\ Asked[f].thing \in Method /\ ~Offered(Asked[f].value)
                           => \E m \in Method \ {Asked[f].thing} : Offered(Current(m))
      BY <1>4 DEF StillRead, Shown, ValueOf, Current, Offered
  <2>1. CASE f = e
        BY <2>1
  <2>2. CASE f # e
        BY <2>2 DEF Alone, EditsInv, StillRead
  <2> QED BY <2>1, <2>2
<1>6. MethodStays' /\ TrailTells'
      BY <1>4 DEF EditsInv, MethodStays, TrailTells, Offered, AddsUp, Shown, ValueOf, FirstRow
<1> QED BY <1>2, <1>3, <1>5, <1>6 DEF EditsInv

LEMMA FailStep ==
  ASSUME EditsInv, NEW e \in Edit, Over(e), UNCHANGED <<row, trail>>,
         defaults' \subseteq Pack, OneDefault'
  PROVE  EditsInv'
<1>1. Idle.at \notin {"reading", "writing"}
      BY DEF Idle
<1> QED BY <1>1, OverStep, QuietStep DEF EditsInv, Shaped

LEMMA BeginStep ==
  ASSUME EditsInv, NEW e \in Edit, Begin(e)
  PROVE  EditsInv'
<1>1. /\ UNCHANGED <<row, defaults, trail, holder>> /\ holder \in [Locks -> Edit \cup {Nobody}]
      /\ TypeOK /\ OneDefault' /\ defaults' \subseteq Pack
      BY DEF Begin, EditsInv, TypeOK, OneDefault
<1>2. ASSUME NEW doing, Shaped(e, doing), edit' = [edit EXCEPT ![e] = doing], doing.at \notin {"reading", "writing"}
      PROVE  EditsInv'
  <2>1. edit' \in [Edit -> Doing] /\ edit'[e] = doing /\ Alone(e)
        BY <1>1, <1>2, DoingStep DEF Alone
  <2> QED BY <1>1, <1>2, <2>1, QuietStep
<1>3. CASE Asked[e].kind = "default"
  <2> DEFINE doing == [at |-> "clearing", found |-> DefaultsOf(IngredientOf[Asked[e].pack])]
  <2>1. DefaultsOf(IngredientOf[Asked[e].pack]) \subseteq SamePacks(e)
        BY <1>1 DEF DefaultsOf, SamePacks, TypeOK
  <2>2. OfPack(e)
        BY <1>3, EditsAssumption DEF OfPack
  <2>3. Shaped(e, doing) /\ doing.at = "clearing"
        BY <2>1, <2>2 DEF Shaped, Packs
  <2>4. edit' = [edit EXCEPT ![e] = doing]
        BY <1>3 DEF Begin
  <2> HIDE DEF doing
  <2> QED BY <1>2, <2>3, <2>4
<1>4. CASE Asked[e].kind # "default"
  <2> DEFINE doing == [at |-> "locking"]
  <2>1. Shaped(e, doing) /\ doing.at = "locking"
        BY <1>4, Asking DEF Shaped, Setting
  <2>2. edit' = [edit EXCEPT ![e] = doing]
        BY <1>4 DEF Begin
  <2> HIDE DEF doing
  <2> QED BY <1>2, <2>1, <2>2
<1> QED BY <1>3, <1>4

LEMMA LockStep ==
  ASSUME EditsInv, NEW e \in Edit, Lock(e)
  PROVE  EditsInv'
<1> DEFINE l == LockOf(Asked[e].thing)
           doing == [at |-> "reading"]
<1>1. /\ edit[e].at = "locking" /\ holder[l] = Nobody /\ holder' = [holder EXCEPT ![l] = e]
      /\ edit' = [edit EXCEPT ![e] = doing] /\ UNCHANGED <<row, defaults, trail>>
      BY DEF Lock, LockFree
<1>2. TypeOK /\ OfThing(e) /\ OneDefault' /\ defaults' \subseteq Pack
      BY <1>1, Stages DEF EditsInv, TypeOK, OneDefault
<1>3. l \in Locks
      BY <1>2, LockType DEF OfThing
<1>4. Shaped(e, doing) /\ doing.at = "reading"
      BY <1>2 DEF Shaped, Setting
<1> HIDE DEF l, doing
<1>5. edit' \in [Edit -> Doing] /\ edit'[e] = doing /\ \A f \in Edit : f # e => edit'[f] = edit[f]
      BY <1>1, <1>2, <1>4, DoingStep
<1>6. holder \in [Locks -> Edit \cup {Nobody}] /\ Nobody \notin Edit
      BY <1>2, EditsAssumption DEF TypeOK, Nobody
<1>7. holder' \in [Locks -> Edit \cup {Nobody}] /\ holder'[l] = e
      BY <1>1, <1>3, <1>6
<1>8. \A f \in Edit, k \in Locks : f # e /\ holder[k] = f => holder'[k] = f
      BY <1>1, <1>3, <1>6
<1> QED BY <1>1, <1>2, <1>4, <1>5, <1>7, <1>8, QuietStep DEF Alone, l

LEMMA ReadStep ==
  ASSUME EditsInv, NEW e \in Edit, Read(e)
  PROVE  EditsInv'
<1> DEFINE t == Asked[e].thing
           doing == [at |-> "writing", before |-> Shown(row[t], t)]
<1>1. edit[e].at = "reading" /\ UNCHANGED <<row, defaults, trail>>
      BY DEF Read
<1>2. TypeOK /\ OfThing(e) /\ OneDefault' /\ defaults' \subseteq Pack
      BY <1>1, Stages DEF EditsInv, TypeOK, OneDefault
<1>3. CASE Unchanged(e) \/ LastMethod(e)
      BY <1>1, <1>2, <1>3, FailStep DEF Read
<1>4. CASE ~(Unchanged(e) \/ LastMethod(e))
  <2>1. edit' = [edit EXCEPT ![e] = doing] /\ UNCHANGED holder
        BY <1>4 DEF Read
  <2>2. Shown(row[t], t) \in Facts
        BY <1>2 DEF TypeOK, OfThing, Facts
  <2>3. Shaped(e, doing) /\ doing.at = "writing" /\ doing.before = Shown(row[t], t)
        BY <1>2, <2>2 DEF Shaped, Setting
  <2>4. Asked[e].kind = "set" /\ t \in Method /\ ~Offered(Asked[e].value)
          => \E m \in Method \ {t} : Offered(Current(m))
        BY <1>4 DEF LastMethod
  <2>5. holder[LockOf(t)] = e
        BY <1>1 DEF EditsInv, Locked
  <2> HIDE DEF doing
  <2>6. edit' \in [Edit -> Doing] /\ edit'[e] = doing /\ Alone(e)
        BY <1>2, <2>1, <2>3, DoingStep DEF Alone
  <2>7. holder' \in [Locks -> Edit \cup {Nobody}]
        BY <1>2, <2>1 DEF TypeOK
  <2> QED BY <1>1, <1>2, <2>1, <2>3, <2>4, <2>5, <2>6, <2>7, QuietStep
<1> QED BY <1>3, <1>4

LEMMA ClearStep ==
  ASSUME EditsInv, NEW e \in Edit, Clear(e)
  PROVE  EditsInv'
<1> DEFINE doing == [at |-> "marking", cleared |-> edit[e].found \cap defaults]
<1>1. edit[e].at = "clearing" /\ edit' = [edit EXCEPT ![e] = doing] /\ UNCHANGED <<row, defaults, trail, holder>>
      BY DEF Clear
<1>2. TypeOK /\ OfPack(e) /\ edit[e].found \subseteq SamePacks(e) /\ OneDefault' /\ defaults' \subseteq Pack
      BY <1>1, Stages DEF EditsInv, TypeOK, OneDefault
<1>3. Shaped(e, doing) /\ doing.at = "marking"
      BY <1>2 DEF Shaped, Packs
<1> HIDE DEF doing
<1>4. edit' \in [Edit -> Doing] /\ edit'[e] = doing /\ Alone(e)
      BY <1>1, <1>2, <1>3, DoingStep DEF Alone
<1>5. holder' \in [Locks -> Edit \cup {Nobody}]
      BY <1>1, <1>2 DEF TypeOK
<1> QED BY <1>1, <1>2, <1>3, <1>4, <1>5, QuietStep

\* A mark that is let through leaves the ingredient this default alone, and
\* touches no other.
LEMMA MarkLeaves ==
  ASSUME TypeOK, NEW e \in Edit, Mark(e), ~Taken(e), NEW i
  PROVE  DefaultsOf(i)' = IF i = IngredientOf[Asked[e].pack] THEN {Asked[e].pack} ELSE DefaultsOf(i)
<1>1. edit[e].at = "marking" /\ defaults' = (defaults \ edit[e].cleared) \cup {Asked[e].pack}
      BY DEF Mark
<1>2. edit[e].cleared \subseteq SamePacks(e) /\ OfPack(e) /\ defaults \subseteq Pack
      BY <1>1, Stages DEF TypeOK
<1>3. DefaultsOf(IngredientOf[Asked[e].pack]) \subseteq edit[e].cleared \cup {Asked[e].pack}
      BY DEF Taken
<1> QED BY <1>1, <1>2, <1>3 DEF DefaultsOf, SamePacks

LEMMA MarkStep ==
  ASSUME EditsInv, NEW e \in Edit, Mark(e)
  PROVE  EditsInv'
<1>1. edit[e].at = "marking" /\ Over(e) /\ UNCHANGED <<row, trail>>
      /\ defaults' = IF Taken(e) THEN defaults ELSE (defaults \ edit[e].cleared) \cup {Asked[e].pack}
      BY DEF Mark
<1>2. TypeOK /\ OfPack(e) /\ defaults \subseteq Pack /\ OneDefault
      BY <1>1, Stages DEF EditsInv, TypeOK
<1>3. defaults' \subseteq Pack
      BY <1>1, <1>2 DEF OfPack
<1>4. OneDefault'
  <2>1. CASE Taken(e)
        BY <1>1, <1>2, <2>1 DEF OneDefault
  <2>2. CASE ~Taken(e)
    <3> SUFFICES ASSUME NEW p \in defaults', NEW q \in defaults', IngredientOf[p] = IngredientOf[q]
                 PROVE  p = q
        BY DEF OneDefault
    <3>1. p \in DefaultsOf(IngredientOf[p])' /\ q \in DefaultsOf(IngredientOf[p])'
          BY DEF DefaultsOf
    <3>2. DefaultsOf(IngredientOf[p])' = IF IngredientOf[p] = IngredientOf[Asked[e].pack]
                                         THEN {Asked[e].pack} ELSE DefaultsOf(IngredientOf[p])
          BY <1>2, <2>2, MarkLeaves
    <3> QED BY <1>2, <3>1, <3>2 DEF OneDefault, DefaultsOf
  <2> QED BY <2>1, <2>2
<1> QED BY <1>1, <1>3, <1>4, FailStep

\* A write: the row and the entry of one thing.
LEMMA SaveStep ==
  ASSUME EditsInv, NEW e \in Edit, Save(e)
  PROVE  EditsInv'
<1> DEFINE t == Asked[e].thing
           entry == [before |-> edit[e].before, after |-> Shown(NewRow(e), t)]
<1>1. edit[e].at = "writing" /\ Over(e) /\ UNCHANGED defaults
      BY DEF Save
<1>2. TypeOK /\ OfThing(e) /\ t \in Thing /\ edit[e].before = Shown(row[t], t) /\ edit[e].before \in Facts
      BY <1>1, Stages DEF EditsInv, StillRead, OfThing
<1>3. CASE Asked[e].kind = "reset" /\ row[t] = Unset
  <2>1. UNCHANGED <<row, trail>>
        BY <1>3 DEF Save
  <2> QED BY <1>1, <1>2, <2>1, FailStep DEF EditsInv, TypeOK, OneDefault
<1>4. CASE ~(Asked[e].kind = "reset" /\ row[t] = Unset)
  <2>1. row' = [row EXCEPT ![t] = NewRow(e)] /\ trail' = [trail EXCEPT ![t] = Append(@, entry)]
        BY <1>4 DEF Save
  <2>2. NewRow(e) \in Rows
        BY DEF NewRow, Rows
  <2>3. /\ row' \in [Thing -> Rows] /\ row'[t] = NewRow(e)
        /\ \A x \in Thing : x # t => row'[x] = row[x]
        BY <1>2, <2>1, <2>2 DEF TypeOK
  <2>4. entry \in Entries /\ entry.before = Shown(row[t], t) /\ entry.after = Shown(NewRow(e), t)
        BY <1>2, <2>2 DEF Entries, Facts
  <2> HIDE DEF entry
  <2>5. trail[t] \in Seq(Entries) /\ Append(trail[t], entry) \in Seq(Entries)
        BY <1>2, <2>4 DEF TypeOK
  <2>6. /\ trail' \in [Thing -> Seq(Entries)] /\ trail'[t] = Append(trail[t], entry)
        /\ \A x \in Thing : x # t => trail'[x] = trail[x]
        BY <1>2, <2>1, <2>5 DEF TypeOK
  <2>7. /\ edit' \in [Edit -> Doing] /\ edit'[e] = Idle /\ Alone(e)
        /\ holder' \in [Locks -> Edit \cup {Nobody}]
        BY <1>1, <1>2, OverStep
  <2>8. Idle.at \notin {"reading", "writing"}
        BY DEF Idle
  <2>9. TypeOK'
    <3>1. \A f \in Edit : Shaped(f, edit'[f])
      <4> TAKE f \in Edit
      <4>1. CASE f = e
            BY <2>7, <4>1 DEF Shaped
      <4>2. CASE f # e
            BY <1>2, <2>7, <4>2 DEF Alone, TypeOK, Shaped
      <4> QED BY <4>1, <4>2
    <3> QED BY <1>1, <1>2, <2>3, <2>6, <2>7, <3>1 DEF TypeOK, Shaped
  <2>10. Locked'
    <3> SUFFICES ASSUME NEW f \in Edit, edit'[f].at \in {"reading", "writing"}
                 PROVE  holder'[LockOf(Asked[f].thing)] = f
        BY DEF Locked, LockOf
    <3>1. f # e /\ edit'[f] = edit[f]
          BY <2>7, <2>8 DEF Alone
    <3>2. holder[LockOf(Asked[f].thing)] = f /\ LockOf(Asked[f].thing) \in Locks
          BY <1>2, <3>1, Stages, LockType DEF EditsInv, Locked, OfThing
    <3> QED BY <2>7, <3>1, <3>2 DEF Alone
  <2>11. \A m \in Method : m \in Thing /\ m \notin Sold
        BY EditsAssumption DEF Thing
  <2>12. \A m \in Method : m # t => Current(m)' = Current(m)
        BY <2>3, <2>11 DEF Current
  <2>13. ASSUME NEW f \in Edit, f # e, edit[f].at = "writing"
         PROVE  Asked[f].thing \in Thing /\ LockOf(Asked[f].thing) # LockOf(t)
    <3>1. holder[LockOf(Asked[f].thing)] = f /\ holder[LockOf(t)] = e
          BY <1>1, <2>13 DEF EditsInv, Locked
    <3>2. Asked[f].thing \in Thing
          BY <1>2, <2>13, Stages DEF OfThing
    <3> QED BY <2>13, <3>1, <3>2
  <2>14. StillRead'
    <3> SUFFICES ASSUME NEW f \in Edit, edit'[f].at = "writing"
                 PROVE  /\ edit'[f].before = Shown(row'[Asked[f].thing], Asked[f].thing)
                        /\ Asked[f].kind = "set" /\ Asked[f].thing \in Method /\ ~Offered(Asked[f].value)
                             => \E m \in Method \ {Asked[f].thing} : Offered(Current(m)')
        BY DEF StillRead, Shown, ValueOf, Offered
    <3>1. f # e /\ edit'[f] = edit[f]
          BY <2>7, <2>8 DEF Alone
    <3>2. Asked[f].thing \in Thing /\ LockOf(Asked[f].thing) # LockOf(t)
          BY <2>13, <3>1
    <3>3. Asked[f].thing # t /\ row'[Asked[f].thing] = row[Asked[f].thing]
          BY <2>3, <3>2
    <3>4. Asked[f].thing \in Method => t \notin Method
          BY <1>2, <2>11, <3>2, LockType
    <3>5. Asked[f].thing \in Method => \A m \in Method : Current(m)' = Current(m)
          BY <2>12, <3>4
    <3> QED BY <3>1, <3>3, <3>5 DEF EditsInv, StillRead
  <2>15. MethodStays'
    <3>1. CASE t \notin Method
      <4>1. PICK m \in Method : Offered(Current(m))
            BY DEF EditsInv, MethodStays
      <4>2. Current(m)' = Current(m)
            BY <2>12, <3>1
      <4>3. Offered(Current(m)')
            BY <4>1, <4>2
      <4> QED BY <4>3 DEF MethodStays, Offered
    <3>2. CASE t \in Method /\ Asked[e].kind = "set" /\ ~Offered(Asked[e].value)
      <4>1. PICK m \in Method \ {t} : Offered(Current(m))
            BY <1>1, <3>2 DEF EditsInv, StillRead
      <4>2. Offered(Current(m)')
            BY <2>12, <4>1
      <4> QED BY <4>2 DEF MethodStays, Offered
    <3>3. CASE t \in Method /\ Asked[e].kind = "set" /\ Offered(Asked[e].value)
      <4>1. NewRow(e) = Row(Asked[e].value)
            BY <3>3 DEF NewRow
      <4>2. Current(t)' = Asked[e].value
            BY <2>3, <4>1 DEF Current, ValueOf, Row
      <4>3. Offered(Current(t)')
            BY <3>3, <4>2
      <4> QED BY <3>3, <4>3 DEF MethodStays, Offered
    <3>4. CASE t \in Method /\ Asked[e].kind # "set"
      <4>1. NewRow(e) = Unset
            BY <3>4 DEF NewRow
      <4>2. Current(t)' = Default[t]
            BY <2>3, <4>1 DEF Current, ValueOf, Unset
      <4>3. Offered(Default[t])
            BY <3>4, EditsAssumption
      <4>4. Offered(Current(t)')
            BY <4>2, <4>3
      <4> QED BY <3>4, <4>4 DEF MethodStays, Offered
    <3> QED BY <3>1, <3>2, <3>3, <3>4
  <2>16. TrailTells'
    <3> SUFFICES ASSUME NEW x \in Thing
                 PROVE  AddsUp(trail'[x], Shown(FirstRow(x), x), Shown(row'[x], x))
        BY DEF TrailTells, AddsUp, Shown, ValueOf, FirstRow
    <3>1. AddsUp(trail[x], Shown(FirstRow(x), x), Shown(row[x], x))
          BY DEF EditsInv, TrailTells
    <3>2. CASE x # t
          BY <2>3, <2>6, <3>1, <3>2
    <3>3. CASE x = t
          BY <2>3, <2>4, <2>5, <2>6, <3>1, <3>3, OneMoreEntry
    <3> QED BY <3>2, <3>3
  <2>17. OneDefault'
        BY <1>1 DEF EditsInv, OneDefault
  <2> QED BY <2>9, <2>10, <2>14, <2>15, <2>16, <2>17 DEF EditsInv
<1> QED BY <1>3, <1>4

\* The invariant is inductive.
LEMMA InvNext ==
  ASSUME EditsInv, [EditsNext]_editsVars
  PROVE  EditsInv'
<1>1. CASE UNCHANGED editsVars
      BY <1>1 DEF editsVars, EditsInv, TypeOK, Locked, StillRead, OneDefault, MethodStays, TrailTells,
                  Current, ValueOf, Shown, Offered, AddsUp, FirstRow, LockOf
<1>2. CASE EditsNext
  <2>1. PICK e \in Edit : Begin(e) \/ Lock(e) \/ Read(e) \/ Save(e) \/ Clear(e) \/ Mark(e) \/ Fail(e)
        BY <1>2 DEF EditsNext
  <2>2. CASE Fail(e)
        BY <2>2, FailStep DEF Fail, EditsInv, TypeOK, OneDefault
  <2> QED BY <2>1, <2>2, BeginStep, LockStep, ReadStep, SaveStep, ClearStep, MarkStep
<1> QED BY <1>1, <1>2

\* "Two owners cannot switch off the last two methods at once": for any
\* methods and any overlapping edits, checkout always has a way to pay
\* (LockPaymentSettings).
THEOREM MethodAlwaysStays == EditsSpec => []MethodStays
<1>1. EditsInit => EditsInv
      BY InvInit
<1>2. EditsInv /\ [EditsNext]_editsVars => EditsInv'
      BY InvNext
<1>3. EditsInv => MethodStays
      BY DEF EditsInv
<1> QED BY <1>1, <1>2, <1>3, PTL DEF EditsSpec

\* "The audit sees the true before-state": the entries of each thing lead from
\* what applied first to what applies now (LockPaymentSettings,
\* LockVariantPrice).
THEOREM TrailAlwaysTells == EditsSpec => []TrailTells
<1>1. EditsInit => EditsInv
      BY InvInit
<1>2. EditsInv /\ [EditsNext]_editsVars => EditsInv'
      BY InvNext
<1>3. EditsInv => TrailTells
      BY DEF EditsInv
<1> QED BY <1>1, <1>2, <1>3, PTL DEF EditsSpec

\* An ingredient with a default pack keeps one, and just one, through edits
\* that clear and mark at once (SetDefaultPack).
THEOREM DefaultAlwaysStays == EditsSpec => DefaultStays
<1>1. EditsInit => EditsInv
      BY InvInit
<1>2. EditsInv /\ [EditsNext]_editsVars => EditsInv'
      BY InvNext
<1>3. ASSUME EditsInv, NEW i, DefaultsOf(i) # {}
      PROVE  Cardinality(DefaultsOf(i)) = 1
  <2>1. PICK p : p \in DefaultsOf(i)
        BY <1>3
  <2>2. DefaultsOf(i) = {p}
        BY <1>3, <2>1 DEF EditsInv, OneDefault, DefaultsOf
  <2> QED BY <2>2, FS_Singleton
<1>4. EditsInv /\ [EditsNext]_editsVars => [DefaultKept]_editsVars
  <2> SUFFICES ASSUME EditsInv, EditsNext, NEW i \in Packed, DefaultsOf(i) # {}
               PROVE  Cardinality(DefaultsOf(i)') = 1
      BY DEF DefaultKept
  <2>1. CASE defaults' = defaults
    <3>1. DefaultsOf(i)' = DefaultsOf(i)
          BY <2>1 DEF DefaultsOf
    <3> QED BY <1>3, <3>1
  <2>2. CASE defaults' # defaults
    <3>1. PICK e \in Edit : Mark(e)
          BY <2>2 DEF EditsNext, Begin, Lock, Read, Save, Clear, Fail
    <3>2. ~Taken(e)
          BY <2>2, <3>1 DEF Mark
    <3>3. DefaultsOf(i)' = IF i = IngredientOf[Asked[e].pack] THEN {Asked[e].pack} ELSE DefaultsOf(i)
          BY <3>1, <3>2, MarkLeaves DEF EditsInv
    <3>4. CASE i = IngredientOf[Asked[e].pack]
          BY <3>3, <3>4, FS_Singleton
    <3>5. CASE i # IngredientOf[Asked[e].pack]
          BY <1>3, <3>3, <3>5
    <3> QED BY <3>4, <3>5
  <2> QED BY <2>1, <2>2
<1> QED BY <1>1, <1>2, <1>4, PTL DEF EditsSpec, DefaultStays

-----------------------------------------------------------------------------
\* Fractions.

LEMMA Parts ==
  ASSUME NEW x \in Fraction
  PROVE  x = <<x[1], x[2]>> /\ x[1] \in Int /\ x[2] \in Nat \ {0}
BY DEF Fraction

LEMMA FractionOf ==
  ASSUME NEW n \in Int, NEW d \in Nat \ {0}
  PROVE  <<n, d>> \in Fraction /\ <<n, d>>[1] = n /\ <<n, d>>[2] = d
BY DEF Fraction

LEMMA WholeType ==
  ASSUME NEW n \in Int
  PROVE  Whole(n) \in Fraction /\ Whole(n)[1] = n /\ Whole(n)[2] = 1
BY FractionOf DEF Whole

\* A product of two that are not zero.
LEMMA ProductPositive ==
  ASSUME NEW m \in Nat \ {0}, NEW n \in Nat \ {0}
  PROVE  m * n \in Nat \ {0}
<1>1. m * 1 <= m * n
      BY Monotone
<1> QED BY <1>1

LEMMA PlusType ==
  ASSUME NEW x \in Fraction, NEW y \in Fraction
  PROVE  Plus(x, y) \in Fraction
<1>1. x[1] \in Int /\ y[1] \in Int /\ x[2] \in Nat \ {0} /\ y[2] \in Nat \ {0}
      BY Parts
<1>2. x[2] * y[2] \in Nat \ {0} /\ x[1] * y[2] + y[1] * x[2] \in Int /\ x[1] + y[1] \in Int
      BY <1>1, ProductPositive
<1> QED BY <1>1, <1>2, FractionOf DEF Plus

LEMMA TimesType ==
  ASSUME NEW x \in Fraction, NEW y \in Fraction
  PROVE  Times(x, y) \in Fraction /\ Times(x, y)[1] = x[1] * y[1] /\ Times(x, y)[2] = x[2] * y[2]
<1>1. x[1] \in Int /\ y[1] \in Int /\ x[2] \in Nat \ {0} /\ y[2] \in Nat \ {0}
      BY Parts
<1>2. x[2] * y[2] \in Nat \ {0} /\ x[1] * y[1] \in Int
      BY <1>1, ProductPositive
<1> QED BY <1>1, <1>2, FractionOf DEF Times

\* At least nothing.
LEMMA AtLeastNothing ==
  ASSUME NEW x \in Fraction
  PROVE  AtMost(Whole(0), x) <=> x[1] >= 0
<1>1. x[1] \in Int /\ x[2] \in Int
      BY Parts
<1> QED BY <1>1, WholeType DEF AtMost

LEMMA AtMostSelf ==
  ASSUME NEW x \in Fraction
  PROVE  AtMost(x, x)
<1>1. x[1] \in Int /\ x[2] \in Int
      BY Parts
<1> QED BY <1>1 DEF AtMost

LEMMA AtMostEither ==
  ASSUME NEW x \in Fraction, NEW y \in Fraction
  PROVE  AtMost(x, y) \/ AtMost(y, x)
<1>1. x[1] \in Int /\ x[2] \in Int /\ y[1] \in Int /\ y[2] \in Int
      BY Parts
<1> QED BY <1>1 DEF AtMost

\* Cross-multiplied.
LEMMA CrossTrans ==
  ASSUME NEW a \in Int, NEW p \in Nat \ {0}, NEW b \in Int, NEW q \in Nat \ {0},
         NEW c \in Int, NEW r \in Nat \ {0}, a * q <= b * p, b * r <= c * q
  PROVE  a * r <= c * p
<1>1. a * q \in Int /\ b * p \in Int /\ b * r \in Int /\ c * q \in Int /\ a * r \in Int /\ c * p \in Int
      OBVIOUS
<1>2. r * (a * q) <= r * (b * p)
      BY <1>1, Monotone
<1>3. p * (b * r) <= p * (c * q)
      BY <1>1, Monotone
<1>4. r * (b * p) = p * (b * r) /\ r * (a * q) = q * (a * r) /\ p * (c * q) = q * (c * p)
      OBVIOUS
<1>5. q * (a * r) <= q * (c * p)
      BY <1>2, <1>3, <1>4
<1>6. ~(c * p < a * r)
  <2> SUFFICES ASSUME c * p < a * r PROVE FALSE
      OBVIOUS
  <2>1. q * (c * p) <= q * (a * r)
        BY <1>1, Monotone
  <2>2. q * (c * p) = q * (a * r)
        BY <1>1, <1>5, <2>1
  <2>3. q * (a * r - c * p) = 0 /\ a * r - c * p \in Nat \ {0}
    <3>1. q * (a * r - c * p) = q * (a * r) - q * (c * p)
          OBVIOUS
    <3>2. q * (a * r) \in Int
          BY <1>1
    <3> QED BY <1>1, <2>2, <3>1, <3>2
  <2> QED BY <2>3, ProductPositive
<1> QED BY <1>1, <1>6

LEMMA AtMostTrans ==
  ASSUME NEW x \in Fraction, NEW y \in Fraction, NEW z \in Fraction, AtMost(x, y), AtMost(y, z)
  PROVE  AtMost(x, z)
<1>1. /\ x[1] \in Int /\ y[1] \in Int /\ z[1] \in Int
      /\ x[2] \in Nat \ {0} /\ y[2] \in Nat \ {0} /\ z[2] \in Nat \ {0}
      BY Parts
<1> QED BY <1>1, CrossTrans DEF AtMost

\* Both ways: the same number.
Equal(x, y) == AtMost(x, y) /\ AtMost(y, x)

\* The sum over the product of the denominators.
Cross(x, y) == <<x[1] * y[2] + y[1] * x[2], x[2] * y[2]>>

LEMMA CrossType ==
  ASSUME NEW x \in Fraction, NEW y \in Fraction
  PROVE  /\ Cross(x, y) \in Fraction
         /\ Cross(x, y)[1] = x[1] * y[2] + y[1] * x[2] /\ Cross(x, y)[2] = x[2] * y[2]
<1>1. x[1] \in Int /\ y[1] \in Int /\ x[2] \in Nat \ {0} /\ y[2] \in Nat \ {0}
      BY Parts
<1>2. x[2] * y[2] \in Nat \ {0} /\ x[1] * y[2] + y[1] * x[2] \in Int
      BY <1>1, ProductPositive
<1> QED BY <1>1, <1>2, FractionOf DEF Cross

LEMMA PlusCross ==
  ASSUME NEW x \in Fraction, NEW y \in Fraction
  PROVE  Equal(Plus(x, y), Cross(x, y))
<1>1. CASE x[2] # y[2]
  <2>1. Plus(x, y) = Cross(x, y)
        BY <1>1 DEF Plus, Cross
  <2> QED BY <2>1, CrossType, AtMostSelf DEF Equal
<1>2. CASE x[2] = y[2]
  <2>1. Plus(x, y)[1] = x[1] + y[1] /\ Plus(x, y)[2] = x[2]
        BY <1>2 DEF Plus
  <2>2. x[1] \in Int /\ y[1] \in Int /\ x[2] \in Int
        BY Parts
  <2>3. Cross(x, y)[1] = x[1] * x[2] + y[1] * x[2] /\ Cross(x, y)[2] = x[2] * x[2]
        BY <1>2, CrossType
  <2>4. (x[1] + y[1]) * (x[2] * x[2]) = (x[1] * x[2] + y[1] * x[2]) * x[2]
        BY <2>2
  <2>5. (x[1] + y[1]) * (x[2] * x[2]) \in Int
        BY <2>2
  <2> QED BY <2>1, <2>3, <2>4, <2>5 DEF Equal, AtMost
<1> QED BY <1>1, <1>2

\* More of one part is more of the sum.
LEMMA CrossGrows ==
  ASSUME NEW x \in Fraction, NEW y \in Fraction, NEW z \in Fraction, AtMost(x, y)
  PROVE  AtMost(Cross(x, z), Cross(y, z)) /\ AtMost(Cross(z, x), Cross(z, y))
<1> PICK a \in Int, p \in Nat \ {0} : x = <<a, p>>
    BY Parts
<1> PICK b \in Int, q \in Nat \ {0} : y = <<b, q>>
    BY Parts
<1> PICK c \in Int, r \in Nat \ {0} : z = <<c, r>>
    BY Parts
<1>1. a * q <= b * p
      BY DEF AtMost
<1>2. (r * r) * (a * q) <= (r * r) * (b * p)
  <2>1. r * r \in Nat /\ a * q \in Int /\ b * p \in Int
        BY ProductPositive
  <2> QED BY <1>1, <2>1, Monotone
<1>3. (a * r + c * p) * (q * r) = (r * r) * (a * q) + (c * r) * (p * q)
      OBVIOUS
<1>4. (b * r + c * q) * (p * r) = (r * r) * (b * p) + (c * r) * (p * q)
      OBVIOUS
<1>5. /\ (r * r) * (a * q) \in Int /\ (r * r) * (b * p) \in Int /\ (c * r) * (p * q) \in Int
      OBVIOUS
<1>6. (a * r + c * p) * (q * r) <= (b * r + c * q) * (p * r)
      BY <1>2, <1>3, <1>4, <1>5
<1>7. AtMost(Cross(x, z), Cross(y, z))
      BY <1>6 DEF AtMost, Cross
<1>8. (c * p + a * r) * (r * q) <= (c * q + b * r) * (r * p)
  <2>1. /\ (c * p + a * r) * (r * q) = (a * r + c * p) * (q * r)
        /\ (c * q + b * r) * (r * p) = (b * r + c * q) * (p * r)
        OBVIOUS
  <2> QED BY <1>6, <2>1
<1>9. AtMost(Cross(z, x), Cross(z, y))
      BY <1>8 DEF AtMost, Cross
<1> QED BY <1>7, <1>9

LEMMA PlusGrows ==
  ASSUME NEW x \in Fraction, NEW y \in Fraction, NEW z \in Fraction, NEW w \in Fraction,
         AtMost(x, y), AtMost(z, w)
  PROVE  AtMost(Plus(x, z), Plus(y, w))
<1>1. /\ Cross(x, z) \in Fraction /\ Cross(y, z) \in Fraction /\ Cross(y, w) \in Fraction
      /\ Plus(x, z) \in Fraction /\ Plus(y, w) \in Fraction
      BY CrossType, PlusType
<1>2. AtMost(Plus(x, z), Cross(x, z)) /\ AtMost(Cross(y, w), Plus(y, w))
      BY PlusCross DEF Equal
<1>3. AtMost(Cross(x, z), Cross(y, z)) /\ AtMost(Cross(y, z), Cross(y, w))
      BY CrossGrows
<1>4. AtMost(Plus(x, z), Cross(y, z))
      BY <1>1, <1>2, <1>3, AtMostTrans
<1>5. AtMost(Plus(x, z), Cross(y, w))
      BY <1>1, <1>3, <1>4, AtMostTrans
<1> QED BY <1>1, <1>2, <1>5, AtMostTrans

\* A part of the sum.
LEMMA PlusNothing ==
  ASSUME NEW x \in Fraction
  PROVE  Equal(Plus(x, Whole(0)), x) /\ Equal(Plus(Whole(0), x), x)
<1>1. x[1] \in Int /\ x[2] \in Int /\ Whole(0)[1] = 0 /\ Whole(0)[2] = 1
      BY Parts, WholeType
<1>2. Plus(x, Whole(0)) = <<x[1], x[2]>> /\ Plus(Whole(0), x) = <<x[1], x[2]>>
      BY <1>1 DEF Plus
<1> QED BY <1>2, Parts, AtMostSelf DEF Equal

\* A product of more is more.
LEMMA TimesGrows ==
  ASSUME NEW x \in Fraction, NEW y \in Fraction, NEW z \in Fraction, AtMost(x, y), z[1] >= 0
  PROVE  AtMost(Times(x, z), Times(y, z)) /\ AtMost(Times(z, x), Times(z, y))
<1> PICK a \in Int, p \in Nat \ {0} : x = <<a, p>>
    BY Parts
<1> PICK b \in Int, q \in Nat \ {0} : y = <<b, q>>
    BY Parts
<1> PICK c \in Int, r \in Nat \ {0} : z = <<c, r>>
    BY Parts
<1>1. a * q <= b * p /\ c \in Nat
      BY DEF AtMost
<1>2. (c * r) * (a * q) <= (c * r) * (b * p)
  <2>1. c * r \in Nat /\ a * q \in Int /\ b * p \in Int
        BY <1>1
  <2> QED BY <1>1, <2>1, Monotone
<1>3. /\ (a * c) * (q * r) = (c * r) * (a * q) /\ (b * c) * (p * r) = (c * r) * (b * p)
      /\ (c * a) * (r * q) = (c * r) * (a * q) /\ (c * b) * (r * p) = (c * r) * (b * p)
      OBVIOUS
<1> QED BY <1>2, <1>3 DEF AtMost, Times

-----------------------------------------------------------------------------
\* Rounding.

\* Floor is the largest whole number that is not more.
LEMMA FloorLargest ==
  ASSUME NEW x \in Fraction, NEW n \in Int
  PROVE  Floor(x) \in Int /\ (n <= Floor(x) <=> AtMost(Whole(n), x))
<1> PICK a \in Int, p \in Nat \ {0} : x = <<a, p>>
    BY Parts
<1> DEFINE f == a \div p
<1>1. f \in Int /\ p * f <= a /\ a < p * f + p /\ Floor(x) = f
      BY Division DEF Floor
<1>2. AtMost(Whole(n), x) <=> p * n <= a
  <2>1. n * p = p * n /\ a * 1 = a
        OBVIOUS
  <2> QED BY <2>1 DEF AtMost, Whole
<1> HIDE DEF f
<1>3. p * n \in Int /\ p * f \in Int /\ p * (f + 1) \in Int /\ p * (f + 1) = p * f + p
      BY <1>1
<1>4. n <= f => p * n <= p * f
      BY <1>1, Monotone
<1>5. f + 1 <= n => p * (f + 1) <= p * n
  <2>1. f + 1 \in Int
        BY <1>1
  <2> QED BY <2>1, Monotone
<1> QED BY <1>1, <1>2, <1>3, <1>4, <1>5

\* Ceil is the least whole number that is not less.
LEMMA CeilLeast ==
  ASSUME NEW x \in Fraction, NEW n \in Int
  PROVE  Ceil(x) \in Int /\ (Ceil(x) <= n <=> AtMost(x, Whole(n)))
<1> PICK a \in Int, p \in Nat \ {0} : x = <<a, p>>
    BY Parts
<1> DEFINE y == <<-a, p>>
           m == -n
<1>1. y \in Fraction /\ m \in Int
      BY FractionOf
<1>2. Floor(y) \in Int /\ (m <= Floor(y) <=> AtMost(Whole(m), y))
  <2> HIDE DEF y, m
  <2> QED BY <1>1, FloorLargest
<1>3. Ceil(x) = -Floor(y)
      BY DEF Ceil, Floor
<1>4. AtMost(Whole(m), y) <=> AtMost(x, Whole(n))
  <2>1. (-n) * p = -(n * p) /\ n * p \in Int /\ (-a) * 1 = -a /\ a * 1 = a
        OBVIOUS
  <2> QED BY <2>1 DEF AtMost, Whole
<1> HIDE DEF y
<1> QED BY <1>2, <1>3, <1>4

LEMMA RoundingGrows ==
  ASSUME NEW x \in Fraction, NEW y \in Fraction, AtMost(x, y)
  PROVE  Floor(x) <= Floor(y) /\ Ceil(x) <= Ceil(y)
<1>1. Floor(x) \in Int /\ Floor(y) \in Int /\ Ceil(x) \in Int /\ Ceil(y) \in Int
      BY FloorLargest, CeilLeast
<1>2. AtMost(Whole(Floor(x)), x) /\ AtMost(y, Whole(Ceil(y)))
      BY <1>1, FloorLargest, CeilLeast
<1>3. Whole(Floor(x)) \in Fraction /\ Whole(Ceil(y)) \in Fraction
      BY <1>1, WholeType
<1>4. AtMost(Whole(Floor(x)), y) /\ AtMost(x, Whole(Ceil(y)))
      BY <1>2, <1>3, AtMostTrans
<1> QED BY <1>1, <1>4, FloorLargest, CeilLeast

-----------------------------------------------------------------------------
\* Powers.

\* What holds of zero and of the next number holds of all: G are the numbers of
\* which it holds.
LEMMA NumberByOne ==
  ASSUME NEW G, 0 \in G, \A n \in Nat : n \in G => n + 1 \in G
  PROVE  Nat \subseteq G
<1> DEFINE Bad == {n \in Nat : n \notin G}
<1> SUFFICES ASSUME Bad # {} PROVE FALSE
    OBVIOUS
<1>1. PICK m \in Bad : \A n \in Bad : m <= n
      BY SmallestNumber
<1>2. m # 0 /\ m - 1 \in Nat /\ m - 1 \notin Bad
      BY <1>1
<1> QED BY <1>1, <1>2

PowerStep(h, x, k) == IF k = 0 THEN Whole(1) ELSE Times(x, h[k - 1])
Powers(h, x, n) == h = [k \in 0 .. n |-> PowerStep(h, x, k)]

LEMMA PowersExist ==
  ASSUME NEW x, NEW n \in Nat
  PROVE  \E h : Powers(h, x, n)
<1> DEFINE G == {m \in Nat : \E h : Powers(h, x, m)}
<1>1. 0 \in G
  <2> DEFINE h == [k \in 0 .. 0 |-> Whole(1)]
  <2>1. h = [k \in 0 .. 0 |-> PowerStep(h, x, k)]
        BY DEF PowerStep
  <2> QED BY <2>1 DEF Powers
<1>2. ASSUME NEW m \in Nat, m \in G
      PROVE  m + 1 \in G
  <2>1. PICK g : g = [k \in 0 .. m |-> PowerStep(g, x, k)]
        BY <1>2 DEF Powers
  <2> DEFINE h == [k \in 0 .. m + 1 |-> IF k \in 0 .. m THEN g[k] ELSE PowerStep(g, x, k)]
  <2>2. ASSUME NEW k \in 0 .. m + 1
        PROVE  h[k] = PowerStep(h, x, k)
    <3>1. h[k] = PowerStep(g, x, k)
          BY <2>1
    <3>2. k # 0 => k - 1 \in 0 .. m /\ k - 1 \in 0 .. m + 1
          OBVIOUS
    <3>3. k # 0 => h[k - 1] = g[k - 1]
          BY <3>2
    <3> QED BY <3>1, <3>3 DEF PowerStep
  <2>3. h = [k \in 0 .. m + 1 |-> h[k]]
        OBVIOUS
  <2> HIDE DEF h
  <2>4. h = [k \in 0 .. m + 1 |-> PowerStep(h, x, k)]
        BY <2>2, <2>3
  <2> QED BY <2>4 DEF Powers
<1> HIDE DEF G
<1>3. n \in G
      BY <1>1, <1>2, NumberByOne
<1> QED BY <1>3 DEF G

LEMMA PowersUnique ==
  ASSUME NEW x, NEW n \in Nat, NEW m \in Nat, NEW h, NEW g, Powers(h, x, n), Powers(g, x, m)
  PROVE  \A k \in Nat : k <= n /\ k <= m => h[k] = g[k]
<1> DEFINE G == {k \in Nat : k <= n /\ k <= m => h[k] = g[k]}
<1>1. /\ \A k \in 0 .. n : h[k] = PowerStep(h, x, k)
      /\ \A k \in 0 .. m : g[k] = PowerStep(g, x, k)
      BY DEF Powers
<1>2. 0 \in G
      BY <1>1 DEF PowerStep
<1>3. ASSUME NEW k \in Nat, k \in G
      PROVE  k + 1 \in G
  <2> SUFFICES ASSUME k + 1 <= n, k + 1 <= m PROVE h[k + 1] = g[k + 1]
      OBVIOUS
  <2>1. k + 1 \in 0 .. n /\ k + 1 \in 0 .. m /\ k + 1 # 0 /\ (k + 1) - 1 = k /\ h[k] = g[k]
        BY <1>3
  <2> QED BY <1>1, <2>1 DEF PowerStep
<1> HIDE DEF G
<1>4. Nat \subseteq G
      BY <1>2, <1>3, NumberByOne
<1> QED BY <1>4 DEF G

LEMMA PowerIs ==
  ASSUME NEW x, NEW n \in Nat
  PROVE  Power(x, 0) = Whole(1) /\ Power(x, n + 1) = Times(x, Power(x, n))
<1> DEFINE h(m) == CHOOSE h : Powers(h, x, m)
<1>1. \A m \in Nat : Powers(h(m), x, m) /\ Power(x, m) = h(m)[m]
  <2> TAKE m \in Nat
  <2>1. Powers(h(m), x, m)
        BY PowersExist
  <2>2. Power(x, m) = h(m)[m]
        BY DEF Power, Powers, PowerStep
  <2> QED BY <2>1, <2>2
<1> HIDE DEF h
<1>2. \A m \in Nat : \A k \in 0 .. m : h(m)[k] = PowerStep(h(m), x, k)
      BY <1>1 DEF Powers
<1>3. Power(x, 0) = Whole(1)
      BY <1>1, <1>2 DEF PowerStep
<1>4. h(n + 1)[n] = h(n)[n]
  <2>1. n + 1 \in Nat /\ n <= n /\ n <= n + 1
        OBVIOUS
  <2> QED BY <1>1, <2>1, PowersUnique
<1>5. h(n + 1)[n + 1] = Times(x, h(n + 1)[n])
  <2>1. n + 1 \in Nat /\ n + 1 \in 0 .. n + 1 /\ n + 1 # 0 /\ (n + 1) - 1 = n
        OBVIOUS
  <2> QED BY <1>2, <2>1 DEF PowerStep
<1> QED BY <1>1, <1>3, <1>4, <1>5

LEMMA PowerGrows ==
  ASSUME NEW x \in Fraction, NEW y \in Fraction, x[1] >= 0, AtMost(x, y), NEW n \in Nat
  PROVE  /\ Power(x, n) \in Fraction /\ Power(x, n)[1] >= 0
         /\ Power(y, n) \in Fraction /\ Power(y, n)[1] >= 0
         /\ AtMost(Power(x, n), Power(y, n))
<1> DEFINE G == {k \in Nat : /\ Power(x, k) \in Fraction /\ Power(x, k)[1] >= 0
                             /\ Power(y, k) \in Fraction /\ Power(y, k)[1] >= 0
                             /\ AtMost(Power(x, k), Power(y, k))}
<1>1. 0 \in G
  <2>1. Power(x, 0) = Whole(1) /\ Power(y, 0) = Whole(1)
        BY PowerIs
  <2>2. Whole(1) \in Fraction /\ Whole(1)[1] = 1
        BY WholeType
  <2> QED BY <2>1, <2>2, AtMostSelf
<1>2. y[1] >= 0
  <2>1. Whole(0) \in Fraction
        BY WholeType
  <2> QED BY <2>1, AtLeastNothing, AtMostTrans
<1>3. ASSUME NEW k \in Nat, k \in G
      PROVE  k + 1 \in G
  <2>1. /\ Power(x, k) \in Fraction /\ Power(x, k)[1] >= 0
        /\ Power(y, k) \in Fraction /\ Power(y, k)[1] >= 0
        /\ AtMost(Power(x, k), Power(y, k))
        BY <1>3
  <2>2. Power(x, k + 1) = Times(x, Power(x, k)) /\ Power(y, k + 1) = Times(y, Power(y, k))
        BY PowerIs
  <2> PICK v, w : v = Power(x, k) /\ w = Power(y, k)
      OBVIOUS
  <2>3. v \in Fraction /\ w \in Fraction /\ v[1] >= 0 /\ w[1] >= 0 /\ AtMost(v, w)
        BY <2>1
  <2>4. Times(x, v) \in Fraction /\ Times(y, w) \in Fraction /\ Times(y, v) \in Fraction
        BY <2>3, TimesType
  <2>5. AtMost(Times(x, v), Times(y, v)) /\ AtMost(Times(y, v), Times(y, w))
        BY <1>2, <2>3, TimesGrows
  <2>6. AtMost(Times(x, v), Times(y, w))
        BY <2>4, <2>5, AtMostTrans
  <2>7. Times(x, v)[1] >= 0 /\ Times(y, w)[1] >= 0
    <3>1. x[1] \in Nat /\ y[1] \in Nat /\ v[1] \in Nat /\ w[1] \in Nat
          BY <1>2, <2>3, Parts
    <3> QED BY <2>3, <3>1, TimesType
  <2> QED BY <2>2, <2>4, <2>6, <2>7
<1> HIDE DEF G
<1>4. n \in G
      BY <1>1, <1>3, NumberByOne
<1> QED BY <1>4 DEF G

-----------------------------------------------------------------------------
\* Lines and curves.

LEMMA SomeSequence ==
  ASSUME NEW S, NEW s \in Seq(S), s # <<>>
  PROVE  Len(s) \in Nat \ {0} /\ DOMAIN s = 1 .. Len(s) /\ \A n \in 1 .. Len(s) : s[n] \in S
OBVIOUS

\* A piecewise model that may be stored.
Curve(m) == m \in Model /\ Sound(m) /\ m.type = "piecewise"

LEMMA CurveKnots ==
  ASSUME NEW m, Curve(m)
  PROVE  /\ Len(m.points) \in Nat \ {0} /\ DOMAIN m.points = 1 .. Len(m.points)
         /\ \A n \in 0 .. Len(m.points) : Knot(m, n).u \in Int /\ Knot(m, n).amount \in Fraction
         /\ \A n \in 1 .. Len(m.points) : /\ Knot(m, n - 1).u < Knot(m, n).u
                                          /\ AtMost(Knot(m, n - 1).amount, Knot(m, n).amount)
<1>1. m.points \in Seq([u : Int, amount : Fraction]) /\ m.points # <<>>
      BY DEF Curve, Model, Sound
<1>2. /\ Len(m.points) \in Nat \ {0} /\ DOMAIN m.points = 1 .. Len(m.points)
      /\ \A n \in 1 .. Len(m.points) : m.points[n] \in [u : Int, amount : Fraction]
      BY <1>1, SomeSequence
<1>3. Origin.u = 0 /\ Origin.amount = Whole(0) /\ Whole(0) \in Fraction
      BY WholeType DEF Origin
<1>4. \A n \in 0 .. Len(m.points) : Knot(m, n).u \in Int /\ Knot(m, n).amount \in Fraction
  <2> TAKE n \in 0 .. Len(m.points)
  <2>1. CASE n = 0
        BY <1>3, <2>1 DEF Knot
  <2>2. CASE n # 0
    <3>1. n \in 1 .. Len(m.points)
          BY <1>2, <2>2
    <3> QED BY <1>2, <2>2, <3>1 DEF Knot
  <2> QED BY <2>1, <2>2
<1> QED BY <1>2, <1>4 DEF Curve, Sound

\* Later points are at more units and no less of the ingredient.
LEMMA CurveRises ==
  ASSUME NEW m, Curve(m), NEW j \in Nat, NEW k \in Nat, j <= k, k <= Len(m.points)
  PROVE  Knot(m, j).u <= Knot(m, k).u /\ AtMost(Knot(m, j).amount, Knot(m, k).amount)
<1> DEFINE N == Len(m.points)
           G == {d \in Nat : j + d <= N => /\ Knot(m, j).u <= Knot(m, j + d).u
                                           /\ AtMost(Knot(m, j).amount, Knot(m, j + d).amount)}
<1>1. N \in Nat
      BY CurveKnots
<1>2. 0 \in G
  <2>1. j \in 0 .. N /\ j + 0 = j
        BY <1>1
  <2>2. Knot(m, j).u \in Int /\ Knot(m, j).amount \in Fraction
        BY <2>1, CurveKnots
  <2> QED BY <2>1, <2>2, AtMostSelf
<1>3. ASSUME NEW d \in Nat, d \in G
      PROVE  d + 1 \in G
  <2> SUFFICES ASSUME j + (d + 1) <= N
               PROVE  /\ Knot(m, j).u <= Knot(m, j + (d + 1)).u
                      /\ AtMost(Knot(m, j).amount, Knot(m, j + (d + 1)).amount)
      OBVIOUS
  <2> PICK n : n = j + (d + 1)
      OBVIOUS
  <2>1. n \in 1 .. N /\ n \in 0 .. N /\ n - 1 \in 0 .. N /\ j \in 0 .. N /\ n - 1 = j + d /\ j + d <= N
        BY <1>1
  <2>2. /\ Knot(m, j).u \in Int /\ Knot(m, n - 1).u \in Int /\ Knot(m, n).u \in Int
        /\ Knot(m, j).amount \in Fraction /\ Knot(m, n - 1).amount \in Fraction /\ Knot(m, n).amount \in Fraction
        BY <2>1, CurveKnots
  <2>3. Knot(m, n - 1).u < Knot(m, n).u /\ AtMost(Knot(m, n - 1).amount, Knot(m, n).amount)
        BY <2>1, CurveKnots
  <2>4. Knot(m, j).u <= Knot(m, n - 1).u /\ AtMost(Knot(m, j).amount, Knot(m, n - 1).amount)
        BY <1>3, <2>1
  <2>5. Knot(m, j).u <= Knot(m, n).u /\ AtMost(Knot(m, j).amount, Knot(m, n).amount)
        BY <2>2, <2>3, <2>4, AtMostTrans
  <2> QED BY <2>5
<1> HIDE DEF G
<1>4. Nat \subseteq G
      BY <1>2, <1>3, NumberByOne
<1>5. k - j \in Nat /\ j + (k - j) = k
      OBVIOUS
<1> QED BY <1>4, <1>5 DEF G

\* A line through two points, the second not below the first.
LEMMA Slope ==
  ASSUME NEW lo, NEW hi, lo.u \in Int, hi.u \in Int, lo.amount \in Fraction, hi.amount \in Fraction,
         lo.u < hi.u, AtMost(lo.amount, hi.amount)
  PROVE  LET rise == Plus(hi.amount, Times(Whole(-1), lo.amount))
             slope == Times(rise, <<1, hi.u - lo.u>>)
         IN  /\ rise \in Fraction /\ rise[1] >= 0 /\ slope \in Fraction /\ slope[1] >= 0
             /\ Equal(Plus(lo.amount, rise), hi.amount)
             /\ slope = <<rise[1], rise[2] * (hi.u - lo.u)>>
<1> PICK a \in Int, p \in Nat \ {0} : lo.amount = <<a, p>>
    BY Parts
<1> PICK b \in Int, q \in Nat \ {0} : hi.amount = <<b, q>>
    BY Parts
<1> DEFINE neg == Times(Whole(-1), lo.amount)
           rise == Plus(hi.amount, neg)
           d == hi.u - lo.u
           slope == Times(rise, <<1, d>>)
<1>1. neg = <<-a, p>> /\ neg \in Fraction
  <2>1. Times(Whole(-1), lo.amount) = <<-a, p>>
        BY DEF Times, Whole
  <2> QED BY <2>1, FractionOf
<1>2. a * q <= b * p
      BY DEF AtMost
<1>3. rise \in Fraction
      BY <1>1, PlusType
<1>4. rise[1] >= 0
  <2>1. CASE p = q
    <3>1. rise = <<b + (-a), q>>
          BY <1>1, <2>1 DEF Plus
    <3>2. ~(b < a)
      <4> SUFFICES ASSUME b < a PROVE FALSE
          OBVIOUS
      <4>1. a - b \in Nat \ {0}
            OBVIOUS
      <4>2. p * (a - b) \in Nat \ {0}
            BY <4>1, ProductPositive
      <4>3. p * (a - b) = a * p - b * p /\ a * p \in Int /\ b * p \in Int
            OBVIOUS
      <4> QED BY <1>2, <2>1, <4>2, <4>3
    <3> QED BY <3>1, <3>2
  <2>2. CASE p # q
    <3>1. rise = <<b * p + (-a) * q, q * p>>
          BY <1>1, <2>2 DEF Plus
    <3>2. (-a) * q = -(a * q) /\ a * q \in Int /\ b * p \in Int
          OBVIOUS
    <3> QED BY <1>2, <3>1, <3>2
  <2> QED BY <2>1, <2>2
<1>5. Equal(Plus(lo.amount, rise), hi.amount)
  <2>1. Plus(lo.amount, rise) \in Fraction /\ Cross(lo.amount, rise) \in Fraction
        BY <1>3, PlusType, CrossType
  <2>2. Equal(Plus(lo.amount, rise), Cross(lo.amount, rise))
        BY <1>3, PlusCross
  <2>3. Equal(rise, Cross(hi.amount, neg))
        BY <1>1, PlusCross
  <2>4. Cross(hi.amount, neg) = <<b * p + (-a) * q, q * p>> /\ Cross(hi.amount, neg) \in Fraction
        BY <1>1, CrossType DEF Cross
  <2>5. /\ AtMost(Cross(lo.amount, rise), Cross(lo.amount, Cross(hi.amount, neg)))
        /\ AtMost(Cross(lo.amount, Cross(hi.amount, neg)), Cross(lo.amount, rise))
        BY <1>3, <2>3, <2>4, CrossGrows DEF Equal
  <2>6. /\ Cross(lo.amount, Cross(hi.amount, neg))
             = <<a * (q * p) + (b * p + (-a) * q) * p, p * (q * p)>>
        /\ Cross(lo.amount, Cross(hi.amount, neg)) \in Fraction
        BY <2>4, CrossType DEF Cross
  <2>7. Equal(Cross(lo.amount, Cross(hi.amount, neg)), hi.amount)
    <3>1. (a * (q * p) + (b * p + (-a) * q) * p) * q = b * (p * (q * p))
          OBVIOUS
    <3>2. b * (p * (q * p)) \in Int
          OBVIOUS
    <3> QED BY <2>6, <3>1, <3>2 DEF Equal, AtMost
  <2> HIDE DEF rise, neg
  <2>8. AtMost(Plus(lo.amount, rise), Cross(lo.amount, Cross(hi.amount, neg)))
        BY <2>1, <2>2, <2>5, <2>6, AtMostTrans DEF Equal
  <2>9. AtMost(Cross(lo.amount, Cross(hi.amount, neg)), Plus(lo.amount, rise))
        BY <2>1, <2>2, <2>5, <2>6, AtMostTrans DEF Equal
  <2> QED BY <2>1, <2>6, <2>7, <2>8, <2>9, AtMostTrans DEF Equal
<1>6. slope \in Fraction /\ slope = <<rise[1], rise[2] * d>>
  <2>1. d \in Nat \ {0}
        OBVIOUS
  <2>2. <<1, d>> \in Fraction
        BY <2>1, FractionOf
  <2>3. rise[1] \in Int
        BY <1>3, Parts
  <2> HIDE DEF rise
  <2>4. Times(rise, <<1, d>>) = <<rise[1], rise[2] * d>>
        BY <2>3 DEF Times
  <2> QED BY <1>3, <2>2, <2>4, TimesType
<1> QED BY <1>3, <1>4, <1>5, <1>6

LEMMA AlongType ==
  ASSUME NEW lo, NEW hi, lo.u \in Int, hi.u \in Int, lo.amount \in Fraction, hi.amount \in Fraction,
         lo.u < hi.u, AtMost(lo.amount, hi.amount), NEW u \in Fraction
  PROVE  Along(lo, hi, u) \in Fraction
<1> DEFINE rise == Plus(hi.amount, Times(Whole(-1), lo.amount))
           slope == Times(rise, <<1, hi.u - lo.u>>)
           w == Plus(u, Whole(-lo.u))
<1>1. slope \in Fraction
      BY Slope
<1>2. w \in Fraction
  <2>1. Whole(-lo.u) \in Fraction
        BY WholeType
  <2> QED BY <2>1, PlusType
<1>3. Along(lo, hi, u) = Plus(lo.amount, Times(slope, w))
      BY DEF Along
<1> HIDE DEF slope, w
<1> QED BY <1>1, <1>2, <1>3, TimesType, PlusType

LEMMA AlongGrows ==
  ASSUME NEW lo, NEW hi, lo.u \in Int, hi.u \in Int, lo.amount \in Fraction, hi.amount \in Fraction,
         lo.u < hi.u, AtMost(lo.amount, hi.amount), NEW u \in Fraction, NEW v \in Fraction, AtMost(u, v)
  PROVE  AtMost(Along(lo, hi, u), Along(lo, hi, v))
<1> DEFINE rise == Plus(hi.amount, Times(Whole(-1), lo.amount))
           slope == Times(rise, <<1, hi.u - lo.u>>)
           off == Whole(-lo.u)
<1>1. slope \in Fraction /\ slope[1] >= 0
      BY Slope
<1>2. off \in Fraction
      BY WholeType
<1>3. Along(lo, hi, u) = Plus(lo.amount, Times(slope, Plus(u, off))) /\
      Along(lo, hi, v) = Plus(lo.amount, Times(slope, Plus(v, off)))
      BY DEF Along
<1> HIDE DEF slope, off
<1>4. /\ Plus(u, off) \in Fraction /\ Plus(v, off) \in Fraction /\ AtMost(Plus(u, off), Plus(v, off))
      BY <1>2, PlusType, PlusGrows, AtMostSelf
<1> DEFINE s == Times(slope, Plus(u, off))
           t == Times(slope, Plus(v, off))
<1>5. s \in Fraction /\ t \in Fraction
      BY <1>1, <1>4, TimesType
<1>6. AtMost(s, t)
      BY <1>1, <1>4, TimesGrows
<1> HIDE DEF s, t
<1>7. AtMost(Plus(lo.amount, s), Plus(lo.amount, t))
      BY <1>5, <1>6, AtMostSelf, PlusGrows
<1> QED BY <1>3, <1>7 DEF s, t

\* It passes through both.
LEMMA AlongThrough ==
  ASSUME NEW lo, NEW hi, lo.u \in Int, hi.u \in Int, lo.amount \in Fraction, hi.amount \in Fraction,
         lo.u < hi.u, AtMost(lo.amount, hi.amount)
  PROVE  Equal(Along(lo, hi, Whole(lo.u)), lo.amount) /\ Equal(Along(lo, hi, Whole(hi.u)), hi.amount)
<1> DEFINE rise == Plus(hi.amount, Times(Whole(-1), lo.amount))
           d == hi.u - lo.u
           slope == Times(rise, <<1, d>>)
<1>1. /\ rise \in Fraction /\ slope \in Fraction /\ slope = <<rise[1], rise[2] * d>>
      /\ Equal(Plus(lo.amount, rise), hi.amount)
      BY Slope
<1>2. /\ Plus(Whole(lo.u), Whole(-lo.u)) = Whole(0) /\ Plus(Whole(hi.u), Whole(-lo.u)) = Whole(d)
      /\ d \in Nat \ {0}
      BY DEF Plus, Whole
<1>3. /\ Along(lo, hi, Whole(lo.u)) = Plus(lo.amount, Times(slope, Whole(0)))
      /\ Along(lo, hi, Whole(hi.u)) = Plus(lo.amount, Times(slope, Whole(d)))
      BY <1>2 DEF Along
<1> HIDE DEF rise, d
<1> PICK r \in Int, e \in Nat \ {0} : rise = <<r, e>>
    BY <1>1, Parts
<1>4. e * d \in Nat \ {0} /\ slope = <<r, e * d>>
      BY <1>1, <1>2, ProductPositive
<1> HIDE DEF slope
<1>5. Times(slope, Whole(0)) = <<0, e * d>> /\ Times(slope, Whole(d)) = <<r * d, e * d>>
  <2>1. r * 0 = 0 /\ (e * d) * 1 = e * d
        BY <1>2, <1>4
  <2> QED BY <1>4, <2>1 DEF Times, Whole
<1>6. <<0, e * d>> \in Fraction /\ <<r * d, e * d>> \in Fraction
      BY <1>2, <1>4, FractionOf
<1>7. Equal(<<0, e * d>>, Whole(0)) /\ Equal(<<r * d, e * d>>, rise)
  <2>1. (r * d) * e = r * (e * d) /\ r * (e * d) \in Int
        BY <1>2
  <2> QED BY <1>4, <2>1 DEF Equal, AtMost, Whole
<1>8. ASSUME NEW x \in Fraction, NEW y \in Fraction, Equal(x, y), NEW z \in Fraction, Equal(Plus(lo.amount, y), z)
      PROVE  Equal(Plus(lo.amount, x), z)
  <2>1. /\ AtMost(Plus(lo.amount, x), Plus(lo.amount, y)) /\ AtMost(Plus(lo.amount, y), Plus(lo.amount, x))
        /\ Plus(lo.amount, x) \in Fraction /\ Plus(lo.amount, y) \in Fraction
        BY <1>8, PlusGrows, PlusType, AtMostSelf DEF Equal
  <2> QED BY <1>8, <2>1, AtMostTrans DEF Equal
<1>9. Equal(Plus(lo.amount, Whole(0)), lo.amount) /\ Whole(0) \in Fraction
      BY PlusNothing, WholeType
<1>10. Equal(Plus(lo.amount, <<0, e * d>>), lo.amount)
       BY <1>6, <1>7, <1>8, <1>9
<1>11. Equal(Plus(lo.amount, <<r * d, e * d>>), hi.amount)
       BY <1>1, <1>6, <1>7, <1>8
<1> QED BY <1>3, <1>5, <1>10, <1>11

\* Where a curve is evaluated: on the first segment that does not end before u.
LEMMA SegmentIs ==
  ASSUME NEW m, Curve(m), NEW u \in Fraction, u[1] > 0
  PROVE  LET k == Segment(m, u)
             N == Len(m.points)
         IN  /\ k \in 1 .. N
             /\ \A n \in 1 .. N : n < k => ~AtMost(u, Whole(Knot(m, n).u))
             /\ AtMost(u, Whole(Knot(m, k).u)) \/ k = N
             /\ AtMost(Whole(Knot(m, k - 1).u), u)
<1> DEFINE N == Len(m.points)
           reached == {n \in DOMAIN m.points : AtMost(u, Whole(m.points[n].u))}
           k == Segment(m, u)
<1>1. N \in Nat \ {0} /\ DOMAIN m.points = 1 .. N
      BY CurveKnots
<1>2. \A n \in 1 .. N : Knot(m, n) = m.points[n]
      BY DEF Knot
<1>3. k = IF reached = {} THEN N ELSE Min(reached)
      BY DEF Segment
<1>4. \A n \in 1 .. N : n \in reached <=> AtMost(u, Whole(Knot(m, n).u))
      BY <1>1, <1>2
<1>5. reached \subseteq 1 .. N
      BY <1>1
<1> HIDE DEF reached, k, N
<1>6. k \in 1 .. N /\ (\A n \in 1 .. N : n < k => n \notin reached) /\ (k \in reached \/ k = N)
  <2>1. CASE reached = {}
        BY <1>1, <1>3, <2>1
  <2>2. CASE reached # {}
    <3>1. reached \subseteq Nat
          BY <1>1, <1>5
    <3>2. Min(reached) \in reached /\ \A n \in reached : Min(reached) <= n
          BY <2>2, <3>1, MinOfSome
    <3>3. k = Min(reached) /\ k \in 1 .. N
          BY <1>3, <1>5, <2>2, <3>2
    <3>4. \A n \in 1 .. N : n < k => n \notin reached
      <4> SUFFICES ASSUME NEW n \in 1 .. N, n < k, n \in reached PROVE FALSE
          OBVIOUS
      <4>1. k <= n /\ k \in Int /\ n \in Int
            BY <3>2, <3>3
      <4> QED BY <4>1
    <3> QED BY <3>2, <3>3, <3>4
  <2> QED BY <2>1, <2>2
<1>7. AtMost(Whole(Knot(m, k - 1).u), u)
  <2>1. CASE k = 1
    <3>1. Knot(m, k - 1).u = 0
          BY <2>1 DEF Knot, Origin
    <3>2. u[1] >= 0
          BY Parts
    <3> QED BY <3>1, <3>2, AtLeastNothing
  <2>2. CASE k # 1
    <3>1. k - 1 \in 1 .. N /\ k - 1 \in 0 .. N /\ k - 1 < k
          BY <1>1, <1>6, <2>2
    <3>2. ~AtMost(u, Whole(Knot(m, k - 1).u))
          BY <1>4, <1>6, <3>1
    <3>3. Knot(m, k - 1).u \in Int
          BY <3>1, CurveKnots DEF N
    <3> QED BY <3>2, <3>3, WholeType, AtMostEither
  <2> QED BY <2>1, <2>2
<1> QED BY <1>4, <1>6, <1>7 DEF k, N

\* A sound curve takes a fraction, at least what the segment starts with and,
\* up to its end, no more than what it ends with.
LEMMA CurveAt ==
  ASSUME NEW m, Curve(m), NEW k \in 1 .. Len(m.points), NEW u \in Fraction
  PROVE  LET x == Along(Knot(m, k - 1), Knot(m, k), u)
         IN  /\ x \in Fraction
             /\ AtMost(Whole(Knot(m, k - 1).u), u) => AtMost(Knot(m, k - 1).amount, x)
             /\ AtMost(u, Whole(Knot(m, k).u)) => AtMost(x, Knot(m, k).amount)
             /\ \A v \in Fraction : AtMost(u, v) => AtMost(x, Along(Knot(m, k - 1), Knot(m, k), v))
<1> PICK lo, hi : lo = Knot(m, k - 1) /\ hi = Knot(m, k)
    OBVIOUS
<1>1. /\ lo.u \in Int /\ hi.u \in Int /\ lo.amount \in Fraction /\ hi.amount \in Fraction
      /\ lo.u < hi.u /\ AtMost(lo.amount, hi.amount)
  <2>1. k \in 0 .. Len(m.points) /\ k - 1 \in 0 .. Len(m.points)
        BY CurveKnots
  <2> QED BY <2>1, CurveKnots
<1>2. \A v \in Fraction : Along(lo, hi, v) \in Fraction
      BY <1>1, AlongType
<1>3. \A v, w \in Fraction : AtMost(v, w) => AtMost(Along(lo, hi, v), Along(lo, hi, w))
      BY <1>1, AlongGrows
<1>4. Equal(Along(lo, hi, Whole(lo.u)), lo.amount) /\ Equal(Along(lo, hi, Whole(hi.u)), hi.amount)
      BY <1>1, AlongThrough
<1>5. Whole(lo.u) \in Fraction /\ Whole(hi.u) \in Fraction
      BY <1>1, WholeType
<1>6. ASSUME AtMost(Whole(lo.u), u)
      PROVE  AtMost(lo.amount, Along(lo, hi, u))
      BY <1>1, <1>2, <1>3, <1>4, <1>5, <1>6, AtMostTrans DEF Equal
<1>7. ASSUME AtMost(u, Whole(hi.u))
      PROVE  AtMost(Along(lo, hi, u), hi.amount)
      BY <1>1, <1>2, <1>3, <1>4, <1>5, <1>7, AtMostTrans DEF Equal
<1> QED BY <1>2, <1>3, <1>6, <1>7

LEMMA SumSound ==
  ASSUME NEW x \in Fraction, NEW y \in Fraction, x[1] >= 0, y[1] >= 0
  PROVE  /\ Plus(x, y) \in Fraction /\ Plus(x, y)[1] >= 0
         /\ Times(x, y) \in Fraction /\ Times(x, y)[1] >= 0
<1>1. x[1] \in Nat /\ y[1] \in Nat /\ x[2] \in Nat /\ y[2] \in Nat
      BY Parts
<1>2. x[1] * y[2] \in Nat /\ y[1] * x[2] \in Nat /\ x[1] * y[1] \in Nat
      BY <1>1
<1>3. Plus(x, y)[1] >= 0
      BY <1>1, <1>2 DEF Plus
<1> QED BY <1>2, <1>3, PlusType, TimesType

\* What a model that may be stored takes is nothing or more.
LEMMA ResolveType ==
  ASSUME NEW m \in Model, Sound(m), NEW u \in Fraction, u[1] >= 0
  PROVE  Resolve(m, u) \in Fraction /\ Resolve(m, u)[1] >= 0
<1>1. CASE u[1] = 0
  <2>1. Resolve(m, u) = Whole(0)
        BY <1>1 DEF Resolve
  <2> QED BY <2>1, WholeType
<1>2. CASE u[1] # 0 /\ m.type = "affine"
  <2>1. m.a \in Fraction /\ m.b \in Fraction /\ m.a[1] >= 0 /\ m.b[1] >= 0
        BY <1>2 DEF Model, Sound
  <2>2. Resolve(m, u) = Plus(m.a, Times(m.b, u))
        BY <1>2 DEF Resolve
  <2>3. Times(m.b, u) \in Fraction /\ Times(m.b, u)[1] >= 0
        BY <2>1, SumSound
  <2> QED BY <2>1, <2>2, <2>3, SumSound
<1>3. CASE u[1] # 0 /\ m.type = "power"
  <2>1. m.a \in Fraction /\ m.b \in Nat /\ m.a[1] >= 0
        BY <1>3 DEF Model, Sound
  <2>2. Resolve(m, u) = Times(m.a, Power(u, m.b))
        BY <1>3 DEF Resolve
  <2>3. Power(u, m.b) \in Fraction /\ Power(u, m.b)[1] >= 0
        BY <2>1, AtMostSelf, PowerGrows
  <2> QED BY <2>1, <2>2, <2>3, SumSound
<1>4. CASE u[1] # 0 /\ m.type = "piecewise"
  <2> PICK k : k = Segment(m, u)
      OBVIOUS
  <2>1. Curve(m) /\ u[1] > 0
    <3>1. u[1] \in Int
          BY Parts
    <3> QED BY <1>4, <3>1 DEF Curve
  <2>2. k \in 1 .. Len(m.points) /\ AtMost(Whole(Knot(m, k - 1).u), u)
        BY <2>1, SegmentIs
  <2> PICK x : x = Along(Knot(m, k - 1), Knot(m, k), u)
      OBVIOUS
  <2>3. x \in Fraction /\ AtMost(Knot(m, k - 1).amount, x) /\ x = Resolve(m, u)
    <3>1. x = Resolve(m, u)
          BY <1>4 DEF Resolve
    <3> QED BY <2>1, <2>2, <3>1, CurveAt
  <2>4. 0 \in Nat /\ k - 1 \in Nat /\ 0 <= k - 1 /\ k - 1 <= Len(m.points)
        BY <2>1, <2>2, CurveKnots
  <2>5. AtMost(Knot(m, 0).amount, Knot(m, k - 1).amount) /\ Knot(m, k - 1).amount \in Fraction
    <3>1. k - 1 \in 0 .. Len(m.points)
          BY <2>1, <2>2, CurveKnots
    <3> QED BY <2>1, <2>4, <3>1, CurveRises, CurveKnots
  <2>6. Knot(m, 0).amount = Whole(0) /\ Whole(0) \in Fraction
        BY WholeType DEF Knot, Origin
  <2>7. AtMost(Whole(0), x)
        BY <2>3, <2>5, <2>6, AtMostTrans
  <2> QED BY <2>3, <2>7, AtLeastNothing
<1> QED BY <1>1, <1>2, <1>3, <1>4 DEF Sound

\* What is at least something above zero is above zero.
LEMMA MoreThanNothing ==
  ASSUME NEW x \in Fraction, NEW y \in Fraction, AtMost(x, y)
  PROVE  (x[1] >= 0 => y[1] >= 0) /\ (x[1] > 0 => y[1] > 0)
<1> PICK a \in Int, p \in Nat \ {0} : x = <<a, p>>
    BY Parts
<1> PICK b \in Int, q \in Nat \ {0} : y = <<b, q>>
    BY Parts
<1>1. a * q <= b * p
      BY DEF AtMost
<1>2. a \in Nat => a * q \in Nat
      OBVIOUS
<1>3. a \in Nat \ {0} => a * q \in Nat \ {0}
      BY ProductPositive
<1>4. ASSUME b < 0 PROVE b * p < 0
  <2>1. -b \in Nat \ {0}
        BY <1>4
  <2>2. (-b) * p \in Nat \ {0}
        BY <2>1, ProductPositive
  <2>3. (-b) * p = -(b * p)
        OBVIOUS
  <2> QED BY <2>2, <2>3
<1>5. b = 0 => b * p = 0
      OBVIOUS
<1> QED BY <1>1, <1>2, <1>3, <1>4, <1>5

\* "More units never need less of an ingredient" (package recipe).
THEOREM ResolveGrows ==
  ASSUME NEW m \in Model, Sound(m), NEW u \in Fraction, NEW v \in Fraction, u[1] >= 0, AtMost(u, v)
  PROVE  AtMost(Resolve(m, u), Resolve(m, v))
<1>1. v[1] >= 0 /\ (u[1] > 0 => v[1] > 0)
      BY MoreThanNothing
<1>2. u[1] \in Int /\ v[1] \in Int
      BY Parts
<1>3. CASE u[1] = 0
  <2>1. Resolve(m, u) = Whole(0)
        BY <1>3 DEF Resolve
  <2>2. Resolve(m, v) \in Fraction /\ Resolve(m, v)[1] >= 0
        BY <1>1, ResolveType
  <2> QED BY <2>1, <2>2, AtLeastNothing
<1>4. CASE u[1] > 0 /\ m.type = "affine"
  <2>1. m.a \in Fraction /\ m.b \in Fraction /\ m.b[1] >= 0
        BY <1>4 DEF Model, Sound
  <2>2. Resolve(m, u) = Plus(m.a, Times(m.b, u)) /\ Resolve(m, v) = Plus(m.a, Times(m.b, v))
        BY <1>1, <1>4 DEF Resolve
  <2>3. Times(m.b, u) \in Fraction /\ Times(m.b, v) \in Fraction /\ AtMost(Times(m.b, u), Times(m.b, v))
        BY <2>1, TimesType, TimesGrows
  <2> QED BY <2>1, <2>2, <2>3, AtMostSelf, PlusGrows
<1>5. CASE u[1] > 0 /\ m.type = "power"
  <2>1. m.a \in Fraction /\ m.b \in Nat /\ m.a[1] >= 0
        BY <1>5 DEF Model, Sound
  <2>2. Resolve(m, u) = Times(m.a, Power(u, m.b)) /\ Resolve(m, v) = Times(m.a, Power(v, m.b))
        BY <1>1, <1>5 DEF Resolve
  <2>3. Power(u, m.b) \in Fraction /\ Power(v, m.b) \in Fraction /\ AtMost(Power(u, m.b), Power(v, m.b))
        BY <2>1, PowerGrows
  <2> QED BY <2>1, <2>2, <2>3, TimesGrows
<1>6. CASE u[1] > 0 /\ m.type = "piecewise"
  <2>1. Curve(m) /\ v[1] > 0
        BY <1>1, <1>6 DEF Curve
  <2> PICK k, j : k = Segment(m, u) /\ j = Segment(m, v)
      OBVIOUS
  <2> PICK N : N = Len(m.points)
      OBVIOUS
  <2>2. /\ k \in 1 .. N /\ \A n \in 1 .. N : n < k => ~AtMost(u, Whole(Knot(m, n).u))
        /\ AtMost(u, Whole(Knot(m, k).u)) \/ k = N
        BY <1>6, <2>1, SegmentIs
  <2>3. j \in 1 .. N /\ (AtMost(v, Whole(Knot(m, j).u)) \/ j = N) /\ AtMost(Whole(Knot(m, j - 1).u), v)
        BY <2>1, SegmentIs
  <2>4. N \in Nat /\ \A n \in 0 .. N : Knot(m, n).u \in Int /\ Knot(m, n).amount \in Fraction
        BY <2>1, CurveKnots
  <2> PICK x, y : x = Along(Knot(m, k - 1), Knot(m, k), u) /\ y = Along(Knot(m, j - 1), Knot(m, j), v)
      OBVIOUS
  <2>5. x = Resolve(m, u) /\ y = Resolve(m, v)
        BY <1>6, <2>1 DEF Resolve
  <2>6. k <= j
    <3> SUFFICES ASSUME j < k PROVE FALSE
        BY <2>2, <2>3
    <3>1. AtMost(v, Whole(Knot(m, j).u)) /\ j \in 0 .. N
          BY <2>2, <2>3, <2>4
    <3>2. Whole(Knot(m, j).u) \in Fraction
          BY <2>4, <3>1, WholeType
    <3>3. AtMost(u, Whole(Knot(m, j).u))
          BY <3>1, <3>2, AtMostTrans
    <3> QED BY <2>2, <2>3, <3>3
  <2>7. CASE k = j
        BY <2>1, <2>2, <2>5, <2>7, CurveAt
  <2>8. CASE k # j
    <3>1. k < j /\ k # N /\ k \in Nat /\ j - 1 \in Nat /\ k <= j - 1 /\ j - 1 <= N /\ k \in 0 .. N /\ j - 1 \in 0 .. N
          BY <2>2, <2>3, <2>4, <2>6, <2>8
    <3>2. x \in Fraction /\ AtMost(x, Knot(m, k).amount)
          BY <2>1, <2>2, <3>1, CurveAt
    <3>3. y \in Fraction /\ AtMost(Knot(m, j - 1).amount, y)
          BY <2>1, <2>3, CurveAt
    <3>4. AtMost(Knot(m, k).amount, Knot(m, j - 1).amount)
          BY <2>1, <3>1, CurveRises
    <3>5. Knot(m, k).amount \in Fraction /\ Knot(m, j - 1).amount \in Fraction
          BY <2>4, <3>1
    <3>6. AtMost(x, Knot(m, j - 1).amount)
          BY <3>2, <3>4, <3>5, AtMostTrans
    <3> QED BY <2>5, <3>2, <3>3, <3>5, <3>6, AtMostTrans
  <2> QED BY <2>7, <2>8
<1> QED BY <1>2, <1>3, <1>4, <1>5, <1>6 DEF Sound

-----------------------------------------------------------------------------
\* Fits.

LEMMA IntProduct ==
  ASSUME NEW x \in Int, NEW y \in Int
  PROVE  x * y \in Int
OBVIOUS

\* On S, g is c times f.
Scaled(g, c, f, S) == c \in Int /\ \A x \in S : g[x] = c * f[x]

LEMMA SumScaled ==
  ASSUME NEW f, NEW g, NEW S, Adds(f, S), NEW c, Scaled(g, c, f, S)
  PROVE  Adds(g, S) /\ SumFunctionOnSet(g, S) = c * SumFunctionOnSet(f, S)
<1>0. c \in Int /\ \A x \in S : g[x] = c * f[x]
      BY DEF Scaled
<1> DEFINE G == {T \in SUBSET S : SumFunctionOnSet(g, T) = c * SumFunctionOnSet(f, T)}
<1>1. Adds(g, S)
  <2>1. \A x \in S : f[x] \in Int
        BY DEF Adds
  <2>2. \A x \in S : c * f[x] \in Int
    <3> TAKE x \in S
    <3>1. c \in Int /\ f[x] \in Int
          BY <1>0, <2>1
    <3> QED BY <3>1, IntProduct, Zenon
  <2>3. \A x \in S : g[x] \in Int
    <3> TAKE x \in S
    <3>1. g[x] = c * f[x] /\ c * f[x] \in Int
          BY <1>0, <2>2, Zenon
    <3> QED BY <3>1, Zenon
  <2>4. IsFiniteSet(S)
        BY DEF Adds
  <2> QED BY <2>3, <2>4 DEF Adds
<1>2. {} \in G
  <2>1. c * 0 = 0
        BY <1>0
  <2> QED BY <2>1, SumEmpty
<1>3. ASSUME NEW T \in SUBSET S, NEW x \in T, T \ {x} \in G
      PROVE  T \in G
  <2>1. Adds(f, T) /\ Adds(g, T) /\ Adds(f, T \ {x})
        BY <1>1, FS_Subset DEF Adds
  <2>2. /\ SumFunctionOnSet(f, T) = f[x] + SumFunctionOnSet(f, T \ {x})
        /\ SumFunctionOnSet(g, T) = g[x] + SumFunctionOnSet(g, T \ {x})
        BY <2>1, SumTake
  <2>3. SumFunctionOnSet(f, T \ {x}) \in Int /\ f[x] \in Int /\ g[x] = c * f[x]
        BY <1>0, <2>1, SumType DEF Adds
  <2>4. SumFunctionOnSet(g, T \ {x}) = c * SumFunctionOnSet(f, T \ {x})
        BY <1>3
  <2> PICK s \in Int, y \in Int : s = SumFunctionOnSet(f, T \ {x}) /\ y = f[x]
      BY <2>3
  <2>5. c * (y + s) = c * y + c * s
        BY <1>0
  <2>6. SumFunctionOnSet(g, T) = c * SumFunctionOnSet(f, T)
        BY <2>2, <2>3, <2>4, <2>5
  <2> QED BY <2>6
<1> HIDE DEF G
<1>4. S \in G
      BY <1>2, <1>3, SetByElements DEF Adds
<1> QED BY <1>1, <1>4 DEF G

\* On S, f is c.
Constantly(f, c, S) == c \in Int /\ \A x \in S : f[x] = c

LEMMA SumOfSame ==
  ASSUME NEW f, NEW S, IsFiniteSet(S), NEW c, Constantly(f, c, S)
  PROVE  Adds(f, S) /\ SumFunctionOnSet(f, S) = Cardinality(S) * c
<1>0. c \in Int /\ Adds(f, S) /\ \A x \in S : f[x] = c
      BY DEF Constantly, Adds
<1> DEFINE G == {T \in SUBSET S : SumFunctionOnSet(f, T) = Cardinality(T) * c}
<1>1. {} \in G
  <2>1. 0 * c = 0
        BY <1>0
  <2> QED BY <2>1, SumEmpty, FS_EmptySet
<1>2. ASSUME NEW T \in SUBSET S, NEW x \in T, T \ {x} \in G
      PROVE  T \in G
  <2>1. Adds(f, T) /\ IsFiniteSet(T)
        BY <1>0, FS_Subset DEF Adds
  <2>2. SumFunctionOnSet(f, T) = f[x] + SumFunctionOnSet(f, T \ {x})
        BY <2>1, SumTake
  <2>3. Cardinality(T) \in Nat /\ Cardinality(T \ {x}) = Cardinality(T) - 1
        BY <2>1, FS_RemoveElement, FS_CardinalityType
  <2>4. SumFunctionOnSet(f, T \ {x}) = Cardinality(T \ {x}) * c
        BY <1>2
  <2> PICK n \in Nat : n = Cardinality(T)
      BY <2>3
  <2>5. c + (n - 1) * c = n * c
        BY <1>0
  <2> QED BY <1>0, <2>2, <2>3, <2>4, <2>5
<1> HIDE DEF G
<1>3. S \in G
      BY <1>1, <1>2, SetByElements
<1> QED BY <1>0, <1>3 DEF G

LEMMA Square ==
  ASSUME NEW x \in Int
  PROVE  x * x \in Nat /\ (x # 0 => x * x > 0)
<1>1. CASE x = 0
      BY <1>1
<1>2. CASE x > 0
  <2>1. x \in Nat \ {0}
        BY <1>2
  <2> QED BY <2>1, ProductPositive
<1>3. CASE x < 0
  <2>1. -x \in Nat \ {0}
        BY <1>3
  <2>2. (-x) * (-x) = x * x
        OBVIOUS
  <2> QED BY <2>1, <2>2, ProductPositive
<1> QED BY <1>1, <1>2, <1>3

LEMMA Difference ==
  ASSUME NEW x \in Int, NEW y \in Int
  PROVE  x - y \in Int /\ (x # y => x - y # 0)
OBVIOUS

\* Numbers that are not all the same: so many times the sum of their squares is
\* more than the square of their sum.
LEMMA Spread ==
  ASSUME NEW f, NEW q, NEW S, Adds(f, S), \A x \in S : q[x] = f[x] * f[x],
         NEW x \in S, NEW y \in S, f[x] # f[y]
  PROVE  LET n == Cardinality(S)
             u == SumFunctionOnSet(f, S)
             uu == SumFunctionOnSet(q, S)
         IN  n \in Nat /\ u \in Int /\ uu \in Int /\ n * uu - u * u \in Nat \ {0}
<1> DEFINE cn == Cardinality(S)
           cu == SumFunctionOnSet(f, S)
           cq == SumFunctionOnSet(q, S)
<1>1. IsFiniteSet(S) /\ (\A z \in S : f[z] \in Int /\ q[z] = f[z] * f[z]) /\ cn \in Nat /\ cn # 0
  <2>1. cn = 0 => S = {}
        BY FS_EmptySet DEF Adds
  <2> QED BY <2>1, FS_CardinalityType DEF Adds
<1>2. \A z \in S : q[z] \in Int
  <2> TAKE z \in S
  <2> PICK v \in Int : v = f[z]
      BY <1>1
  <2>1. v * v \in Int
        OBVIOUS
  <2> QED BY <1>1, <2>1
<1>3. Adds(q, S) /\ cu \in Int /\ cq \in Int
      BY <1>1, <1>2, SumType DEF Adds
<1> HIDE DEF cn, cu, cq
<1> PICK n \in Nat, u \in Int, uu \in Int : n = cn /\ u = cu /\ uu = cq
    BY <1>1, <1>3
<1> PICK a \in Int, b \in Int, c \in Int : a = n * n /\ b = -(2 * n * u) /\ c = u * u
    OBVIOUS
<1> DEFINE dev == [z \in S |-> n * f[z] - u]
           off == [z \in S |-> dev[z] * dev[z]]
           first == [z \in S |-> a * q[z]]
           second == [z \in S |-> b * f[z]]
           third == [z \in S |-> c]
           two == [z \in S |-> first[z] + second[z]]
<1>5. Adds(first, S) /\ SumFunctionOnSet(first, S) = a * uu
  <2>1. Scaled(first, a, q, S)
        BY DEF Scaled
  <2> HIDE DEF first
  <2> QED BY <1>3, <2>1, SumScaled DEF cq
<1>6. Adds(second, S) /\ SumFunctionOnSet(second, S) = b * u
  <2>1. Scaled(second, b, f, S)
        BY DEF Scaled
  <2> HIDE DEF second
  <2> QED BY <2>1, SumScaled DEF cu
<1>7. Adds(third, S) /\ SumFunctionOnSet(third, S) = n * c
  <2>1. Constantly(third, c, S)
        BY DEF Constantly
  <2> HIDE DEF third
  <2> QED BY <1>1, <2>1, SumOfSame DEF cn
<1>8. Adds(two, S) /\ SumFunctionOnSet(two, S) = SumFunctionOnSet(first, S) + SumFunctionOnSet(second, S)
  <2>1. \A z \in S : two[z] = first[z] + second[z]
        OBVIOUS
  <2> HIDE DEF two, first, second
  <2>2. Adds(first, S) /\ Adds(second, S)
        BY <1>5, <1>6
  <2>3. Adds(two, S)
        BY <2>1, <2>2 DEF Adds
  <2> QED BY <2>1, <2>2, <2>3, SumPlus
<1>9. \A z \in S : dev[z] \in Int /\ (n * f[z] # u => dev[z] # 0) /\ off[z] = two[z] + third[z]
  <2> TAKE z \in S
  <2> PICK v \in Int : v = f[z]
      BY <1>1
  <2>1. (n * v - u) * (n * v - u) = ((n * n) * (v * v) + (-(2 * n * u)) * v) + u * u
        OBVIOUS
  <2>2. off[z] = two[z] + third[z]
        BY <1>1, <2>1
  <2> PICK w \in Int : w = n * v
      OBVIOUS
  <2>3. w - u \in Int /\ (w # u => w - u # 0)
        BY Difference
  <2>4. dev[z] = w - u
        OBVIOUS
  <2> QED BY <2>2, <2>3, <2>4
<1>10. \A z \in S : off[z] \in Nat /\ (n * f[z] # u => off[z] > 0)
  <2> TAKE z \in S
  <2>1. off[z] = dev[z] * dev[z]
        OBVIOUS
  <2> HIDE DEF off, dev
  <2> QED BY <1>9, <2>1, Square
<1> HIDE DEF dev, off, two, third, first, second
<1>11. Adds(off, S) /\ SumFunctionOnSet(off, S) = SumFunctionOnSet(two, S) + SumFunctionOnSet(third, S)
  <2>1. Adds(off, S)
        BY <1>1, <1>10 DEF Adds
  <2> QED BY <1>7, <1>8, <1>9, <2>1, SumPlus
<1>12. SumFunctionOnSet(off, S) = n * (n * uu - u * u)
  <2>1. (a * uu + b * u) + n * c = n * (n * uu - u * u)
        OBVIOUS
  <2> QED BY <1>5, <1>6, <1>7, <1>8, <1>11, <2>1
<1>13. n * f[x] # u \/ n * f[y] # u
  <2> PICK v \in Int, w \in Int : v = f[x] /\ w = f[y]
      BY <1>1
  <2>1. v < w => n * v < n * w
    <3> SUFFICES ASSUME v < w PROVE n * v < n * w
        OBVIOUS
    <3>1. w - v \in Nat \ {0} /\ n \in Nat \ {0}
          BY <1>1
    <3>2. n * (w - v) \in Nat \ {0}
          BY <3>1, ProductPositive
    <3>3. n * (w - v) = n * w - n * v /\ n * w \in Int /\ n * v \in Int
          OBVIOUS
    <3> QED BY <3>2, <3>3
  <2>2. w < v => n * w < n * v
    <3> SUFFICES ASSUME w < v PROVE n * w < n * v
        OBVIOUS
    <3>1. v - w \in Nat \ {0} /\ n \in Nat \ {0}
          BY <1>1
    <3>2. n * (v - w) \in Nat \ {0}
          BY <3>1, ProductPositive
    <3>3. n * (v - w) = n * v - n * w /\ n * w \in Int /\ n * v \in Int
          OBVIOUS
    <3> QED BY <3>2, <3>3
  <2>3. n * v \in Int /\ n * w \in Int
        OBVIOUS
  <2>4. v < w \/ w < v
        OBVIOUS
  <2>5. n * v # n * w
        BY <2>1, <2>2, <2>3, <2>4
  <2> QED BY <2>5
<1>14. \E z \in S : off[z] > 0
      BY <1>10, <1>13
<1>15. SumFunctionOnSet(off, S) > 0
  <2> PICK z \in S : off[z] > 0
      BY <1>14
  <2> DEFINE rest == S \ {z}
  <2>1. SumFunctionOnSet(off, S) = off[z] + SumFunctionOnSet(off, rest)
        BY <1>11, SumTake
  <2>2. IsFiniteSet(rest) /\ \A k \in rest : off[k] \in Nat
        BY <1>1, <1>10, FS_Subset
  <2> HIDE DEF rest
  <2>3. SumFunctionOnSet(off, rest) \in Nat /\ off[z] \in Nat
        BY <1>10, <2>2, SumPositive
  <2> QED BY <2>1, <2>3
<1>16. n * (n * uu - u * u) > 0
      BY <1>12, <1>15
<1>17. n * uu - u * u > 0
  <2> PICK d \in Int : d = n * uu - u * u
      OBVIOUS
  <2>1. n * d > 0
        BY <1>16
  <2>2. d <= 0 => n * d <= n * 0
        BY Monotone
  <2>3. n * d \in Int
        OBVIOUS
  <2> QED BY <2>1, <2>2, <2>3
<1> QED BY <1>17 DEF cn, cu, cq

LEMMA SumSome ==
  ASSUME NEW f, NEW S, IsFiniteSet(S), \A x \in S : f[x] \in Nat, NEW z \in S, f[z] > 0
  PROVE  SumFunctionOnSet(f, S) \in Nat \ {0}
<1> DEFINE rest == S \ {z}
<1>1. Adds(f, S) /\ IsFiniteSet(rest) /\ \A k \in rest : f[k] \in Nat
      BY FS_Subset DEF Adds
<1>2. SumFunctionOnSet(f, S) = f[z] + SumFunctionOnSet(f, rest)
      BY <1>1, SumTake
<1> HIDE DEF rest
<1>3. SumFunctionOnSet(f, rest) \in Nat /\ f[z] \in Nat
      BY <1>1, SumPositive
<1> QED BY <1>2, <1>3

LEMMA PointsAre ==
  ASSUME NEW points \in Seq(Point), points # <<>>
  PROVE  /\ Len(points) \in Nat \ {0} /\ DOMAIN points = 1 .. Len(points) /\ IsFiniteSet(DOMAIN points)
         /\ Cardinality(DOMAIN points) = Len(points)
         /\ \A k \in DOMAIN points : points[k].u \in Nat \ {0} /\ points[k].amount \in Nat
<1>1. /\ Len(points) \in Nat \ {0} /\ DOMAIN points = 1 .. Len(points)
      /\ \A k \in 1 .. Len(points) : points[k] \in Point
      BY SomeSequence
<1>2. IsFiniteSet(1 .. Len(points)) /\ Cardinality(1 .. Len(points)) = Len(points)
      BY <1>1, FS_Interval
<1> QED BY <1>1, <1>2 DEF Point

\* Where units differ, their spread is what least squares divides by.
LEMMA LeastSquaresType ==
  ASSUME NEW points \in Seq(Point), points # <<>>, ~(Cardinality(UnitsIn(points)) < 2)
  PROVE  LeastSquares(points).a \in Fraction /\ LeastSquares(points).b \in Fraction
<1> DEFINE cn == Len(points)
           fu == [k \in 1 .. cn |-> points[k].u]
           fq == [k \in 1 .. cn |-> points[k].amount]
           fuu == [k \in 1 .. cn |-> points[k].u * points[k].u]
           fuq == [k \in 1 .. cn |-> points[k].u * points[k].amount]
           S == DOMAIN points
<1>1. /\ cn \in Nat \ {0} /\ S = 1 .. cn /\ IsFiniteSet(S) /\ Cardinality(S) = cn
      /\ \A k \in S : points[k].u \in Nat \ {0} /\ points[k].amount \in Nat
      BY PointsAre
<1>2. \E x, y \in S : points[x].u # points[y].u
  <2> SUFFICES ASSUME \A x, y \in S : points[x].u = points[y].u PROVE FALSE
      OBVIOUS
  <2>1. 1 \in S
        BY <1>1
  <2>2. UnitsIn(points) = {points[1].u}
        BY <2>1 DEF UnitsIn
  <2>3. Cardinality({points[1].u}) = 1
        BY FS_Singleton
  <2> QED BY <2>2, <2>3
<1>3. \A k \in S : /\ fu[k] = points[k].u /\ fq[k] = points[k].amount
                   /\ fuu[k] = points[k].u * points[k].u /\ fuq[k] = points[k].u * points[k].amount
      BY <1>1
<1>4. \A k \in S : /\ fu[k] \in Int /\ fq[k] \in Int /\ fuu[k] = fu[k] * fu[k] /\ fuq[k] = fu[k] * fq[k]
      BY <1>1, <1>3
<1> HIDE DEF fu, fq, fuu, fuq, cn, S
<1>5. \A k \in S : fuq[k] \in Int
  <2> TAKE k \in S
  <2>1. fu[k] * fq[k] \in Int
        BY <1>4, IntProduct
  <2> QED BY <1>4, <2>1
<1>6. Adds(fu, S) /\ Adds(fq, S) /\ Adds(fuq, S)
      BY <1>1, <1>4, <1>5 DEF Adds
<1>7. PICK x \in S, y \in S : fu[x] # fu[y]
      BY <1>2, <1>3
<1>8. \A k \in S : fuu[k] = fu[k] * fu[k]
      BY <1>4
<1>9. LET u == SumFunctionOnSet(fu, S)
          uu == SumFunctionOnSet(fuu, S)
      IN  cn \in Nat /\ u \in Int /\ uu \in Int /\ cn * uu - u * u \in Nat \ {0}
      BY <1>1, <1>6, <1>7, <1>8, Spread
<1>10. SumFunctionOnSet(fq, S) \in Int /\ SumFunctionOnSet(fuq, S) \in Int
      BY <1>6, SumType
<1> PICK u, q, uu, uq : /\ u = SumFunctionOnSet(fu, S) /\ q = SumFunctionOnSet(fq, S)
                        /\ uu = SumFunctionOnSet(fuu, S) /\ uq = SumFunctionOnSet(fuq, S)
    OBVIOUS
<1>11. /\ u \in Int /\ q \in Int /\ uu \in Int /\ uq \in Int /\ cn \in Int
       /\ cn * uu - u * u \in Nat \ {0}
       BY <1>9, <1>10
<1>12. /\ LeastSquares(points).a = <<q * uu - u * uq, cn * uu - u * u>>
       /\ LeastSquares(points).b = <<cn * uq - u * q, cn * uu - u * u>>
       BY DEF LeastSquares, SumPoints, fu, fq, fuu, fuq, cn, S
<1>13. q * uu - u * uq \in Int /\ cn * uq - u * q \in Int
  <2>1. /\ q * uu \in Int /\ u * uq \in Int /\ cn * uq \in Int /\ u * q \in Int
        BY <1>11, IntProduct
  <2> QED BY <2>1
<1>14. /\ <<q * uu - u * uq, cn * uu - u * u>> \in Fraction
       /\ <<cn * uq - u * q, cn * uu - u * u>> \in Fraction
       BY <1>11, <1>13, FractionOf
<1> QED BY <1>12, <1>14

LEMMA ThroughOriginType ==
  ASSUME NEW points \in Seq(Point), points # <<>>
  PROVE  ThroughOrigin(points) \in Fraction
<1> DEFINE cn == Len(points)
           fuu == [k \in 1 .. cn |-> points[k].u * points[k].u]
           fuq == [k \in 1 .. cn |-> points[k].u * points[k].amount]
           S == DOMAIN points
<1>1. /\ cn \in Nat \ {0} /\ S = 1 .. cn /\ IsFiniteSet(S)
      /\ \A k \in S : points[k].u \in Nat \ {0} /\ points[k].amount \in Nat
      BY PointsAre
<1>2. \A k \in S : fuu[k] \in Nat /\ fuu[k] > 0 /\ fuq[k] \in Int
  <2> TAKE k \in S
  <2> PICK u \in Nat \ {0}, q \in Nat : u = points[k].u /\ q = points[k].amount
      BY <1>1
  <2>1. u * u \in Nat \ {0} /\ u * q \in Int
        BY ProductPositive, IntProduct
  <2>2. fuu[k] = u * u /\ fuq[k] = u * q
        BY <1>1
  <2> QED BY <2>1, <2>2
<1>3. ThroughOrigin(points) = <<SumFunctionOnSet(fuq, S), SumFunctionOnSet(fuu, S)>>
      BY DEF ThroughOrigin, SumPoints
<1>4. 1 \in S
      BY <1>1
<1> HIDE DEF fuu, fuq, S
<1>5. SumFunctionOnSet(fuu, S) \in Nat \ {0}
      BY <1>1, <1>2, <1>4, SumSome
<1>6. Adds(fuq, S)
      BY <1>1, <1>2 DEF Adds
<1> QED BY <1>3, <1>5, <1>6, SumType, FractionOf

LEMMA FitAffineType ==
  ASSUME NEW points \in Seq(Point), points # <<>>, FitAffine(points) # Refused
  PROVE  FitAffine(points) \in Model
<1>1. \A a, b \in Fraction : Affine(a, b) \in Model
      BY DEF Affine, Model
<1>2. Whole(0) \in Fraction /\ ThroughOrigin(points) \in Fraction
      BY WholeType, ThroughOriginType
<1>3. CASE Cardinality(UnitsIn(points)) < 2
      BY <1>1, <1>2, <1>3 DEF FitAffine
<1>4. CASE ~(Cardinality(UnitsIn(points)) < 2)
  <2>1. LeastSquares(points).a \in Fraction /\ LeastSquares(points).b \in Fraction
        BY <1>4, LeastSquaresType
  <2>2. \/ FitAffine(points) = Refused
        \/ FitAffine(points) = Affine(Whole(0), ThroughOrigin(points))
        \/ FitAffine(points) = Affine(LeastSquares(points).a, LeastSquares(points).b)
        BY <1>4 DEF FitAffine
  <2> QED BY <1>1, <1>2, <2>1, <2>2
<1> QED BY <1>3, <1>4

LEMMA FitPiecewiseType ==
  ASSUME NEW points \in Seq(Point), points # <<>>
  PROVE  FitPiecewise(points) \in Model
<1> DEFINE us == Ascending(UnitsIn(points))
           n == Cardinality(UnitsIn(points))
<1>1. /\ IsFiniteSet(DOMAIN points)
      /\ \A k \in DOMAIN points : points[k].u \in Nat \ {0} /\ points[k].amount \in Nat
      BY PointsAre
<1>2. UnitsIn(points) \in SUBSET Nat /\ IsFiniteSet(UnitsIn(points))
  <2> DEFINE f == [k \in DOMAIN points |-> points[k].u]
  <2>1. UnitsIn(points) = {f[k] : k \in DOMAIN points}
        BY DEF UnitsIn
  <2>2. UnitsIn(points) \in SUBSET Nat
        BY <1>1 DEF UnitsIn
  <2>3. f \in Surjection(DOMAIN points, UnitsIn(points))
        BY DEF Surjection, UnitsIn
  <2> HIDE DEF f
  <2> QED BY <1>1, <2>2, <2>3, FS_Surjection
<1>3. n \in Nat /\ DOMAIN us = 1 .. n /\ \A k \in 1 .. n : us[k] \in UnitsIn(points)
  <2> PICK S \in SUBSET Nat : S = UnitsIn(points) /\ IsFiniteSet(S)
      BY <1>2
  <2> QED BY AscendingAt
<1>4. ASSUME NEW u \in UnitsIn(points)
      PROVE  u \in Int /\ Average(points, u) \in Fraction
  <2> DEFINE here == MeasuredAt(points, u)
             f == [k \in here |-> points[k].amount]
  <2>1. here \in SUBSET DOMAIN points /\ here # {} /\ IsFiniteSet(here)
    <3>1. here \in SUBSET DOMAIN points
          BY DEF MeasuredAt
    <3>2. here # {}
          BY DEF MeasuredAt, UnitsIn
    <3> HIDE DEF here
    <3> QED BY <1>1, <3>1, <3>2, FS_Subset
  <2>2. \A k \in here : f[k] \in Int
        BY <1>1, <2>1
  <2>3. Average(points, u) = <<SumFunctionOnSet(f, here), Cardinality(here)>>
        BY DEF Average
  <2> HIDE DEF here, f
  <2>4. Adds(f, here)
        BY <2>1, <2>2 DEF Adds
  <2>5. Cardinality(here) \in Nat \ {0}
        BY <2>1, FS_EmptySet, FS_CardinalityType
  <2>6. u \in Int
        BY <1>2
  <2> QED BY <2>3, <2>4, <2>5, <2>6, SumType, FractionOf
<1> DEFINE knot(k) == [u |-> us[k], amount |-> Average(points, us[k])]
<1>5. MergeByUnits(points) = [k \in 1 .. n |-> knot(k)]
      BY <1>3 DEF MergeByUnits
<1>6. \A k \in 1 .. n : knot(k) \in [u : Int, amount : Fraction]
      BY <1>3, <1>4
<1> HIDE DEF knot, n
<1>7. MergeByUnits(points) \in Seq([u : Int, amount : Fraction])
  <2> PICK K : K = [u : Int, amount : Fraction]
      OBVIOUS
  <2>1. \A k \in 1 .. n : knot(k) \in K
        BY <1>6
  <2>2. [k \in 1 .. n |-> knot(k)] \in Seq(K)
        BY <1>3, <2>1
  <2> QED BY <1>5, <2>2
<1> QED BY <1>7 DEF FitPiecewise, Piecewise, Model

\* What may be entered or measured stands for a model, or is refused.
THEOREM ModelIs ==
  ASSUME NEW in, IsLineInput(in), ModelOf(in) # Refused
  PROVE  ModelOf(in) \in Model
<1>1. CASE in.from = "params"
      BY <1>1 DEF ModelOf, IsLineInput
<1>2. CASE in.from # "params" /\ in.type = "affine"
  <2>1. ModelOf(in) = FitAffine(in.points) /\ in.points \in Seq(Point) /\ in.points # <<>>
        BY <1>2 DEF ModelOf, IsLineInput
  <2> QED BY <2>1, FitAffineType
<1>3. CASE in.from # "params" /\ in.type # "affine"
  <2>1. ModelOf(in) = FitPiecewise(in.points) /\ in.points \in Seq(Point) /\ in.points # <<>>
        BY <1>3 DEF ModelOf, IsLineInput
  <2> QED BY <2>1, FitPiecewiseType
<1> QED BY <1>1, <1>2, <1>3

-----------------------------------------------------------------------------
\* Sums of fractions.

FractionStep(h, f, s) == IF s = {} THEN Whole(0) ELSE Plus(f[Chosen(s)], h[s \ {Chosen(s)}])
FractionSums(h, f, S) == h = [s \in SUBSET S |-> FractionStep(h, f, s)]

LEMMA FractionSumsExist ==
  ASSUME NEW f, NEW S, IsFiniteSet(S)
  PROVE  \E h : FractionSums(h, f, S)
<1> DEFINE Small(n) == {s \in SUBSET S : Cardinality(s) <= n}
           G == {n \in Nat : \E h : h = [s \in Small(n) |-> FractionStep(h, f, s)]}
<1>1. \A s \in SUBSET S : IsFiniteSet(s) /\ Cardinality(s) \in Nat
      BY FS_Subset, FS_CardinalityType
<1>2. 0 \in G
  <2>1. \A s \in Small(0) : s = {}
        BY <1>1, FS_EmptySet
  <2> DEFINE h == [s \in Small(0) |-> Whole(0)]
  <2>2. h = [s \in Small(0) |-> FractionStep(h, f, s)]
        BY <2>1 DEF FractionStep
  <2> QED BY <2>2
<1>3. ASSUME NEW n \in Nat, n \in G
      PROVE  n + 1 \in G
  <2>1. PICK g : g = [s \in Small(n) |-> FractionStep(g, f, s)]
        BY <1>3
  <2> DEFINE h == [s \in Small(n + 1) |-> IF s \in Small(n) THEN g[s] ELSE FractionStep(g, f, s)]
  <2>2. \A s \in Small(n + 1) : s # {} => s \ {Chosen(s)} \in Small(n)
    <3> TAKE s \in Small(n + 1)
    <3> HAVE s # {}
    <3>1. Chosen(s) \in s
          BY ChosenIn
    <3>2. Cardinality(s \ {Chosen(s)}) = Cardinality(s) - 1
          BY <1>1, <3>1, FS_RemoveElement
    <3> QED BY <1>1, <3>2
  <2>3. \A s \in Small(n) : s \in Small(n + 1) /\ h[s] = g[s] /\ g[s] = FractionStep(g, f, s)
    <3> TAKE s \in Small(n)
    <3>1. s \in Small(n + 1)
          BY <1>1
    <3>2. g[s] = FractionStep(g, f, s)
          BY <2>1
    <3> QED BY <3>1, <3>2
  <2>4. ASSUME NEW s \in Small(n + 1)
        PROVE  h[s] = FractionStep(g, f, s) /\ FractionStep(g, f, s) = FractionStep(h, f, s)
    <3>1. h[s] = FractionStep(g, f, s)
          BY <2>3
    <3> HIDE DEF h
    <3>2. s # {} => h[s \ {Chosen(s)}] = g[s \ {Chosen(s)}]
          BY <2>2, <2>3
    <3> QED BY <3>1, <3>2 DEF FractionStep
  <2>5. h = [s \in Small(n + 1) |-> h[s]]
        OBVIOUS
  <2> HIDE DEF h
  <2>6. h = [s \in Small(n + 1) |-> FractionStep(h, f, s)]
        BY <2>4, <2>5
  <2>7. \E k : k = [s \in Small(n + 1) |-> FractionStep(k, f, s)]
        BY <2>6
  <2> HIDE DEF Small
  <2> QED BY <2>7
<1> HIDE DEF G
<1>4. Nat \subseteq G
      BY <1>2, <1>3, NumberByOne
<1>5. Small(Cardinality(S)) = SUBSET S
      BY <1>1, FS_Subset
<1>6. Cardinality(S) \in Nat
      BY FS_CardinalityType
<1> QED BY <1>4, <1>5, <1>6 DEF G, FractionSums

LEMMA FractionSumsUnique ==
  ASSUME NEW f, NEW g, NEW S, NEW T, IsFiniteSet(S), T \subseteq S,
         NEW h, NEW k, FractionSums(h, f, S), FractionSums(k, g, T),
         \A x \in T : f[x] = g[x]
  PROVE  k[T] = h[T]
<1> DEFINE Bad == {s \in SUBSET T : h[s] # k[s]}
<1>1. IsFiniteSet(T)
      BY FS_Subset
<1>2. \A s \in SUBSET T : h[s] = FractionStep(h, f, s) /\ k[s] = FractionStep(k, g, s)
      BY DEF FractionSums
<1> SUFFICES ASSUME Bad # {} PROVE FALSE
    OBVIOUS
<1>3. PICK s \in Bad : \A v \in Bad : v \subseteq s => v = s
  <2>1. Bad \subseteq SUBSET T
        OBVIOUS
  <2> HIDE DEF Bad
  <2> QED BY <1>1, <2>1, SmallestSet
<1>4. s # {}
      BY <1>2 DEF FractionStep
<1>5. Chosen(s) \in s
      BY <1>4, ChosenIn
<1>6. h[s \ {Chosen(s)}] = k[s \ {Chosen(s)}]
      BY <1>3, <1>5
<1>7. f[Chosen(s)] = g[Chosen(s)]
      BY <1>5
<1>8. h[s] = k[s]
      BY <1>2, <1>4, <1>6, <1>7 DEF FractionStep
<1> QED BY <1>8

\* The sum over a set: one of its elements is added to the sum over the others.
LEMMA SumOfIs ==
  ASSUME NEW f, NEW S, IsFiniteSet(S)
  PROVE  /\ SumOf(f, {}) = Whole(0)
         /\ S # {} => /\ Chosen(S) \in S
                      /\ SumOf(f, S) = Plus(f[Chosen(S)], SumOf(f, S \ {Chosen(S)}))
<1>1. \A T \in SUBSET S : \E k : FractionSums(k, f, T) /\ SumOf(f, T) = k[T]
  <2> TAKE T \in SUBSET S
  <2> DEFINE k == CHOOSE k : FractionSums(k, f, T)
  <2>1. IsFiniteSet(T)
        BY FS_Subset
  <2>2. FractionSums(k, f, T)
        BY <2>1, FractionSumsExist
  <2>3. SumOf(f, T) = k[T]
        BY DEF SumOf, FoldFunctionOnSet, MapThenFoldSet, FractionSums, FractionStep, Chosen
  <2> QED BY <2>2, <2>3
<1>2. PICK h : FractionSums(h, f, S)
      BY FractionSumsExist
<1>3. \A T \in SUBSET S : SumOf(f, T) = h[T]
      BY <1>1, <1>2, FractionSumsUnique
<1>4. \A s \in SUBSET S : h[s] = FractionStep(h, f, s)
      BY <1>2 DEF FractionSums
<1>5. SumOf(f, {}) = Whole(0)
      BY <1>3, <1>4 DEF FractionStep
<1>6. ASSUME S # {}
      PROVE  Chosen(S) \in S /\ SumOf(f, S) = Plus(f[Chosen(S)], SumOf(f, S \ {Chosen(S)}))
  <2>1. Chosen(S) \in S
        BY <1>6, ChosenIn
  <2>2. S \in SUBSET S /\ S \ {Chosen(S)} \in SUBSET S
        OBVIOUS
  <2> QED BY <1>3, <1>4, <1>6, <2>1, <2>2 DEF FractionStep
<1> QED BY <1>5, <1>6

\* What holds of the empty set and of a set when it does without the chosen
\* element holds of a finite set: G are the sets of which it holds.
LEMMA SetByChosen ==
  ASSUME NEW S, IsFiniteSet(S), NEW G, {} \in G,
         \A T \in SUBSET S : T # {} /\ T \ {Chosen(T)} \in G => T \in G
  PROVE  S \in G
<1> DEFINE Bad == (SUBSET S) \ G
<1> SUFFICES ASSUME Bad # {} PROVE FALSE
    OBVIOUS
<1>1. PICK T \in Bad : \A V \in Bad : V \subseteq T => V = T
  <2>1. Bad \subseteq SUBSET S
        OBVIOUS
  <2> HIDE DEF Bad
  <2> QED BY <2>1, SmallestSet
<1>2. T # {}
      BY <1>1
<1>3. Chosen(T) \in T
      BY <1>2, ChosenIn
<1>4. T \ {Chosen(T)} \in SUBSET S /\ T \ {Chosen(T)} \notin Bad
      BY <1>1, <1>3
<1> QED BY <1>1, <1>2, <1>4

\* The values of f on S are fractions.
Amounts(f, S) == \A x \in S : f[x] \in Fraction

LEMMA SumOfType ==
  ASSUME NEW f, NEW S, IsFiniteSet(S), Amounts(f, S)
  PROVE  SumOf(f, S) \in Fraction
<1> DEFINE G == {T \in SUBSET S : SumOf(f, T) \in Fraction}
<1>1. {} \in G
  <2>1. SumOf(f, {}) = Whole(0)
        BY SumOfIs
  <2> QED BY <2>1, WholeType
<1>2. ASSUME NEW T \in SUBSET S, T # {}, T \ {Chosen(T)} \in G
      PROVE  T \in G
  <2>1. Chosen(T) \in T /\ SumOf(f, T) = Plus(f[Chosen(T)], SumOf(f, T \ {Chosen(T)}))
        BY <1>2, FS_Subset, SumOfIs
  <2>2. f[Chosen(T)] \in Fraction /\ SumOf(f, T \ {Chosen(T)}) \in Fraction
        BY <1>2, <2>1 DEF Amounts
  <2> QED BY <2>1, <2>2, PlusType
<1> HIDE DEF G
<1>3. S \in G
      BY <1>1, <1>2, SetByChosen
<1> QED BY <1>3 DEF G

LEMMA SumOfGrows ==
  ASSUME NEW f, NEW g, NEW S, IsFiniteSet(S), Amounts(f, S), Amounts(g, S),
         \A x \in S : AtMost(f[x], g[x])
  PROVE  AtMost(SumOf(f, S), SumOf(g, S))
<1> DEFINE G == {T \in SUBSET S : AtMost(SumOf(f, T), SumOf(g, T))}
<1>1. {} \in G
  <2>1. SumOf(f, {}) = Whole(0) /\ SumOf(g, {}) = Whole(0)
        BY SumOfIs
  <2> QED BY <2>1, WholeType, AtMostSelf
<1>2. ASSUME NEW T \in SUBSET S, T # {}, T \ {Chosen(T)} \in G
      PROVE  T \in G
  <2> PICK c, R : c = Chosen(T) /\ R = T \ {c}
      OBVIOUS
  <2>1. c \in T /\ SumOf(f, T) = Plus(f[c], SumOf(f, R)) /\ SumOf(g, T) = Plus(g[c], SumOf(g, R))
        BY <1>2, FS_Subset, SumOfIs
  <2>2. IsFiniteSet(R) /\ Amounts(f, R) /\ Amounts(g, R)
        BY FS_Subset DEF Amounts
  <2>3. SumOf(f, R) \in Fraction /\ SumOf(g, R) \in Fraction /\ AtMost(SumOf(f, R), SumOf(g, R))
        BY <1>2, <2>2, SumOfType
  <2>4. f[c] \in Fraction /\ g[c] \in Fraction /\ AtMost(f[c], g[c])
        BY <2>1 DEF Amounts
  <2> QED BY <2>1, <2>3, <2>4, PlusGrows
<1> HIDE DEF G
<1>3. S \in G
      BY <1>1, <1>2, SetByChosen
<1> QED BY <1>3 DEF G

LEMMA SumOfPositive ==
  ASSUME NEW f, NEW S, IsFiniteSet(S), Amounts(f, S), \A x \in S : f[x][1] >= 0
  PROVE  SumOf(f, S) \in Fraction /\ SumOf(f, S)[1] >= 0
<1> DEFINE G == {T \in SUBSET S : SumOf(f, T) \in Fraction /\ SumOf(f, T)[1] >= 0}
<1>1. {} \in G
  <2>1. SumOf(f, {}) = Whole(0)
        BY SumOfIs
  <2> QED BY <2>1, WholeType
<1>2. ASSUME NEW T \in SUBSET S, T # {}, T \ {Chosen(T)} \in G
      PROVE  T \in G
  <2> PICK c, R : c = Chosen(T) /\ R = T \ {c}
      OBVIOUS
  <2>1. c \in T /\ SumOf(f, T) = Plus(f[c], SumOf(f, R))
        BY <1>2, FS_Subset, SumOfIs
  <2>2. f[c] \in Fraction /\ f[c][1] >= 0 /\ SumOf(f, R) \in Fraction /\ SumOf(f, R)[1] >= 0
        BY <1>2, <2>1 DEF Amounts
  <2> QED BY <2>1, <2>2, SumSound
<1> HIDE DEF G
<1>3. S \in G
      BY <1>1, <1>2, SetByChosen
<1> QED BY <1>3 DEF G

-----------------------------------------------------------------------------
\* What a batch needs.

\* What is stored: sound, and with a waste factor of at least 1.
Stored(line) ==
  /\ line.model \in Model /\ Sound(line.model)
  /\ line.waste \in Fraction /\ AtMost(Whole(1), line.waste)

RecipesInv ==
  /\ DOMAIN lines = Component \X Ingredient
  /\ \A l \in Component \X Ingredient : lines[l] = NoLine \/ Stored(lines[l])
  /\ uses \in [Variant -> UsesInputs]

LEMMA WasteIs ==
  ASSUME NEW line, Stored(line)
  PROVE  line.waste \in Fraction /\ line.waste[1] >= 0
<1>1. Whole(1) \in Fraction /\ Whole(1)[1] >= 0
      BY WholeType
<1> QED BY <1>1, MoreThanNothing DEF Stored

\* What more units need of an ingredient, of one component.
LEMMA QuantityGrows ==
  ASSUME NEW line, Stored(line), NEW i, NEW u \in Fraction, NEW v \in Fraction, u[1] >= 0, AtMost(u, v)
  PROVE  Quantity(line, i, u) \in Nat /\ Quantity(line, i, v) \in Nat
         /\ Quantity(line, i, u) <= Quantity(line, i, v)
<1>1. v[1] >= 0
      BY MoreThanNothing
<1> PICK w : w = line.waste
    OBVIOUS
<1> PICK m : m = line.model
    OBVIOUS
<1>2. w \in Fraction /\ w[1] >= 0 /\ m \in Model /\ Sound(m)
      BY WasteIs DEF Stored
<1> PICK r : r = Resolve(m, u)
    OBVIOUS
<1> PICK s : s = Resolve(m, v)
    OBVIOUS
<1>3. r \in Fraction /\ r[1] >= 0 /\ s \in Fraction /\ s[1] >= 0 /\ AtMost(r, s)
      BY <1>1, <1>2, ResolveType, ResolveGrows
<1> PICK x : x = Times(r, w)
    OBVIOUS
<1> PICK y : y = Times(s, w)
    OBVIOUS
<1>4. x \in Fraction /\ x[1] >= 0 /\ y \in Fraction /\ y[1] >= 0 /\ AtMost(x, y)
      BY <1>2, <1>3, SumSound, TimesGrows
<1> PICK h : h = <<1, 2>>
    OBVIOUS
<1>5. h \in Fraction /\ h[1] >= 0 /\ AtMost(h, h)
      BY FractionOf, AtMostSelf
<1> PICK x1 : x1 = Plus(x, h)
    OBVIOUS
<1> PICK y1 : y1 = Plus(y, h)
    OBVIOUS
<1>6. x1 \in Fraction /\ x1[1] >= 0 /\ y1 \in Fraction /\ y1[1] >= 0 /\ AtMost(x1, y1)
      BY <1>4, <1>5, SumSound, PlusGrows
<1>7. Ceil(x) <= Ceil(y) /\ Floor(x1) <= Floor(y1)
      BY <1>4, <1>6, RoundingGrows
<1>8. \A z \in Fraction : z[1] >= 0 => Floor(z) \in Nat /\ Ceil(z) \in Nat
  <2> TAKE z \in Fraction
  <2> HAVE z[1] >= 0
  <2>1. Floor(z) \in Int /\ Ceil(z) \in Int
        BY FloorLargest, CeilLeast
  <2>2. 0 <= Floor(z)
        BY AtLeastNothing, FloorLargest
  <2>3. ~(Ceil(z) <= -1)
    <3> SUFFICES ASSUME Ceil(z) <= -1 PROVE FALSE
        OBVIOUS
    <3>1. AtMost(z, Whole(-1)) /\ Whole(-1) \in Fraction /\ Whole(-1)[1] = -1
          BY CeilLeast, WholeType
    <3> QED BY <3>1, MoreThanNothing
  <2> QED BY <2>1, <2>2, <2>3
<1>9. /\ Quantity(line, i, u) = IF i \in Pieces THEN Ceil(x) ELSE Floor(x1)
      /\ Quantity(line, i, v) = IF i \in Pieces THEN Ceil(y) ELSE Floor(y1)
      BY DEF Quantity
<1> QED BY <1>4, <1>6, <1>7, <1>8, <1>9

LEMMA InUseType ==
  ASSUME RecipesInv, NEW v \in Variant, NEW c
  PROVE  InUse(v, c) \in Fraction /\ InUse(v, c)[1] >= 0
<1>1. IsUses(uses[v])
  <2>1. uses[v] \in UsesInputs
        BY DEF RecipesInv
  <2>2. \A u \in UsesInputs : IsUses(u)
        BY RecipesAssumption
  <2> QED BY <2>1, <2>2
<1>2. CASE c \in DOMAIN uses[v]
  <2> PICK x : x = uses[v][c]
      OBVIOUS
  <2>1. x \in Fraction /\ x[1] > 0
        BY <1>1, <1>2 DEF IsUses
  <2>2. x[1] >= 0
        BY <2>1, Parts
  <2>3. InUse(v, c) = x
        BY <1>2 DEF InUse
  <2> QED BY <2>1, <2>2, <2>3
<1>3. CASE c \notin DOMAIN uses[v]
      BY <1>3, WholeType DEF InUse
<1> QED BY <1>2, <1>3

LEMMA UnitsGrow ==
  ASSUME RecipesInv, NEW b \in Baskets, NEW more \in Baskets, \A v \in Variant : b[v] <= more[v], NEW c
  PROVE  /\ Units(b, c) \in Fraction /\ Units(b, c)[1] >= 0 /\ Units(more, c) \in Fraction
         /\ AtMost(Units(b, c), Units(more, c))
<1> PICK f : f = [v \in Variant |-> Times(Whole(b[v]), InUse(v, c))]
    OBVIOUS
<1> PICK g : g = [v \in Variant |-> Times(Whole(more[v]), InUse(v, c))]
    OBVIOUS
<1>1. Units(b, c) = SumOf(f, Variant) /\ Units(more, c) = SumOf(g, Variant)
      BY DEF Units
<1>2. ASSUME NEW v \in Variant
      PROVE  f[v] \in Fraction /\ f[v][1] >= 0 /\ g[v] \in Fraction /\ AtMost(f[v], g[v])
  <2> PICK m : m = b[v]
      OBVIOUS
  <2> PICK n : n = more[v]
      OBVIOUS
  <2> PICK x : x = InUse(v, c)
      OBVIOUS
  <2>1. m \in Nat /\ n \in Nat /\ m <= n
        BY RecipesAssumption
  <2>2. x \in Fraction /\ x[1] >= 0
        BY InUseType
  <2>3. /\ Whole(m) \in Fraction /\ Whole(m)[1] >= 0 /\ Whole(n) \in Fraction
        /\ AtMost(Whole(m), Whole(n))
    <3>1. Whole(m) \in Fraction /\ Whole(m)[1] = m /\ Whole(n) \in Fraction
          BY <2>1, WholeType
    <3>2. m * 1 <= n * 1
          BY <2>1
    <3> QED BY <2>1, <3>1, <3>2 DEF AtMost, Whole
  <2>4. f[v] = Times(Whole(m), x) /\ g[v] = Times(Whole(n), x)
        OBVIOUS
  <2> QED BY <2>2, <2>3, <2>4, SumSound, TimesType, TimesGrows
<1>3. IsFiniteSet(Variant)
      BY RecipesAssumption
<1>4. Amounts(f, Variant) /\ Amounts(g, Variant)
      BY <1>2 DEF Amounts
<1> QED BY <1>1, <1>2, <1>3, <1>4, SumOfPositive, SumOfType, SumOfGrows

\* "More units never need less of an ingredient", of all components together.
LEMMA NeedGrows ==
  ASSUME RecipesInv, NEW b \in Baskets, NEW more \in Baskets, \A v \in Variant : b[v] <= more[v],
         NEW i \in Ingredient
  PROVE  Need(b, i) \in Nat /\ Need(more, i) \in Nat /\ Need(b, i) <= Need(more, i)
<1> PICK P : P = Makes(b, i)
    OBVIOUS
<1> PICK S : S = Makes(more, i)
    OBVIOUS
<1> PICK f : f = [c \in P |-> Part(b, i, c)]
    OBVIOUS
<1> PICK g : g = [c \in S |-> Part(more, i, c)]
    OBVIOUS
<1>1. P \subseteq S /\ S \subseteq Component
  <2>1. ASSUME NEW c \in P PROVE c \in S
    <3>1. c \in Component /\ lines[<<c, i>>] # NoLine /\ Units(b, c)[1] > 0
          BY DEF Makes
    <3>2. Units(b, c) \in Fraction /\ Units(more, c) \in Fraction /\ AtMost(Units(b, c), Units(more, c))
          BY UnitsGrow
    <3>3. Units(more, c)[1] > 0
          BY <3>1, <3>2, MoreThanNothing
    <3> QED BY <3>1, <3>3 DEF Makes
  <2> QED BY <2>1 DEF Makes
<1>2. IsFiniteSet(S) /\ IsFiniteSet(P)
      BY <1>1, RecipesAssumption, FS_Subset
<1>3. ASSUME NEW c \in S
      PROVE  Part(more, i, c) \in Nat /\ Part(b, i, c) \in Nat /\ Part(b, i, c) <= Part(more, i, c)
  <2>1. lines[<<c, i>>] # NoLine /\ c \in Component
        BY DEF Makes
  <2>2. Stored(lines[<<c, i>>])
        BY <2>1 DEF RecipesInv
  <2>3. /\ Units(b, c) \in Fraction /\ Units(b, c)[1] >= 0 /\ Units(more, c) \in Fraction
        /\ AtMost(Units(b, c), Units(more, c))
        BY UnitsGrow
  <2> QED BY <2>2, <2>3, QuantityGrows DEF Part
<1>4. Need(b, i) = SumFunctionOnSet(f, P) /\ Need(more, i) = SumFunctionOnSet(g, S)
      BY DEF Need, SumFunction, SumFunctionOnSet
<1>5. /\ \A c \in P : f[c] \in Nat /\ g[c] \in Nat /\ f[c] <= g[c]
      /\ \A c \in S : g[c] \in Nat
      BY <1>1, <1>3
<1>6. Adds(f, P) /\ Adds(g, P) /\ Adds(g, S)
      BY <1>2, <1>5 DEF Adds
<1>7. SumFunctionOnSet(f, P) <= SumFunctionOnSet(g, P)
      BY <1>5, <1>6, SumLess
<1> PICK Q : Q = S \ P
    OBVIOUS
<1>8. SumFunctionOnSet(g, S) = SumFunctionOnSet(g, P) + SumFunctionOnSet(g, Q)
  <2>1. P \cup Q = S /\ P \cap Q = {}
        BY <1>1
  <2> QED BY <1>6, <2>1, SumParts
<1>9. SumFunctionOnSet(g, Q) \in Nat
  <2>1. IsFiniteSet(Q)
        BY <1>2, FS_Subset
  <2> QED BY <1>5, <2>1, SumPositive
<1>10. SumFunctionOnSet(f, P) \in Nat /\ SumFunctionOnSet(g, S) \in Nat /\ SumFunctionOnSet(g, P) \in Nat
       BY <1>2, <1>5, SumPositive
<1> QED BY <1>4, <1>7, <1>8, <1>9, <1>10

LEMMA RecipesInitKept ==
  ASSUME RecipesInit
  PROVE  RecipesInv
BY DEF RecipesInit, RecipesInv

LEMMA RecipesNextKept ==
  ASSUME RecipesInv, [RecipesNext]_recipes
  PROVE  RecipesInv'
<1> USE DEF RecipesInv
<1>1. CASE UNCHANGED recipes
      BY <1>1 DEF recipes
<1>2. ASSUME NEW l \in Component \X Ingredient, RemoveRecipeLine(l)
      PROVE  RecipesInv'
      BY <1>2 DEF RemoveRecipeLine
<1>3. ASSUME NEW l \in Component \X Ingredient, NEW in \in LineInputs[l], SetRecipeLine(l, in)
      PROVE  RecipesInv'
  <2> PICK new : /\ new = [model |-> ModelOf(in), points |-> in.points, waste |-> in.waste,
                           version |-> lines[l].version + 1]
                 /\ Sound(new.model) /\ lines' = [lines EXCEPT ![l] = new] /\ uses' = uses
      BY <1>3 DEF SetRecipeLine
  <2>1. IsLineInput(in)
        BY RecipesAssumption
  <2>2. new.model # Refused
        BY DEF Sound, Refused
  <2>3. new.model \in Model
        BY <2>1, <2>2, ModelIs
  <2>4. Stored(new)
        BY <2>1, <2>3 DEF Stored, IsLineInput
  <2> QED BY <2>4
<1>4. ASSUME NEW v \in Variant, NEW u \in UsesInputs, SetVariantComponents(v, u)
      PROVE  RecipesInv'
      BY <1>4 DEF SetVariantComponents
<1> QED BY <1>1, <1>2, <1>3, <1>4 DEF RecipesNext, EditRecipe

\* What is stored is always sound, whatever was entered or measured.
THEOREM RecipesKept == RecipesSpec => []RecipesInv
<1>1. RecipesInit => RecipesInv
      BY RecipesInitKept
<1>2. RecipesInv /\ [RecipesNext]_recipes => RecipesInv'
      BY RecipesNextKept
<1> QED BY <1>1, <1>2, PTL DEF RecipesSpec

\* "More units never need less of an ingredient" (package recipe), and so no
\* further order makes a batch need less of anything.
THEOREM MoreNeverNeedsLess == RecipesSpec => []MoreNeverLess
<1>1. RecipesInv => MoreNeverLess
      BY NeedGrows DEF MoreNeverLess
<1> QED BY <1>1, RecipesKept, PTL

-----------------------------------------------------------------------------
\* The same number, written otherwise.

LEMMA EqualTrans ==
  ASSUME NEW x \in Fraction, NEW y \in Fraction, NEW z \in Fraction, Equal(x, y), Equal(y, z)
  PROVE  Equal(x, z) /\ Equal(z, x)
BY AtMostTrans DEF Equal

LEMMA EqualSelf ==
  ASSUME NEW x \in Fraction
  PROVE  Equal(x, x)
BY AtMostSelf DEF Equal

LEMMA PlusEqual ==
  ASSUME NEW x \in Fraction, NEW y \in Fraction, NEW z \in Fraction, NEW w \in Fraction,
         Equal(x, y), Equal(z, w)
  PROVE  Equal(Plus(x, z), Plus(y, w))
BY PlusGrows DEF Equal

LEMMA TimesEqual ==
  ASSUME NEW x \in Fraction, NEW y \in Fraction, NEW z \in Fraction, Equal(x, y), z[1] >= 0
  PROVE  Equal(Times(x, z), Times(y, z)) /\ Equal(Times(z, x), Times(z, y))
BY TimesGrows DEF Equal

LEMMA PlusSwap ==
  ASSUME NEW x \in Fraction, NEW y \in Fraction
  PROVE  Plus(x, y) = Plus(y, x)
<1>1. x[1] \in Int /\ y[1] \in Int /\ x[2] \in Int /\ y[2] \in Int
      BY Parts
<1>2. x[1] + y[1] = y[1] + x[1] /\ x[2] * y[2] = y[2] * x[2]
      BY <1>1
<1>3. x[1] * y[2] + y[1] * x[2] = y[1] * x[2] + x[1] * y[2]
      BY <1>1
<1> QED BY <1>2, <1>3 DEF Plus

LEMMA TimesSwap ==
  ASSUME NEW x \in Fraction, NEW y \in Fraction
  PROVE  Times(x, y) = Times(y, x)
<1>1. x[1] \in Int /\ y[1] \in Int /\ x[2] \in Int /\ y[2] \in Int
      BY Parts
<1>2. x[1] * y[1] = y[1] * x[1] /\ x[2] * y[2] = y[2] * x[2]
      BY <1>1
<1> QED BY <1>2 DEF Times

LEMMA TimesTwice ==
  ASSUME NEW x \in Fraction, NEW y \in Fraction, NEW z \in Fraction
  PROVE  Times(Times(x, y), z) = Times(x, Times(y, z))
<1> PICK a \in Int, p \in Nat \ {0} : x = <<a, p>>
    BY Parts
<1> PICK b \in Int, q \in Nat \ {0} : y = <<b, q>>
    BY Parts
<1> PICK c \in Int, r \in Nat \ {0} : z = <<c, r>>
    BY Parts
<1>1. (a * b) * c = a * (b * c) /\ (p * q) * r = p * (q * r)
      OBVIOUS
<1> QED BY <1>1 DEF Times

LEMMA CrossTwice ==
  ASSUME NEW x \in Fraction, NEW y \in Fraction, NEW z \in Fraction
  PROVE  Cross(Cross(x, y), z) = Cross(x, Cross(y, z))
<1> PICK a \in Int, p \in Nat \ {0} : x = <<a, p>>
    BY Parts
<1> PICK b \in Int, q \in Nat \ {0} : y = <<b, q>>
    BY Parts
<1> PICK c \in Int, r \in Nat \ {0} : z = <<c, r>>
    BY Parts
<1>1. (a * q + b * p) * r + c * (p * q) = a * (q * r) + (b * r + c * q) * p
      OBVIOUS
<1>2. (p * q) * r = p * (q * r)
      OBVIOUS
<1> QED BY <1>1, <1>2 DEF Cross

LEMMA CrossEqual ==
  ASSUME NEW x \in Fraction, NEW y \in Fraction, NEW z \in Fraction, Equal(x, y)
  PROVE  Equal(Cross(x, z), Cross(y, z)) /\ Equal(Cross(z, x), Cross(z, y))
BY CrossGrows DEF Equal

LEMMA PlusTwice ==
  ASSUME NEW x \in Fraction, NEW y \in Fraction, NEW z \in Fraction
  PROVE  Equal(Plus(Plus(x, y), z), Plus(x, Plus(y, z)))
<1>1. /\ Plus(x, y) \in Fraction /\ Cross(x, y) \in Fraction
      /\ Plus(y, z) \in Fraction /\ Cross(y, z) \in Fraction
      BY PlusType, CrossType
<1>2. /\ Cross(Plus(x, y), z) \in Fraction /\ Cross(Cross(x, y), z) \in Fraction
      /\ Cross(x, Plus(y, z)) \in Fraction /\ Cross(x, Cross(y, z)) \in Fraction
      /\ Plus(Plus(x, y), z) \in Fraction /\ Plus(x, Plus(y, z)) \in Fraction
      BY <1>1, PlusType, CrossType
<1>3. /\ Equal(Plus(Plus(x, y), z), Cross(Plus(x, y), z))
      /\ Equal(Plus(x, Plus(y, z)), Cross(x, Plus(y, z)))
      BY <1>1, PlusCross
<1>4. /\ Equal(Cross(Plus(x, y), z), Cross(Cross(x, y), z))
      /\ Equal(Cross(x, Plus(y, z)), Cross(x, Cross(y, z)))
  <2>1. Equal(Plus(x, y), Cross(x, y)) /\ Equal(Plus(y, z), Cross(y, z))
        BY PlusCross
  <2> QED BY <1>1, <2>1, CrossEqual
<1>5. Cross(Cross(x, y), z) = Cross(x, Cross(y, z))
      BY CrossTwice
<1>6. /\ Equal(Plus(Plus(x, y), z), Cross(x, Cross(y, z)))
      /\ Equal(Cross(x, Cross(y, z)), Plus(x, Plus(y, z)))
      BY <1>2, <1>3, <1>4, <1>5, EqualTrans
<1> QED BY <1>2, <1>6, EqualTrans

LEMMA TimesCross ==
  ASSUME NEW x \in Fraction, NEW y \in Fraction, NEW z \in Fraction
  PROVE  Equal(Times(x, Cross(y, z)), Cross(Times(x, y), Times(x, z)))
<1> PICK a \in Int, p \in Nat \ {0} : x = <<a, p>>
    BY Parts
<1> PICK b \in Int, q \in Nat \ {0} : y = <<b, q>>
    BY Parts
<1> PICK c \in Int, r \in Nat \ {0} : z = <<c, r>>
    BY Parts
<1> DEFINE m == (a * (b * r + c * q)) * ((p * q) * (p * r))
           n == ((a * b) * (p * r) + (a * c) * (p * q)) * (p * (q * r))
<1>1. m = n
      OBVIOUS
<1>2. m \in Int /\ n \in Int
      OBVIOUS
<1>3. AtMost(Times(x, Cross(y, z)), Cross(Times(x, y), Times(x, z))) <=> m <= n
      BY DEF AtMost, Times, Cross
<1>4. AtMost(Cross(Times(x, y), Times(x, z)), Times(x, Cross(y, z))) <=> n <= m
      BY DEF AtMost, Times, Cross
<1> HIDE DEF m, n
<1> QED BY <1>1, <1>2, <1>3, <1>4 DEF Equal

\* A product is spread over a sum.
LEMMA TimesPlus ==
  ASSUME NEW x \in Fraction, x[1] >= 0, NEW y \in Fraction, NEW z \in Fraction
  PROVE  Equal(Times(x, Plus(y, z)), Plus(Times(x, y), Times(x, z)))
<1>1. Plus(y, z) \in Fraction /\ Cross(y, z) \in Fraction /\ Times(x, y) \in Fraction /\ Times(x, z) \in Fraction
      BY PlusType, CrossType, TimesType
<1>2. /\ Times(x, Plus(y, z)) \in Fraction /\ Times(x, Cross(y, z)) \in Fraction
      /\ Cross(Times(x, y), Times(x, z)) \in Fraction /\ Plus(Times(x, y), Times(x, z)) \in Fraction
      BY <1>1, PlusType, CrossType, TimesType
<1>3. Equal(Times(x, Plus(y, z)), Times(x, Cross(y, z)))
      BY <1>1, PlusCross, TimesEqual
<1>4. Equal(Times(x, Cross(y, z)), Cross(Times(x, y), Times(x, z)))
      BY TimesCross
<1>5. Equal(Cross(Times(x, y), Times(x, z)), Plus(Times(x, y), Times(x, z)))
      BY <1>1, PlusCross DEF Equal
<1>6. Equal(Times(x, Plus(y, z)), Cross(Times(x, y), Times(x, z)))
      BY <1>2, <1>3, <1>4, EqualTrans
<1> QED BY <1>2, <1>5, <1>6, EqualTrans

\* Three, and four, in another order.
LEMMA PlusThree ==
  ASSUME NEW x \in Fraction, NEW y \in Fraction, NEW z \in Fraction
  PROVE  /\ Plus(x, Plus(y, z)) \in Fraction /\ Plus(y, Plus(x, z)) \in Fraction
         /\ Equal(Plus(x, Plus(y, z)), Plus(y, Plus(x, z)))
<1>1. /\ Plus(x, y) \in Fraction /\ Plus(y, x) \in Fraction
      /\ Plus(y, z) \in Fraction /\ Plus(x, z) \in Fraction
      BY PlusType
<1>2. /\ Plus(Plus(x, y), z) \in Fraction /\ Plus(x, Plus(y, z)) \in Fraction
      /\ Plus(Plus(y, x), z) \in Fraction /\ Plus(y, Plus(x, z)) \in Fraction
      BY <1>1, PlusType
<1>3. Plus(x, y) = Plus(y, x)
      BY PlusSwap
<1>4. Equal(Plus(x, Plus(y, z)), Plus(Plus(x, y), z)) /\ Equal(Plus(Plus(x, y), z), Plus(y, Plus(x, z)))
      BY <1>3, PlusTwice DEF Equal
<1> QED BY <1>2, <1>4, EqualTrans

LEMMA PlusFour ==
  ASSUME NEW x \in Fraction, NEW y \in Fraction, NEW z \in Fraction, NEW w \in Fraction
  PROVE  Equal(Plus(Plus(x, y), Plus(z, w)), Plus(Plus(x, z), Plus(y, w)))
<1>1. Plus(z, w) \in Fraction /\ Plus(y, w) \in Fraction
      BY PlusType
<1> PICK s : s = Plus(y, Plus(z, w))
    OBVIOUS
<1> PICK t : t = Plus(z, Plus(y, w))
    OBVIOUS
<1>2. s \in Fraction /\ t \in Fraction /\ Equal(s, t)
      BY PlusThree
<1>3. Equal(Plus(x, s), Plus(x, t)) /\ Plus(x, s) \in Fraction /\ Plus(x, t) \in Fraction
      BY <1>2, EqualSelf, PlusEqual, PlusType
<1>4. Plus(x, y) \in Fraction /\ Plus(x, z) \in Fraction
      BY PlusType
<1>5. Plus(Plus(x, y), Plus(z, w)) \in Fraction /\ Plus(Plus(x, z), Plus(y, w)) \in Fraction
      BY <1>1, <1>4, PlusType
<1>6. Equal(Plus(Plus(x, y), Plus(z, w)), Plus(x, s)) /\ Equal(Plus(x, t), Plus(Plus(x, z), Plus(y, w)))
      BY <1>1, PlusTwice DEF Equal
<1>7. Equal(Plus(Plus(x, y), Plus(z, w)), Plus(x, t))
      BY <1>3, <1>5, <1>6, EqualTrans
<1> QED BY <1>3, <1>5, <1>6, <1>7, EqualTrans

LEMMA ZeroIs ==
  ASSUME NEW x \in Fraction, x[1] = 0
  PROVE  Equal(x, Whole(0)) /\ Equal(Whole(0), x)
<1>1. x[2] \in Int /\ Whole(0)[1] = 0 /\ Whole(0)[2] = 1
      BY Parts, WholeType
<1>2. 0 * 1 <= 0 * x[2] /\ 0 * x[2] <= 0 * 1
      BY <1>1
<1> QED BY <1>1, <1>2 DEF Equal, AtMost

\* Any element may be taken.
LEMMA SumOfTake ==
  ASSUME NEW f, NEW S, IsFiniteSet(S), Amounts(f, S), NEW x \in S
  PROVE  Equal(SumOf(f, S), Plus(f[x], SumOf(f, S \ {x})))
<1> DEFINE Bad == {T \in SUBSET S : \E y \in T : ~Equal(SumOf(f, T), Plus(f[y], SumOf(f, T \ {y})))}
<1> SUFFICES ASSUME Bad # {} PROVE FALSE
    OBVIOUS
<1>1. PICK T \in Bad : \A V \in Bad : V \subseteq T => V = T
  <2>1. Bad \subseteq SUBSET S
        OBVIOUS
  <2> HIDE DEF Bad
  <2> QED BY <2>1, SmallestSet
<1>2. PICK y \in T : ~Equal(SumOf(f, T), Plus(f[y], SumOf(f, T \ {y})))
      OBVIOUS
<1> PICK c : c = Chosen(T)
    OBVIOUS
<1>3. c \in T /\ SumOf(f, T) = Plus(f[c], SumOf(f, T \ {c}))
      BY FS_Subset, SumOfIs
<1>4. \A V \in SUBSET S : Amounts(f, V) /\ IsFiniteSet(V) /\ SumOf(f, V) \in Fraction
      BY FS_Subset, SumOfType DEF Amounts
<1>5. f[c] \in Fraction /\ f[y] \in Fraction
      BY <1>3 DEF Amounts
<1>6. T \ {y} \in SUBSET S /\ T \ {c} \in SUBSET S
      OBVIOUS
<1>7. Plus(f[y], SumOf(f, T \ {y})) \in Fraction
      BY <1>4, <1>5, <1>6, PlusType
<1>8. y # c
      BY <1>2, <1>3, <1>7, EqualSelf
<1> PICK R : R = (T \ {c}) \ {y}
    OBVIOUS
<1>9. R = (T \ {y}) \ {c} /\ R \in SUBSET S
      OBVIOUS
<1>10. T \ {c} \notin Bad /\ T \ {y} \notin Bad
       BY <1>1, <1>3
<1>11. Equal(SumOf(f, T \ {c}), Plus(f[y], SumOf(f, R)))
       BY <1>8, <1>10, <1>6
<1>12. Equal(SumOf(f, T \ {y}), Plus(f[c], SumOf(f, R)))
       BY <1>3, <1>8, <1>9, <1>10, <1>6
<1> PICK a, b, r, p, q : /\ a = f[c] /\ b = f[y] /\ r = SumOf(f, R)
                         /\ p = SumOf(f, T \ {c}) /\ q = SumOf(f, T \ {y})
    OBVIOUS
<1>13. a \in Fraction /\ b \in Fraction /\ r \in Fraction /\ p \in Fraction /\ q \in Fraction
       BY <1>4, <1>5, <1>6, <1>9
<1>14. Equal(p, Plus(b, r)) /\ Equal(Plus(a, r), q)
       BY <1>11, <1>12 DEF Equal
<1>15. Plus(b, r) \in Fraction /\ Plus(a, r) \in Fraction
       BY <1>13, PlusType
<1>16. Equal(Plus(a, p), Plus(a, Plus(b, r))) /\ Equal(Plus(b, Plus(a, r)), Plus(b, q))
       BY <1>13, <1>14, <1>15, EqualSelf, PlusEqual
<1>17. /\ Equal(Plus(a, Plus(b, r)), Plus(b, Plus(a, r)))
       /\ Plus(a, Plus(b, r)) \in Fraction /\ Plus(b, Plus(a, r)) \in Fraction
       BY <1>13, PlusThree
<1>18. Plus(a, p) \in Fraction /\ Plus(b, q) \in Fraction
       BY <1>13, PlusType
<1>19. Equal(Plus(a, p), Plus(b, Plus(a, r)))
       BY <1>16, <1>17, <1>18, EqualTrans
<1>20. Equal(Plus(a, p), Plus(b, q))
       BY <1>16, <1>17, <1>18, <1>19, EqualTrans
<1> QED BY <1>2, <1>3, <1>20

LEMMA SumOfEqual ==
  ASSUME NEW f, NEW g, NEW S, IsFiniteSet(S), Amounts(f, S), Amounts(g, S),
         \A x \in S : Equal(f[x], g[x])
  PROVE  Equal(SumOf(f, S), SumOf(g, S))
BY SumOfGrows DEF Equal

LEMMA SumOfPlus ==
  ASSUME NEW f, NEW g, NEW h, NEW S, IsFiniteSet(S), Amounts(f, S), Amounts(g, S),
         \A x \in S : h[x] = Plus(f[x], g[x])
  PROVE  Equal(SumOf(h, S), Plus(SumOf(f, S), SumOf(g, S)))
<1> DEFINE G == {T \in SUBSET S : Equal(SumOf(h, T), Plus(SumOf(f, T), SumOf(g, T)))}
<1>0. Amounts(h, S)
      BY PlusType DEF Amounts
<1>1. {} \in G
  <2>1. SumOf(f, {}) = Whole(0) /\ SumOf(g, {}) = Whole(0) /\ SumOf(h, {}) = Whole(0)
        BY SumOfIs
  <2>2. Equal(Whole(0), Plus(Whole(0), Whole(0)))
        BY WholeType, PlusNothing DEF Equal
  <2> QED BY <2>1, <2>2
<1>2. ASSUME NEW T \in SUBSET S, T # {}, T \ {Chosen(T)} \in G
      PROVE  T \in G
  <2> PICK c, R : c = Chosen(T) /\ R = T \ {c}
      OBVIOUS
  <2>1. /\ c \in T /\ SumOf(f, T) = Plus(f[c], SumOf(f, R)) /\ SumOf(g, T) = Plus(g[c], SumOf(g, R))
        /\ SumOf(h, T) = Plus(h[c], SumOf(h, R))
        BY <1>2, FS_Subset, SumOfIs
  <2>2. IsFiniteSet(R) /\ Amounts(f, R) /\ Amounts(g, R) /\ Amounts(h, R)
        BY <1>0, FS_Subset DEF Amounts
  <2> PICK a, b, p, q, r : /\ a = f[c] /\ b = g[c]
                           /\ p = SumOf(f, R) /\ q = SumOf(g, R) /\ r = SumOf(h, R)
      OBVIOUS
  <2>3. a \in Fraction /\ b \in Fraction /\ p \in Fraction /\ q \in Fraction /\ r \in Fraction
        BY <2>1, <2>2, SumOfType DEF Amounts
  <2>4. Plus(a, b) \in Fraction /\ Plus(p, q) \in Fraction /\ Plus(a, p) \in Fraction /\ Plus(b, q) \in Fraction
        BY <2>3, PlusType
  <2>5. Equal(r, Plus(p, q))
        BY <1>2
  <2>6. h[c] = Plus(a, b)
        BY <2>1
  <2>7. Equal(Plus(Plus(a, b), r), Plus(Plus(a, b), Plus(p, q)))
        BY <2>3, <2>4, <2>5, EqualSelf, PlusEqual
  <2>8. Equal(Plus(Plus(a, b), Plus(p, q)), Plus(Plus(a, p), Plus(b, q)))
        BY <2>3, PlusFour
  <2>9. /\ Plus(Plus(a, b), r) \in Fraction /\ Plus(Plus(a, b), Plus(p, q)) \in Fraction
        /\ Plus(Plus(a, p), Plus(b, q)) \in Fraction
        BY <2>3, <2>4, PlusType
  <2>10. Equal(Plus(Plus(a, b), r), Plus(Plus(a, p), Plus(b, q)))
         BY <2>7, <2>8, <2>9, EqualTrans
  <2> QED BY <2>1, <2>6, <2>10
<1> HIDE DEF G
<1>3. S \in G
      BY <1>1, <1>2, SetByChosen
<1> QED BY <1>3 DEF G

\* On S, g is z times f.
TimesOf(g, z, f, S) == \A x \in S : g[x] = Times(z, f[x])

LEMMA SumOfScaled ==
  ASSUME NEW f, NEW g, NEW S, IsFiniteSet(S), Amounts(f, S),
         NEW z \in Fraction, z[1] >= 0, TimesOf(g, z, f, S)
  PROVE  Equal(SumOf(g, S), Times(z, SumOf(f, S)))
<1> DEFINE G == {T \in SUBSET S : Equal(SumOf(g, T), Times(z, SumOf(f, T)))}
<1>0. Amounts(g, S)
      BY TimesType DEF Amounts, TimesOf
<1>1. {} \in G
  <2>1. SumOf(f, {}) = Whole(0) /\ SumOf(g, {}) = Whole(0)
        BY SumOfIs
  <2>2. Times(z, Whole(0)) \in Fraction /\ Times(z, Whole(0))[1] = 0
    <3>1. z[1] \in Int
          BY Parts
    <3>2. z[1] * 0 = 0
          BY <3>1
    <3>3. Times(z, Whole(0)) \in Fraction
          BY WholeType, TimesType
    <3>4. Times(z, Whole(0))[1] = z[1] * 0
          BY DEF Times, Whole
    <3> QED BY <3>2, <3>3, <3>4
  <2> QED BY <2>1, <2>2, ZeroIs
<1>2. ASSUME NEW T \in SUBSET S, T # {}, T \ {Chosen(T)} \in G
      PROVE  T \in G
  <2> PICK c, R : c = Chosen(T) /\ R = T \ {c}
      OBVIOUS
  <2>1. c \in T /\ SumOf(f, T) = Plus(f[c], SumOf(f, R)) /\ SumOf(g, T) = Plus(g[c], SumOf(g, R))
        BY <1>2, FS_Subset, SumOfIs
  <2>2. IsFiniteSet(R) /\ Amounts(f, R) /\ Amounts(g, R)
        BY <1>0, FS_Subset DEF Amounts
  <2> PICK a, p, q : a = f[c] /\ p = SumOf(f, R) /\ q = SumOf(g, R)
      OBVIOUS
  <2>3. a \in Fraction /\ p \in Fraction /\ q \in Fraction
        BY <2>1, <2>2, SumOfType DEF Amounts
  <2>4. Equal(q, Times(z, p)) /\ g[c] = Times(z, a)
        BY <1>2, <2>1 DEF TimesOf
  <2>5. Times(z, a) \in Fraction /\ Times(z, p) \in Fraction /\ Plus(a, p) \in Fraction
        BY <2>3, TimesType, PlusType
  <2>6. Equal(Plus(Times(z, a), q), Plus(Times(z, a), Times(z, p)))
        BY <2>3, <2>4, <2>5, EqualSelf, PlusEqual
  <2>7. Equal(Plus(Times(z, a), Times(z, p)), Times(z, Plus(a, p)))
        BY <2>3, TimesPlus DEF Equal
  <2>8. /\ Plus(Times(z, a), q) \in Fraction /\ Plus(Times(z, a), Times(z, p)) \in Fraction
        /\ Times(z, Plus(a, p)) \in Fraction
        BY <2>3, <2>5, PlusType, TimesType
  <2>9. Equal(Plus(Times(z, a), q), Times(z, Plus(a, p)))
        BY <2>6, <2>7, <2>8, EqualTrans
  <2> QED BY <2>1, <2>4, <2>9
<1> HIDE DEF G
<1>3. S \in G
      BY <1>1, <1>2, SetByChosen
<1> QED BY <1>3 DEF G

\* Elements that count nothing may be left out.
LEMMA SumOfExtend ==
  ASSUME NEW f, NEW g, NEW P, NEW S, IsFiniteSet(S), P \subseteq S, Amounts(g, S),
         \A x \in P : f[x] = g[x], \A x \in S \ P : g[x][1] = 0
  PROVE  Equal(SumOf(f, P), SumOf(g, S))
<1> DEFINE G == {T \in SUBSET S : Equal(SumOf(f, P \cap T), SumOf(g, T))}
<1>0. Amounts(f, P)
      BY DEF Amounts
<1>1. {} \in G
  <2>1. SumOf(f, {}) = Whole(0) /\ SumOf(g, {}) = Whole(0) /\ P \cap {} = {}
        BY SumOfIs
  <2> QED BY <2>1, WholeType, EqualSelf
<1>2. ASSUME NEW T \in SUBSET S, NEW x \in T, T \ {x} \in G
      PROVE  T \in G
  <2> PICK R, Q, V : R = T \ {x} /\ Q = P \cap R /\ V = P \cap T
      OBVIOUS
  <2>1. /\ IsFiniteSet(R) /\ IsFiniteSet(Q) /\ IsFiniteSet(V) /\ IsFiniteSet(T)
        /\ Amounts(g, R) /\ Amounts(f, Q) /\ Amounts(f, V) /\ Amounts(g, T)
        BY <1>0, FS_Subset DEF Amounts
  <2> PICK a, p, q : a = g[x] /\ p = SumOf(f, Q) /\ q = SumOf(g, R)
      OBVIOUS
  <2>2. a \in Fraction /\ p \in Fraction /\ q \in Fraction /\ SumOf(g, T) \in Fraction /\ SumOf(f, V) \in Fraction
        BY <2>1, SumOfType DEF Amounts
  <2>3. Equal(p, q)
        BY <1>2
  <2>4. Equal(SumOf(g, T), Plus(a, q))
        BY <2>1, SumOfTake
  <2>5. Equal(Plus(a, q), SumOf(g, T))
        BY <2>4 DEF Equal
  <2>6. Plus(a, q) \in Fraction /\ Plus(a, p) \in Fraction
        BY <2>2, PlusType
  <2>7. CASE x \in P
    <3>1. x \in V /\ V \ {x} = Q /\ f[x] = a
          BY <2>7
    <3>2. Equal(SumOf(f, V), Plus(a, p))
          BY <2>1, <3>1, SumOfTake
    <3>3. Equal(Plus(a, p), Plus(a, q))
          BY <2>2, <2>3, EqualSelf, PlusEqual
    <3>4. Equal(SumOf(f, V), Plus(a, q))
          BY <2>2, <2>6, <3>2, <3>3, EqualTrans
    <3> QED BY <2>2, <2>5, <2>6, <3>4, EqualTrans
  <2>8. CASE x \notin P
    <3>1. V = Q /\ a[1] = 0
          BY <2>8
    <3>2. Equal(Whole(0), a) /\ Whole(0) \in Fraction
          BY <2>2, <3>1, ZeroIs, WholeType
    <3>3. Equal(Plus(Whole(0), q), Plus(a, q)) /\ Equal(q, Plus(Whole(0), q)) /\ Plus(Whole(0), q) \in Fraction
          BY <2>2, <3>2, EqualSelf, PlusEqual, PlusNothing, PlusType DEF Equal
    <3>4. Equal(p, Plus(Whole(0), q))
          BY <2>2, <2>3, <3>3, EqualTrans
    <3>5. Equal(p, Plus(a, q))
          BY <2>2, <2>6, <3>3, <3>4, EqualTrans
    <3>6. Equal(p, SumOf(g, T))
          BY <2>2, <2>5, <2>6, <3>5, EqualTrans
    <3> QED BY <3>1, <3>6
  <2> QED BY <2>7, <2>8
<1> HIDE DEF G
<1>3. S \in G
      BY <1>1, <1>2, SetByElements
<1>4. P \cap S = P
      OBVIOUS
<1> QED BY <1>3, <1>4 DEF G

\* A table, the sums of its rows and the sums of its columns.
Table(F, S, T) == \A x \in S : Amounts(F[x], T)
RowSums(rows, F, S, T) == \A x \in S : rows[x] = SumOf(F[x], T)
ColumnSums(cols, F, S, T) == \A y \in T : cols[y] = SumOf([x \in S |-> F[x][y]], S)

\* The rows first, or the columns first.
LEMMA SumOfExchange ==
  ASSUME NEW F, NEW S, NEW T, IsFiniteSet(S), IsFiniteSet(T), Table(F, S, T),
         NEW rows, RowSums(rows, F, S, T), NEW cols, ColumnSums(cols, F, S, T)
  PROVE  Equal(SumOf(rows, S), SumOf(cols, T))
<1> USE DEF Table, RowSums, ColumnSums
<1> DEFINE col(y) == [x \in S |-> F[x][y]]
           upto(R) == [y \in T |-> SumOf(col(y), R)]
           G == {R \in SUBSET S : Equal(SumOf(rows, R), SumOf(upto(R), T))}
<1>1. Amounts(rows, S) /\ \A y \in T : Amounts(col(y), S)
  <2>1. \A y \in T : Amounts(col(y), S)
        BY DEF Amounts
  <2> QED BY <2>1, SumOfType DEF Amounts
<1>2. \A R \in SUBSET S : Amounts(upto(R), T)
  <2> SUFFICES ASSUME NEW R \in SUBSET S, NEW y \in T PROVE SumOf(col(y), R) \in Fraction
      BY DEF Amounts
  <2>1. Amounts(col(y), R) /\ IsFiniteSet(R)
        BY <1>1, FS_Subset DEF Amounts
  <2> HIDE DEF col
  <2> QED BY <2>1, SumOfType
<1>3. {} \in G
  <2>1. SumOf(rows, {}) = Whole(0) /\ \A y \in T : upto({})[y] = Whole(0)
        BY SumOfIs
  <2> PICK g : g = upto({})
      OBVIOUS
  <2>2. Amounts(g, T) /\ \A y \in T : g[y][1] = 0
        BY <2>1, WholeType DEF Amounts
  <2>3. Equal(SumOf(g, {}), SumOf(g, T))
        BY <2>2, SumOfExtend
  <2>4. SumOf(g, {}) = Whole(0)
        BY SumOfIs
  <2> QED BY <2>1, <2>3, <2>4
<1>4. ASSUME NEW R \in SUBSET S, R # {}, R \ {Chosen(R)} \in G
      PROVE  R \in G
  <2> PICK c, Q : c = Chosen(R) /\ Q = R \ {c}
      OBVIOUS
  <2> PICK f, g, h : f = F[c] /\ g = upto(Q) /\ h = upto(R)
      OBVIOUS
  <2>1. c \in R /\ IsFiniteSet(R) /\ SumOf(rows, R) = Plus(rows[c], SumOf(rows, Q))
        BY <1>4, FS_Subset, SumOfIs
  <2>2. Amounts(f, T) /\ Amounts(g, T) /\ Amounts(h, T)
        BY <1>2, <2>1
  <2>3. \A y \in T : h[y] = Plus(f[y], g[y])
    <3> TAKE y \in T
    <3> PICK k : k = col(y)
        OBVIOUS
    <3>1. SumOf(k, R) = Plus(k[c], SumOf(k, Q))
          BY <1>4, <2>1, SumOfIs
    <3>2. k[c] = f[y]
          BY <2>1
    <3>3. h[y] = SumOf(k, R) /\ g[y] = SumOf(k, Q)
          OBVIOUS
    <3> QED BY <3>1, <3>2, <3>3
  <2>4. Equal(SumOf(h, T), Plus(SumOf(f, T), SumOf(g, T)))
        BY <2>2, <2>3, SumOfPlus
  <2>5. rows[c] = SumOf(f, T)
        BY <2>1
  <2>6. Equal(SumOf(rows, Q), SumOf(g, T))
        BY <1>4
  <2>7. Amounts(rows, Q) /\ IsFiniteSet(Q)
        BY <1>1, <2>1, FS_Subset DEF Amounts
  <2> PICK a, p, q, r : a = SumOf(f, T) /\ p = SumOf(rows, Q) /\ q = SumOf(g, T) /\ r = SumOf(h, T)
      OBVIOUS
  <2>8. a \in Fraction /\ p \in Fraction /\ q \in Fraction /\ r \in Fraction
        BY <2>2, <2>7, SumOfType
  <2>9. Equal(Plus(a, p), Plus(a, q)) /\ Plus(a, p) \in Fraction /\ Plus(a, q) \in Fraction
        BY <2>6, <2>8, EqualSelf, PlusEqual, PlusType
  <2>10. Equal(Plus(a, q), r)
         BY <2>4 DEF Equal
  <2>11. Equal(Plus(a, p), r)
         BY <2>8, <2>9, <2>10, EqualTrans
  <2> QED BY <2>1, <2>5, <2>11
<1> HIDE DEF G
<1>5. S \in G
      BY <1>3, <1>4, SetByChosen
<1> PICK g : g = upto(S)
    OBVIOUS
<1>6. Equal(SumOf(rows, S), SumOf(g, T)) /\ Amounts(g, T)
      BY <1>2, <1>5 DEF G
<1>7. \A y \in T : cols[y] = g[y]
      OBVIOUS
<1>8. Amounts(cols, T) /\ \A y \in T : Equal(g[y], cols[y])
      BY <1>6, <1>7, EqualSelf DEF Amounts
<1>9. Equal(SumOf(g, T), SumOf(cols, T))
      BY <1>6, <1>8, SumOfEqual
<1> QED BY <1>1, <1>6, <1>8, <1>9, SumOfType, EqualTrans

LEMMA SumOfWhole ==
  ASSUME NEW f, NEW g, NEW S, Adds(f, S), \A x \in S : g[x] = Whole(f[x])
  PROVE  SumOf(g, S) = Whole(SumFunctionOnSet(f, S))
<1> DEFINE G == {T \in SUBSET S : SumOf(g, T) = Whole(SumFunctionOnSet(f, T))}
<1>0. IsFiniteSet(S)
      BY DEF Adds
<1>1. {} \in G
      BY SumOfIs, SumEmpty, <1>0
<1>2. ASSUME NEW T \in SUBSET S, T # {}, T \ {Chosen(T)} \in G
      PROVE  T \in G
  <2> PICK c, R : c = Chosen(T) /\ R = T \ {c}
      OBVIOUS
  <2>1. IsFiniteSet(T) /\ IsFiniteSet(R)
        BY <1>0, FS_Subset
  <2>2. c \in T /\ SumOf(g, T) = Plus(g[c], SumOf(g, R))
        BY <1>2, <2>1, SumOfIs
  <2>3. Adds(f, T) /\ Adds(f, R)
        BY <2>1 DEF Adds
  <2> PICK a, p : a = f[c] /\ p = SumFunctionOnSet(f, R)
      OBVIOUS
  <2>4. a \in Int /\ p \in Int /\ SumFunctionOnSet(f, T) = a + p
        BY <2>2, <2>3, SumTake, SumType DEF Adds
  <2>5. g[c] = Whole(a) /\ SumOf(g, R) = Whole(p)
        BY <1>2, <2>2
  <2>6. Plus(Whole(a), Whole(p)) = Whole(a + p)
        BY <2>4 DEF Plus, Whole
  <2> QED BY <2>2, <2>4, <2>5, <2>6
<1> HIDE DEF G
<1>3. S \in G
      BY <1>0, <1>1, <1>2, SetByChosen
<1> QED BY <1>3 DEF G

-----------------------------------------------------------------------------
\* What is ordered, and what it was estimated to cost.

LEMMA TimesOne ==
  ASSUME NEW x \in Fraction
  PROVE  Times(x, Whole(1)) = x /\ Times(Whole(1), x) = x
<1> PICK a \in Int, p \in Nat \ {0} : x = <<a, p>>
    BY Parts
<1>1. a * 1 = a /\ p * 1 = p /\ 1 * a = a /\ 1 * p = p
      OBVIOUS
<1> QED BY <1>1 DEF Times, Whole

\* A line a + b*u takes at most u times what one unit takes, from one unit on.
LEMMA AffineCovers ==
  ASSUME NEW m \in Model, Sound(m), m.type = "affine", NEW u \in Fraction, AtMost(Whole(1), u)
  PROVE  AtMost(Resolve(m, u), Times(u, Resolve(m, Whole(1))))
<1> PICK a, b : a = m.a /\ b = m.b
    OBVIOUS
<1>1. a \in Fraction /\ a[1] >= 0 /\ b \in Fraction /\ b[1] >= 0
      BY DEF Model, Sound
<1>2. Whole(1) \in Fraction /\ Whole(1)[1] = 1
      BY WholeType
<1>3. u[1] > 0 /\ u[1] >= 0
      BY <1>2, MoreThanNothing
<1>4. Resolve(m, u) = Plus(a, Times(b, u))
      BY <1>3 DEF Resolve
<1>5. Resolve(m, Whole(1)) = Plus(a, b)
      BY <1>1, <1>2, TimesOne DEF Resolve
<1>6. AtMost(a, Times(u, a)) /\ Times(u, a) \in Fraction
      BY <1>1, <1>2, TimesOne, TimesGrows, TimesType
<1>7. AtMost(Times(b, u), Times(u, b)) /\ Times(u, b) \in Fraction /\ Times(b, u) \in Fraction
      BY <1>1, TimesSwap, TimesType, AtMostSelf
<1>8. AtMost(Plus(a, Times(b, u)), Plus(Times(u, a), Times(u, b)))
      BY <1>1, <1>6, <1>7, PlusGrows
<1>9. AtMost(Plus(Times(u, a), Times(u, b)), Times(u, Plus(a, b)))
      BY <1>1, <1>3, TimesPlus DEF Equal
<1>10. /\ Plus(a, Times(b, u)) \in Fraction /\ Plus(Times(u, a), Times(u, b)) \in Fraction
       /\ Times(u, Plus(a, b)) \in Fraction
  <2>1. Plus(a, b) \in Fraction
        BY <1>1, PlusType
  <2> QED BY <1>1, <1>6, <1>7, <2>1, PlusType, TimesType
<1>11. AtMost(Plus(a, Times(b, u)), Times(u, Plus(a, b)))
       BY <1>8, <1>9, <1>10, AtMostTrans
<1> QED BY <1>4, <1>5, <1>11

\* A whole number that is at most x + 1 is, less one, at most x.
LEMMA OneLess ==
  ASSUME NEW x \in Fraction, NEW n \in Int, AtMost(Whole(n), Plus(x, Whole(1)))
  PROVE  AtMost(Whole(n - 1), x)
<1>1. Whole(1) \in Fraction /\ Whole(n) \in Fraction
      BY WholeType
<1>2. AtMost(Whole(n), Cross(x, Whole(1)))
      BY <1>1, PlusType, CrossType, PlusCross, AtMostTrans DEF Equal
<1> PICK a \in Int, p \in Nat \ {0} : x = <<a, p>>
    BY Parts
<1>3. n * (p * 1) <= (a * 1 + 1 * p) * 1
      BY <1>2 DEF AtMost, Cross, Whole
<1>4. n * (p * 1) = n * p /\ (n - 1) * p = n * p - p /\ n * p \in Int /\ (a * 1 + 1 * p) * 1 = a + p
      OBVIOUS
<1>5. (n - 1) * p <= a * 1
      BY <1>3, <1>4
<1> QED BY <1>5 DEF AtMost, Whole

\* Rounded, less the rounding.
LEMMA RoundedLess ==
  ASSUME NEW x \in Fraction
  PROVE  /\ Ceil(x) \in Int /\ AtMost(Whole(Ceil(x) - 1), x)
         /\ Floor(Plus(x, <<1, 2>>)) \in Int /\ AtMost(Whole(Floor(Plus(x, <<1, 2>>)) - 1), x)
<1>1. Ceil(x) \in Int /\ AtMost(Whole(Ceil(x) - 1), x)
  <2>1. Ceil(x) \in Int
        BY CeilLeast
  <2> PICK n \in Int : n = Ceil(x) - 1
      BY <2>1
  <2>2. ~AtMost(x, Whole(n))
        BY <2>1, CeilLeast
  <2>3. Whole(n) \in Fraction
        BY WholeType
  <2> QED BY <2>1, <2>2, <2>3, AtMostEither
<1> PICK h : h = <<1, 2>>
    OBVIOUS
<1>2. h \in Fraction /\ Whole(1) \in Fraction /\ AtMost(h, Whole(1))
      BY FractionOf, WholeType DEF AtMost, Whole
<1>3. Plus(x, h) \in Fraction /\ Plus(x, Whole(1)) \in Fraction /\ AtMost(Plus(x, h), Plus(x, Whole(1)))
      BY <1>2, PlusType, PlusGrows, AtMostSelf
<1> PICK n : n = Floor(Plus(x, h))
    OBVIOUS
<1>4. n \in Int
      BY <1>3, FloorLargest
<1>5. AtMost(Whole(n), Plus(x, h)) /\ Whole(n) \in Fraction
      BY <1>3, <1>4, FloorLargest, WholeType
<1>6. AtMost(Whole(n), Plus(x, Whole(1)))
      BY <1>3, <1>5, AtMostTrans
<1> QED BY <1>1, <1>4, <1>6, OneLess

\* What one unit takes, with what is lost.
RateOf(line) == Times(Resolve(line.model, Whole(1)), line.waste)

LEMMA RateType ==
  ASSUME NEW line, Stored(line)
  PROVE  RateOf(line) \in Fraction /\ RateOf(line)[1] >= 0
<1>1. Whole(1) \in Fraction /\ Whole(1)[1] >= 0
      BY WholeType
<1> PICK m : m = line.model
    OBVIOUS
<1>2. Resolve(m, Whole(1)) \in Fraction /\ Resolve(m, Whole(1))[1] >= 0
      BY <1>1, ResolveType DEF Stored
<1> QED BY <1>2, WasteIs, SumSound DEF RateOf

LEMMA QuantityCovered ==
  ASSUME NEW line, Stored(line), line.model.type = "affine", NEW i, NEW u \in Fraction, AtMost(Whole(1), u)
  PROVE  /\ Quantity(line, i, u) \in Int
         /\ AtMost(Whole(Quantity(line, i, u) - 1), Times(u, RateOf(line)))
<1>1. Whole(1) \in Fraction /\ Whole(1)[1] = 1
      BY WholeType
<1>2. u[1] >= 0
      BY <1>1, MoreThanNothing
<1> PICK m, w, r : m = line.model /\ w = line.waste /\ r = Resolve(m, Whole(1))
    OBVIOUS
<1>3. w \in Fraction /\ w[1] >= 0 /\ m \in Model /\ Sound(m) /\ m.type = "affine"
      BY WasteIs DEF Stored
<1>4. r \in Fraction /\ r[1] >= 0
      BY <1>1, <1>3, ResolveType
<1> PICK s : s = Resolve(m, u)
    OBVIOUS
<1>5. s \in Fraction /\ AtMost(s, Times(u, r)) /\ Times(u, r) \in Fraction
      BY <1>2, <1>3, <1>4, ResolveType, AffineCovers, TimesType
<1> PICK x : x = Times(s, w)
    OBVIOUS
<1>6. x \in Fraction /\ AtMost(x, Times(Times(u, r), w))
      BY <1>3, <1>5, TimesType, TimesGrows
<1>7. Times(Times(u, r), w) = Times(u, RateOf(line)) /\ Times(u, RateOf(line)) \in Fraction
  <2>1. RateOf(line) = Times(r, w)
        BY DEF RateOf
  <2>2. Times(r, w) \in Fraction
        BY <1>3, <1>4, TimesType
  <2>3. Times(Times(u, r), w) = Times(u, Times(r, w))
        BY <1>3, <1>4, TimesTwice
  <2> QED BY <2>1, <2>2, <2>3, TimesType
<1>8. Quantity(line, i, u) = IF i \in Pieces THEN Ceil(x) ELSE Floor(Plus(x, <<1, 2>>))
      BY DEF Quantity
<1> PICK n : n = Quantity(line, i, u)
    OBVIOUS
<1>9. n \in Int /\ AtMost(Whole(n - 1), x)
      BY <1>6, <1>8, RoundedLess
<1>10. Whole(n - 1) \in Fraction
      BY <1>9, WholeType
<1> QED BY <1>6, <1>7, <1>9, <1>10, AtMostTrans

\* What a unit of a component costs for an ingredient, if it takes any.
CostFor(c, i) == IF lines[<<c, i>>] # NoLine THEN CostOf(c, i) ELSE Whole(0)

LEMMA CostType ==
  ASSUME RecipesInv, NEW c \in Component, NEW i \in Ingredient
  PROVE  /\ CostFor(c, i) \in Fraction /\ CostFor(c, i)[1] >= 0
         /\ lines[<<c, i>>] # NoLine => CostFor(c, i) = Times(RateOf(lines[<<c, i>>]), Price[i])
<1>1. CASE lines[<<c, i>>] = NoLine
      BY <1>1, WholeType DEF CostFor
<1>2. CASE lines[<<c, i>>] # NoLine
  <2> PICK r : r = RateOf(lines[<<c, i>>])
      OBVIOUS
  <2>1. Stored(lines[<<c, i>>])
        BY <1>2 DEF RecipesInv
  <2>2. r \in Fraction /\ r[1] >= 0
        BY <2>1, RateType
  <2>3. Price[i] \in Fraction /\ Price[i][1] >= 0
        BY RecipesAssumption
  <2>4. CostFor(c, i) = Times(r, Price[i])
        BY <1>2 DEF CostFor, CostOf, RateOf
  <2> QED BY <2>2, <2>3, <2>4, SumSound
<1> QED BY <1>1, <1>2

LEMMA PerUnitIs ==
  ASSUME RecipesInv, NEW c \in Component
  PROVE  /\ PerUnit(c) \in Fraction /\ PerUnit(c)[1] >= 0
         /\ Equal(SumOf([i \in Ingredient |-> CostFor(c, i)], Ingredient), PerUnit(c))
<1> PICK f, g, P : /\ P = Takes(c) /\ f = [i \in P |-> CostOf(c, i)]
                   /\ g = [i \in Ingredient |-> CostFor(c, i)]
    OBVIOUS
<1>1. P \subseteq Ingredient /\ IsFiniteSet(Ingredient) /\ IsFiniteSet(P)
  <2>1. P \subseteq Ingredient
        BY DEF Takes
  <2> QED BY <2>1, RecipesAssumption, FS_Subset
<1>2. \A i \in Ingredient : g[i] \in Fraction /\ g[i][1] >= 0
      BY CostType
<1>3. \A i \in P : f[i] = g[i]
      BY <1>1 DEF Takes, CostFor
<1>4. \A i \in Ingredient \ P : g[i][1] = 0
  <2> SUFFICES ASSUME NEW i \in Ingredient \ P PROVE g[i][1] = 0
      OBVIOUS
  <2>1. lines[<<c, i>>] = NoLine
        BY DEF Takes
  <2>2. g[i] = Whole(0)
        BY <2>1 DEF CostFor
  <2> QED BY <2>2, WholeType
<1>5. Amounts(g, Ingredient) /\ Amounts(f, P) /\ \A i \in P : f[i][1] >= 0
      BY <1>1, <1>2, <1>3 DEF Amounts
<1>6. PerUnit(c) = SumOf(f, P)
      BY DEF PerUnit
<1>7. Equal(SumOf(f, P), SumOf(g, Ingredient))
      BY <1>1, <1>3, <1>4, <1>5, SumOfExtend
<1>8. SumOf(f, P) \in Fraction /\ SumOf(f, P)[1] >= 0
      BY <1>1, <1>5, SumOfPositive
<1> QED BY <1>6, <1>7, <1>8 DEF Equal

\* What the estimate covers: lines a + b*u, and a unit of a component at least.
Affines == \A l \in DOMAIN lines : lines[l] # NoLine => lines[l].model.type = "affine"
WholeUnits(b) == \A c \in Component : Units(b, c)[1] = 0 \/ AtMost(Whole(1), Units(b, c))

LEMMA UnitsType ==
  ASSUME RecipesInv, NEW b \in Baskets, NEW c
  PROVE  Units(b, c) \in Fraction /\ Units(b, c)[1] >= 0
<1>1. \A v \in Variant : b[v] <= b[v]
  <2>1. \A v \in Variant : b[v] \in Nat
        BY RecipesAssumption
  <2> QED BY <2>1
<1> QED BY <1>1, UnitsGrow

\* What a batch needs of an ingredient, but for the rounding, costs no more than
\* its units at what one costs.
LEMMA NeedCovered ==
  ASSUME RecipesInv, NEW b \in Baskets, Affines, WholeUnits(b), NEW i \in Ingredient,
         NEW t, t = [c \in Component |-> Times(Units(b, c), CostFor(c, i))],
         NEW n, n = Need(b, i) - Cardinality(Makes(b, i))
  PROVE  /\ Amounts(t, Component) /\ n \in Int
         /\ AtMost(Times(Whole(n), Price[i]), SumOf(t, Component))
<1> PICK M : M = Makes(b, i)
    OBVIOUS
<1> PICK p : p = Price[i]
    OBVIOUS
<1>1. M \subseteq Component /\ IsFiniteSet(Component) /\ IsFiniteSet(M)
  <2>1. M \subseteq Component
        BY DEF Makes
  <2> QED BY <2>1, RecipesAssumption, FS_Subset
<1>2. p \in Fraction /\ p[1] >= 0
      BY RecipesAssumption
<1> PICK rate : rate = [c \in M |-> RateOf(lines[<<c, i>>])]
    OBVIOUS
<1> PICK q, minus, q1 : /\ q = [c \in M |-> Part(b, i, c)]
                        /\ minus = [c \in M |-> -1]
                        /\ q1 = [c \in M |-> q[c] + minus[c]]
    OBVIOUS
<1>3. ASSUME NEW c \in M
      PROVE  /\ q[c] \in Int /\ q1[c] = q[c] - 1 /\ Units(b, c) \in Fraction
             /\ rate[c] \in Fraction /\ CostFor(c, i) = Times(rate[c], p)
             /\ AtMost(Whole(q1[c]), Times(Units(b, c), rate[c]))
  <2>1. c \in Component /\ lines[<<c, i>>] # NoLine /\ Units(b, c)[1] > 0
        BY DEF Makes
  <2> PICK line, u : line = lines[<<c, i>>] /\ u = Units(b, c)
      OBVIOUS
  <2>2. Stored(line)
        BY <2>1 DEF RecipesInv
  <2>3. line.model.type = "affine"
    <3>1. <<c, i>> \in DOMAIN lines
          BY <2>1 DEF RecipesInv
    <3> QED BY <2>1, <3>1 DEF Affines
  <2>4. u \in Fraction /\ AtMost(Whole(1), u)
    <3>1. u[1] # 0
          BY <2>1
    <3> QED BY <2>1, <3>1, UnitsType DEF WholeUnits
  <2> PICK k, r : k = Quantity(line, i, u) /\ r = RateOf(line)
      OBVIOUS
  <2>5. k \in Int /\ AtMost(Whole(k - 1), Times(u, r))
        BY <2>2, <2>3, <2>4, QuantityCovered
  <2>6. q[c] = k /\ rate[c] = r
        BY DEF Part
  <2>7. r \in Fraction /\ CostFor(c, i) = Times(r, p)
        BY <2>1, <2>2, RateType, CostType
  <2>8. q1[c] = k - 1
        BY <2>5, <2>6
  <2> QED BY <2>4, <2>5, <2>6, <2>7, <2>8
<1>4. SumFunctionOnSet(q1, M) = n /\ n \in Int /\ Adds(q1, M)
  <2>1. Constantly(minus, -1, M)
        BY DEF Constantly
  <2>2. Adds(minus, M) /\ SumFunctionOnSet(minus, M) = Cardinality(M) * (-1)
        BY <1>1, <2>1, SumOfSame
  <2>3. Adds(q, M)
        BY <1>1, <1>3 DEF Adds
  <2>4. \A c \in M : q1[c] = q[c] + minus[c]
        OBVIOUS
  <2>5. SumFunctionOnSet(q1, M) = SumFunctionOnSet(q, M) + SumFunctionOnSet(minus, M)
        BY <2>2, <2>3, <2>4, SumPlus
  <2>6. Need(b, i) = SumFunctionOnSet(q, M)
        BY DEF Need, SumFunction, SumFunctionOnSet
  <2>7. SumFunctionOnSet(q, M) \in Int /\ Cardinality(M) \in Nat
        BY <1>1, <2>3, SumType, FS_CardinalityType
  <2>8. \A c \in M : q1[c] \in Int
    <3>1. \A c \in M : q[c] \in Int /\ q1[c] = q[c] - 1
          BY <1>3
    <3> QED BY <3>1
  <2>9. Adds(q1, M)
        BY <1>1, <2>8 DEF Adds
  <2> QED BY <2>2, <2>5, <2>6, <2>7, <2>9
<1> PICK w, r, s : /\ w = [c \in M |-> Whole(q1[c])]
                   /\ r = [c \in M |-> Times(Units(b, c), rate[c])]
                   /\ s = [c \in M |-> Times(p, r[c])]
    OBVIOUS
<1>5. SumOf(w, M) = Whole(n)
      BY <1>4, SumOfWhole
<1>6. Amounts(w, M) /\ Amounts(r, M) /\ Amounts(s, M)
  <2>1. Amounts(w, M)
        BY <1>4, WholeType DEF Amounts, Adds
  <2>2. Amounts(r, M)
        BY <1>3, TimesType DEF Amounts
  <2> QED BY <1>2, <2>1, <2>2, TimesType DEF Amounts
<1>7. AtMost(Whole(n), SumOf(r, M)) /\ SumOf(r, M) \in Fraction /\ Whole(n) \in Fraction
  <2>1. \A c \in M : AtMost(w[c], r[c])
        BY <1>3
  <2>2. AtMost(SumOf(w, M), SumOf(r, M))
        BY <1>1, <1>6, <2>1, SumOfGrows
  <2>3. SumOf(r, M) \in Fraction
        BY <1>1, <1>6, SumOfType
  <2> QED BY <1>4, <1>5, <2>2, <2>3, WholeType
<1> PICK z : z = SumOf(r, M)
    OBVIOUS
<1>8. AtMost(Times(Whole(n), p), Times(z, p)) /\ Times(z, p) = Times(p, z)
      BY <1>2, <1>7, TimesGrows, TimesSwap
<1>9. Equal(SumOf(s, M), Times(p, z))
  <2>1. TimesOf(s, p, r, M)
        BY DEF TimesOf
  <2> QED BY <1>1, <1>2, <1>6, <2>1, SumOfScaled
<1>10. Amounts(t, Component)
       BY UnitsType, CostType, TimesType DEF Amounts
<1>11. \A c \in M : s[c] = t[c]
  <2> TAKE c \in M
  <2> PICK u, k : u = Units(b, c) /\ k = rate[c]
      OBVIOUS
  <2>1. u \in Fraction /\ k \in Fraction /\ CostFor(c, i) = Times(k, p) /\ c \in Component
        BY <1>1, <1>3
  <2>2. Times(p, Times(u, k)) = Times(u, Times(k, p))
    <3>1. Times(u, k) \in Fraction
          BY <2>1, TimesType
    <3>2. Times(p, Times(u, k)) = Times(Times(u, k), p)
          BY <1>2, <3>1, TimesSwap
    <3> QED BY <1>2, <2>1, <3>2, TimesTwice
  <2>3. s[c] = Times(p, Times(u, k)) /\ t[c] = Times(u, CostFor(c, i))
        BY <2>1
  <2> QED BY <2>1, <2>2, <2>3
<1>12. \A c \in Component \ M : t[c][1] = 0
  <2> SUFFICES ASSUME NEW c \in Component \ M PROVE t[c][1] = 0
      OBVIOUS
  <2> PICK u, k : u = Units(b, c) /\ k = CostFor(c, i)
      OBVIOUS
  <2>1. u \in Fraction /\ u[1] >= 0 /\ k \in Fraction
        BY UnitsType, CostType
  <2>2. t[c][1] = u[1] * k[1] /\ u[1] \in Int /\ k[1] \in Int
        BY <2>1, Parts DEF Times
  <2>3. u[1] = 0 \/ k[1] = 0
    <3>1. CASE lines[<<c, i>>] = NoLine
          BY <3>1, WholeType DEF CostFor
    <3>2. CASE lines[<<c, i>>] # NoLine
      <4>1. ~(u[1] > 0)
            BY <3>2 DEF Makes
      <4> QED BY <2>1, <2>2, <4>1
    <3> QED BY <3>1, <3>2
  <2>4. 0 * k[1] = 0 /\ u[1] * 0 = 0
        BY <2>2
  <2> QED BY <2>2, <2>3, <2>4
<1>13. Equal(SumOf(s, M), SumOf(t, Component))
       BY <1>1, <1>10, <1>11, <1>12, SumOfExtend
<1>14. /\ SumOf(s, M) \in Fraction /\ SumOf(t, Component) \in Fraction
       /\ Times(p, z) \in Fraction /\ Times(Whole(n), p) \in Fraction
       BY <1>1, <1>2, <1>6, <1>7, <1>10, SumOfType, TimesType
<1>15. Equal(Times(p, z), SumOf(t, Component))
       BY <1>9, <1>13, <1>14, EqualTrans DEF Equal
<1>16. AtMost(Times(Whole(n), p), SumOf(t, Component))
       BY <1>8, <1>14, <1>15, AtMostTrans DEF Equal
<1> QED BY <1>4, <1>10, <1>16

\* Of each component, its units at what one costs; and so of all ingredients.
LEMMA CostsByComponent ==
  ASSUME RecipesInv, NEW b \in Baskets,
         NEW F, F = [i \in Ingredient |-> [c \in Component |-> Times(Units(b, c), CostFor(c, i))]],
         NEW rows, rows = [i \in Ingredient |-> SumOf(F[i], Component)],
         NEW costs, costs = [c \in Component |-> Times(Units(b, c), PerUnit(c))]
  PROVE  Amounts(costs, Component) /\ Equal(SumOf(rows, Ingredient), SumOf(costs, Component))
<1> PICK cols : cols = [c \in Component |-> SumOf([i \in Ingredient |-> F[i][c]], Ingredient)]
    OBVIOUS
<1>1. IsFiniteSet(Component) /\ IsFiniteSet(Ingredient)
      BY RecipesAssumption
<1>2. \A i \in Ingredient : Amounts(F[i], Component)
      BY UnitsType, CostType, TimesType DEF Amounts
<1>3. Equal(SumOf(rows, Ingredient), SumOf(cols, Component))
  <2>1. Table(F, Ingredient, Component) /\ RowSums(rows, F, Ingredient, Component)
        BY <1>2 DEF Table, RowSums
  <2>2. ColumnSums(cols, F, Ingredient, Component)
        BY DEF ColumnSums
  <2> QED BY <1>1, <2>1, <2>2, SumOfExchange
<1>4. ASSUME NEW c \in Component
      PROVE  cols[c] \in Fraction /\ costs[c] \in Fraction /\ Equal(cols[c], costs[c])
  <2> PICK u, f, g : /\ u = Units(b, c) /\ f = [i \in Ingredient |-> CostFor(c, i)]
                     /\ g = [i \in Ingredient |-> F[i][c]]
      OBVIOUS
  <2>1. u \in Fraction /\ u[1] >= 0
        BY UnitsType
  <2>2. Amounts(f, Ingredient) /\ Amounts(g, Ingredient)
        BY <1>2, CostType DEF Amounts
  <2>3. TimesOf(g, u, f, Ingredient)
        BY DEF TimesOf
  <2>4. Equal(SumOf(g, Ingredient), Times(u, SumOf(f, Ingredient)))
        BY <1>1, <2>1, <2>2, <2>3, SumOfScaled
  <2>5. PerUnit(c) \in Fraction /\ Equal(SumOf(f, Ingredient), PerUnit(c))
        BY PerUnitIs
  <2>6. SumOf(f, Ingredient) \in Fraction /\ SumOf(g, Ingredient) \in Fraction
        BY <1>1, <2>2, SumOfType
  <2>7. Equal(Times(u, SumOf(f, Ingredient)), Times(u, PerUnit(c)))
        BY <2>1, <2>5, <2>6, TimesEqual
  <2>8. Times(u, SumOf(f, Ingredient)) \in Fraction /\ Times(u, PerUnit(c)) \in Fraction
        BY <2>1, <2>5, <2>6, TimesType
  <2>9. Equal(SumOf(g, Ingredient), Times(u, PerUnit(c)))
        BY <2>4, <2>6, <2>7, <2>8, EqualTrans
  <2> QED BY <2>6, <2>8, <2>9
<1>5. Amounts(cols, Component) /\ Amounts(costs, Component) /\ Amounts(rows, Ingredient)
  <2>1. Amounts(rows, Ingredient)
        BY <1>1, <1>2, SumOfType DEF Amounts
  <2> QED BY <1>4, <2>1 DEF Amounts
<1>6. Equal(SumOf(cols, Component), SumOf(costs, Component))
      BY <1>1, <1>4, <1>5, SumOfEqual
<1>7. /\ SumOf(rows, Ingredient) \in Fraction /\ SumOf(cols, Component) \in Fraction
      /\ SumOf(costs, Component) \in Fraction
      BY <1>1, <1>5, SumOfType
<1> QED BY <1>3, <1>5, <1>6, <1>7, EqualTrans

\* What a variant's components cost is rounded up to what an item costs.
LEMMA PerItemIs ==
  ASSUME RecipesInv, NEW v \in Variant,
         NEW f, f = [c \in Component |-> Times(InUse(v, c), PerUnit(c))]
  PROVE  /\ Amounts(f, Component) /\ SumOf(f, Component) \in Fraction /\ PerItem(v) \in Int
         /\ AtMost(SumOf(f, Component), Whole(PerItem(v)))
<1> PICK P, g : P = DOMAIN uses[v] /\ g = [c \in P |-> Times(uses[v][c], PerUnit(c))]
    OBVIOUS
<1>1. P \subseteq Component
  <2>1. uses[v] \in UsesInputs
        BY DEF RecipesInv
  <2>2. \A u \in UsesInputs : DOMAIN u \subseteq Component
        BY RecipesAssumption DEF IsUses
  <2> QED BY <2>1, <2>2
<1>2. IsFiniteSet(Component) /\ IsFiniteSet(P)
      BY <1>1, RecipesAssumption, FS_Subset
<1>3. Amounts(f, Component)
      BY InUseType, PerUnitIs, TimesType DEF Amounts
<1>4. \A c \in P : g[c] = f[c]
      BY <1>1 DEF InUse
<1>5. \A c \in Component \ P : f[c][1] = 0
  <2> SUFFICES ASSUME NEW c \in Component \ P PROVE f[c][1] = 0
      OBVIOUS
  <2> PICK k : k = PerUnit(c)
      OBVIOUS
  <2>1. f[c] = Times(Whole(0), k)
        BY DEF InUse
  <2>2. k[1] \in Int
        BY PerUnitIs, Parts
  <2>3. 0 * k[1] = 0
        BY <2>2
  <2> QED BY <2>1, <2>3 DEF Times, Whole
<1>6. Equal(SumOf(g, P), SumOf(f, Component))
      BY <1>2, <1>1, <1>3, <1>4, <1>5, SumOfExtend
<1>7. Amounts(g, P)
      BY <1>1, <1>3, <1>4 DEF Amounts
<1>8. SumOf(f, Component) \in Fraction /\ SumOf(g, P) \in Fraction
      BY <1>2, <1>3, <1>7, SumOfType
<1> PICK x : x = SumOf(g, P)
    OBVIOUS
<1>9. PerItem(v) = Ceil(x)
      BY DEF PerItem
<1>10. Ceil(x) \in Int
       BY <1>8, CeilLeast
<1>11. AtMost(x, Whole(Ceil(x))) /\ Whole(Ceil(x)) \in Fraction
       BY <1>8, <1>10, CeilLeast, WholeType
<1>12. AtMost(SumOf(f, Component), Whole(Ceil(x)))
       BY <1>6, <1>8, <1>11, AtMostTrans DEF Equal
<1> QED BY <1>3, <1>8, <1>9, <1>10, <1>12

LEMMA WholeTimes ==
  ASSUME NEW m \in Int, NEW n \in Int
  PROVE  Times(Whole(m), Whole(n)) = Whole(m * n)
BY DEF Times, Whole

\* Of each item, what it costs; and so of all components.
LEMMA CostsByItem ==
  ASSUME RecipesInv, NEW b \in Baskets,
         NEW costs, costs = [c \in Component |-> Times(Units(b, c), PerUnit(c))]
  PROVE  AtMost(SumOf(costs, Component), Whole(Estimate(b)))
         /\ SumOf(costs, Component) \in Fraction /\ Estimate(b) \in Int
<1> PICK H : H = [c \in Component |->
                    [v \in Variant |-> Times(PerUnit(c), Times(Whole(b[v]), InUse(v, c)))]]
    OBVIOUS
<1> PICK rows, cols : /\ rows = [c \in Component |-> SumOf(H[c], Variant)]
                      /\ cols = [v \in Variant |-> SumOf([c \in Component |-> H[c][v]], Component)]
    OBVIOUS
<1>1. IsFiniteSet(Component) /\ IsFiniteSet(Variant)
      BY RecipesAssumption
<1>2. \A v \in Variant : b[v] \in Nat /\ Whole(b[v]) \in Fraction /\ Whole(b[v])[1] >= 0
  <2>1. \A v \in Variant : b[v] \in Nat
        BY RecipesAssumption
  <2> QED BY <2>1, WholeType
<1>3. ASSUME NEW c \in Component, NEW v \in Variant
      PROVE  /\ PerUnit(c) \in Fraction /\ PerUnit(c)[1] >= 0 /\ InUse(v, c) \in Fraction
             /\ Times(Whole(b[v]), InUse(v, c)) \in Fraction /\ H[c][v] \in Fraction
  <2>1. PerUnit(c) \in Fraction /\ PerUnit(c)[1] >= 0 /\ InUse(v, c) \in Fraction
        BY PerUnitIs, InUseType
  <2>2. Times(Whole(b[v]), InUse(v, c)) \in Fraction
        BY <1>2, <2>1, TimesType
  <2>3. H[c][v] = Times(PerUnit(c), Times(Whole(b[v]), InUse(v, c)))
        OBVIOUS
  <2> QED BY <2>1, <2>2, <2>3, TimesType
<1>4. \A c \in Component : Amounts(H[c], Variant)
      BY <1>3 DEF Amounts
<1>5. Equal(SumOf(rows, Component), SumOf(cols, Variant))
  <2>1. Table(H, Component, Variant) /\ RowSums(rows, H, Component, Variant)
        BY <1>4 DEF Table, RowSums
  <2>2. ColumnSums(cols, H, Component, Variant)
        BY DEF ColumnSums
  <2> QED BY <1>1, <2>1, <2>2, SumOfExchange
<1>6. ASSUME NEW c \in Component
      PROVE  rows[c] \in Fraction /\ costs[c] \in Fraction /\ Equal(rows[c], costs[c])
  <2> PICK k, u, f, h : /\ k = PerUnit(c) /\ u = Units(b, c) /\ h = H[c]
                        /\ f = [v \in Variant |-> Times(Whole(b[v]), InUse(v, c))]
      OBVIOUS
  <2>1. k \in Fraction /\ k[1] >= 0 /\ u \in Fraction
        BY PerUnitIs, UnitsType
  <2>2. Amounts(f, Variant) /\ Amounts(h, Variant)
        BY <1>3, <1>4 DEF Amounts
  <2>3. TimesOf(h, k, f, Variant)
        BY DEF TimesOf
  <2>4. Equal(SumOf(h, Variant), Times(k, SumOf(f, Variant)))
        BY <1>1, <2>1, <2>2, <2>3, SumOfScaled
  <2>5. u = SumOf(f, Variant)
        BY DEF Units
  <2>6. Times(k, u) = Times(u, k) /\ Times(u, k) \in Fraction
        BY <2>1, TimesSwap, TimesType
  <2>7. SumOf(h, Variant) \in Fraction
        BY <1>1, <2>2, SumOfType
  <2>8. rows[c] = SumOf(h, Variant) /\ costs[c] = Times(u, k)
        OBVIOUS
  <2> QED BY <2>4, <2>5, <2>6, <2>7, <2>8
<1> PICK ints : ints = [v \in Variant |-> b[v] * PerItem(v)]
    OBVIOUS
<1> PICK e : e = [v \in Variant |-> Whole(ints[v])]
    OBVIOUS
<1>7. ASSUME NEW v \in Variant
      PROVE  cols[v] \in Fraction /\ ints[v] \in Int /\ AtMost(cols[v], e[v])
  <2> PICK n, f, h : /\ n = b[v] /\ h = [c \in Component |-> H[c][v]]
                     /\ f = [c \in Component |-> Times(InUse(v, c), PerUnit(c))]
      OBVIOUS
  <2> PICK k : k = PerItem(v)
      OBVIOUS
  <2>1. Amounts(f, Component) /\ SumOf(f, Component) \in Fraction /\ k \in Int /\ AtMost(SumOf(f, Component), Whole(k))
        BY PerItemIs
  <2>2. n \in Int /\ Whole(n) \in Fraction /\ Whole(n)[1] >= 0
        BY <1>2
  <2>3. TimesOf(h, Whole(n), f, Component)
    <3> SUFFICES ASSUME NEW c \in Component PROVE h[c] = Times(Whole(n), f[c])
        BY DEF TimesOf
    <3> PICK p, x, w : p = PerUnit(c) /\ x = InUse(v, c) /\ w = Whole(n)
        OBVIOUS
    <3>1. p \in Fraction /\ x \in Fraction /\ w \in Fraction /\ Times(w, x) \in Fraction
          BY <1>3, <2>2
    <3>2. h[c] = Times(p, Times(w, x)) /\ f[c] = Times(x, p)
          OBVIOUS
    <3>3. Times(p, Times(w, x)) = Times(Times(w, x), p)
          BY <3>1, TimesSwap
    <3>4. Times(Times(w, x), p) = Times(w, Times(x, p))
          BY <3>1, TimesTwice
    <3> QED BY <3>2, <3>3, <3>4
  <2>4. Equal(SumOf(h, Component), Times(Whole(n), SumOf(f, Component)))
        BY <1>1, <2>1, <2>2, <2>3, SumOfScaled
  <2>5. Amounts(h, Component)
        BY <1>3 DEF Amounts
  <2>6. SumOf(h, Component) \in Fraction /\ Times(Whole(n), SumOf(f, Component)) \in Fraction
        BY <1>1, <2>1, <2>2, <2>5, SumOfType, TimesType
  <2>7. Whole(k) \in Fraction
        BY <2>1, WholeType
  <2>8. /\ AtMost(Times(Whole(n), SumOf(f, Component)), Times(Whole(n), Whole(k)))
        /\ Times(Whole(n), Whole(k)) \in Fraction
        BY <2>1, <2>2, <2>7, TimesGrows, TimesType
  <2>9. AtMost(SumOf(h, Component), Times(Whole(n), Whole(k)))
        BY <2>4, <2>6, <2>8, AtMostTrans DEF Equal
  <2>10. ints[v] = n * k /\ n * k \in Int
        BY <2>1, <2>2, IntProduct
  <2>11. e[v] = Times(Whole(n), Whole(k))
        BY <2>1, <2>2, <2>10, WholeTimes
  <2>12. cols[v] = SumOf(h, Component)
        OBVIOUS
  <2> QED BY <2>6, <2>9, <2>10, <2>11, <2>12
<1>8. /\ Amounts(rows, Component) /\ Amounts(costs, Component) /\ Amounts(cols, Variant)
      /\ Amounts(e, Variant) /\ Adds(ints, Variant)
  <2>1. Amounts(rows, Component) /\ Amounts(costs, Component)
        BY <1>6 DEF Amounts
  <2>2. Amounts(cols, Variant) /\ Adds(ints, Variant)
        BY <1>1, <1>7 DEF Amounts, Adds
  <2>3. \A v \in Variant : e[v] = Whole(ints[v]) /\ ints[v] \in Int
        BY <1>7
  <2>4. Amounts(e, Variant)
        BY <2>3, WholeType DEF Amounts
  <2> QED BY <2>1, <2>2, <2>4
<1>9. SumOf(e, Variant) = Whole(Estimate(b)) /\ Estimate(b) \in Int
  <2>1. Estimate(b) = SumFunctionOnSet(ints, Variant)
        BY DEF Estimate, SumFunction, SumFunctionOnSet
  <2>2. SumFunctionOnSet(ints, Variant) \in Int
        BY <1>8, SumType
  <2>3. SumOf(e, Variant) = Whole(SumFunctionOnSet(ints, Variant))
        BY <1>8, SumOfWhole
  <2> QED BY <2>1, <2>2, <2>3
<1>10. AtMost(SumOf(cols, Variant), SumOf(e, Variant))
       BY <1>1, <1>7, <1>8, SumOfGrows
<1>11. Equal(SumOf(rows, Component), SumOf(costs, Component))
       BY <1>1, <1>6, <1>8, SumOfEqual
<1>12. /\ SumOf(rows, Component) \in Fraction /\ SumOf(costs, Component) \in Fraction
       /\ SumOf(cols, Variant) \in Fraction /\ SumOf(e, Variant) \in Fraction
       BY <1>1, <1>8, SumOfType
<1>13. AtMost(SumOf(costs, Component), SumOf(cols, Variant))
       BY <1>5, <1>11, <1>12, AtMostTrans DEF Equal
<1>14. AtMost(SumOf(costs, Component), SumOf(e, Variant))
       BY <1>10, <1>12, <1>13, AtMostTrans
<1> QED BY <1>9, <1>12, <1>14

LEMMA EstimateEnough ==
  ASSUME RecipesInv, NEW b \in Baskets, Affines, WholeUnits(b),
         NEW needs, needs = [i \in Ingredient |->
                               Times(Whole(Need(b, i) - Cardinality(Makes(b, i))), Price[i])]
  PROVE  AtMost(SumOf(needs, Ingredient), Whole(Estimate(b)))
<1> PICK F : F = [i \in Ingredient |-> [c \in Component |-> Times(Units(b, c), CostFor(c, i))]]
    OBVIOUS
<1> PICK rows, costs : /\ rows = [i \in Ingredient |-> SumOf(F[i], Component)]
                       /\ costs = [c \in Component |-> Times(Units(b, c), PerUnit(c))]
    OBVIOUS
<1>1. IsFiniteSet(Component) /\ IsFiniteSet(Ingredient)
      BY RecipesAssumption
<1>2. ASSUME NEW i \in Ingredient
      PROVE  needs[i] \in Fraction /\ rows[i] \in Fraction /\ AtMost(needs[i], rows[i])
  <2> PICK t, n : t = F[i] /\ n = Need(b, i) - Cardinality(Makes(b, i))
      OBVIOUS
  <2>1. t = [c \in Component |-> Times(Units(b, c), CostFor(c, i))]
        OBVIOUS
  <2>2. /\ Amounts(t, Component) /\ n \in Int
        /\ AtMost(Times(Whole(n), Price[i]), SumOf(t, Component))
        BY <2>1, NeedCovered
  <2>3. SumOf(t, Component) \in Fraction
        BY <1>1, <2>2, SumOfType
  <2>4. Whole(n) \in Fraction /\ Price[i] \in Fraction
        BY <2>2, WholeType, RecipesAssumption
  <2>5. Times(Whole(n), Price[i]) \in Fraction
        BY <2>4, TimesType
  <2>6. needs[i] = Times(Whole(n), Price[i]) /\ rows[i] = SumOf(t, Component)
        OBVIOUS
  <2> QED BY <2>2, <2>3, <2>5, <2>6
<1>3. Amounts(needs, Ingredient) /\ Amounts(rows, Ingredient)
      BY <1>2 DEF Amounts
<1>4. AtMost(SumOf(needs, Ingredient), SumOf(rows, Ingredient))
      BY <1>1, <1>2, <1>3, SumOfGrows
<1>5. Amounts(costs, Component) /\ Equal(SumOf(rows, Ingredient), SumOf(costs, Component))
      BY CostsByComponent
<1>6. /\ AtMost(SumOf(costs, Component), Whole(Estimate(b))) /\ SumOf(costs, Component) \in Fraction
      /\ Estimate(b) \in Int
      BY CostsByItem
<1>7. /\ SumOf(needs, Ingredient) \in Fraction /\ SumOf(rows, Ingredient) \in Fraction
      /\ Whole(Estimate(b)) \in Fraction
      BY <1>1, <1>3, <1>6, SumOfType, WholeType
<1>8. AtMost(SumOf(needs, Ingredient), SumOf(costs, Component))
      BY <1>4, <1>5, <1>6, <1>7, AtMostTrans DEF Equal
<1> QED BY <1>6, <1>7, <1>8, AtMostTrans

\* The estimate a DP has to cover is enough for what the order alone takes, but
\* for the rounding (IngredientCosts).
THEOREM EstimateIsEnough == RecipesSpec => []EstimateCovers
<1>1. RecipesInv => EstimateCovers
  <2> SUFFICES ASSUME RecipesInv, NEW b \in Baskets, Affines, WholeUnits(b)
               PROVE  AtMost(SumOf([i \in Ingredient |->
                               Times(Whole(Need(b, i) - Cardinality(Makes(b, i))), Price[i])], Ingredient),
                             Whole(Estimate(b)))
      BY DEF EstimateCovers, Affines, WholeUnits
  <2> QED BY EstimateEnough
<1> QED BY <1>1, RecipesKept, PTL

=============================================================================
