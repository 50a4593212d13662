------------------------------- MODULE Quotes -------------------------------
(***************************************************************************)
(* Checkout.Quote: what an order would be, all worked out by the server:   *)
(* its schedule or the pickup to offer instead, its down payment and the   *)
(* "Biaya admin" of every way to pay.  Nothing is saved: one step, the     *)
(* answer, to any cart at any time from a shop with any calendar.          *)
(*                                                                         *)
(* Of a cart (price, ingredientCost) what counts is its total, what its    *)
(* ingredients cost, and its items' longest production time and notice.    *)
(***************************************************************************)
EXTENDS Integers, Schedule, Fees

CONSTANTS
  Asks,       \* now, pickup, production, notice, total, ingredients
  Calendars,  \* the shop's closed dates and its batches' cutoffs
  Settings,   \* buffer, opens, closes
  Policies,   \* percent, coversCost, balanceHours, validFor, dpMinTotal, minOrder
  Rules       \* the fee rules of the methods it takes

ASSUME QuotesAssumption ==
  /\ \A a \in Asks :
       /\ a.now \in Int /\ a.pickup \in Int /\ a.notice \in Nat
       /\ a.production \in 1 .. Day   \* at most four hours in the catalog
       /\ a.total \in Nat \ {0} /\ a.ingredients \in Nat
  /\ \A c \in Calendars : \A d \in DOMAIN c.cutoffs : c.cutoffs[d] \in Int
  /\ \A s \in Settings : s.buffer \in Nat /\ s.opens \in Nat /\ s.closes \in Nat
  /\ \A p \in Policies :
       /\ p.percent \in 1 .. 100 /\ p.coversCost \in BOOLEAN
       /\ p.balanceHours \in Nat /\ p.validFor \in Nat /\ p.validFor >= MinWindow
       /\ p.dpMinTotal \in Nat /\ p.minOrder \in Nat
  /\ \A r \in Rules : FeeRuleOK(r)

VARIABLES
  ask,        \* what was asked last
  calendar, settings, policy,   \* the shop's, as they were then
  quote       \* the answer

vars == <<ask, calendar, settings, policy, quote>>

\* The answer before anything was asked.
Blank == [result |-> "none"]

-----------------------------------------------------------------------------
\* The days a quote reads the calendar of: the day before the pickup asked
\* for, and suggestHorizon + 1 days more.
Window(a) == DateOf(a.pickup) - 1 .. DateOf(a.pickup) + SuggestDays + 1

RequestOf(a, c, p) ==
  [now |-> a.now, pickup |-> a.pickup, production |-> a.production, notice |-> a.notice,
   closed |-> c.closed, cutoffs |-> c.cutoffs,
   balanceHours |-> p.balanceHours, validFor |-> p.validFor]

\* The part of a calendar that a quote for a reads.
Loaded(a, c) ==
  [closed |-> c.closed \cap Window(a),
   cutoffs |-> [d \in DOMAIN c.cutoffs \cap Window(a) |-> c.cutoffs[d]]]

\* Fault: a small order may still be paid with a DP.
PaysInFull_BySchedule(p, a, plan) == plan.mustPayInFull

PaysInFull(p, a, plan) == a.total < p.dpMinTotal \/ plan.mustPayInFull

\* Every enabled way to pay, with its fee on the DP and on the whole.
PaymentOptions(total, dp, full) ==
  {[rule |-> r, fullFee |-> Fee(r, total), dpFee |-> IF full THEN 0 ELSE Fee(r, dp)] : r \in Rules}

Accepted(a, p, plan) ==
  LET full == PaysInFull(p, a, plan)
      dp == IF full THEN a.total ELSE DPRequired(p, a.total, a.ingredients)
  IN  [result |-> "accepted", plan |-> plan, dp |-> dp, mustPayInFull |-> full,
       options |-> PaymentOptions(a.total, dp, full)]

Quote(a, c, s, p) ==
  LET r == RequestOf(a, Loaded(a, c), p)
  IN  IF a.total < p.minOrder THEN [result |-> "too_small"]
      ELSE IF ~Accepts(s, r) THEN [result |-> "refused", suggestion |-> Suggest(s, r)]
      ELSE Accepted(a, p, Plan(s, r))

Init ==
  /\ ask \in Asks /\ calendar \in Calendars /\ settings \in Settings /\ policy \in Policies
  /\ quote = Blank

\* The quote is worked out and sent.
Ask ==
  /\ quote = Blank
  /\ quote' = Quote(ask, calendar, settings, policy)
  /\ UNCHANGED <<ask, calendar, settings, policy>>

Next == Ask

Spec == Init /\ [][Next]_vars

-----------------------------------------------------------------------------
\* Properties.

\* What Plan promises always (plan.go): there is time to pay the DP, it ends
\* before the kitchen shops, shopping before baking, baking before the
\* pickup, and the balance is due before baking starts.
PlanOrdered ==
  quote.result = "accepted" =>
    LET p == quote.plan
    IN  /\ ask.now < p.dpDue /\ p.dpDue <= p.cutoff
        /\ p.cutoff <= p.start /\ p.start <= p.pickup
        /\ p.balanceDue <= p.start
        /\ \A d \in DOMAIN calendar.cutoffs : d = p.date => p.cutoff <= calendar.cutoffs[d]

\* No cake is promised for, or baked on, a day the shop is closed.
ClosedDaysFree ==
  quote.result = "accepted" =>
    DateOf(quote.plan.pickup) \notin calendar.closed /\ quote.plan.date \notin calendar.closed

\* The terms locked at checkout hang together: the DP is a part of the total
\* that the policy asks for, covers the ingredients when it must, and comes
\* due before the balance; or else everything is paid at once.
TermsHold ==
  quote.result = "accepted" =>
    /\ quote.dp \in 1 .. ask.total
    /\ quote.dp * 100 >= ask.total * policy.percent
    /\ policy.coversCost => quote.dp >= Smaller(ask.ingredients, ask.total)
    /\ quote.mustPayInFull => quote.dp = ask.total
    /\ ~quote.mustPayInFull =>
         quote.plan.dpDue < quote.plan.balanceDue /\ ask.total >= policy.dpMinTotal

\* What the provider leaves the shop of each payment is the whole amount, and
\* a rupiah less from the customer would not do; QRIS is free of charge (Fee).
FeeIsLeast ==
  quote.result = "accepted" =>
    \A o \in quote.options :
      IF o.rule.method = "qris" THEN o.fullFee = 0 /\ o.dpFee = 0
      ELSE /\ o.fullFee >= 0
           /\ Kept(o.rule, ask.total + o.fullFee) >= ask.total
           /\ \A f \in 0 .. o.fullFee - 1 : Kept(o.rule, ask.total + f) < ask.total
           /\ ~quote.mustPayInFull =>
                /\ Kept(o.rule, quote.dp + o.dpFee) >= quote.dp
                /\ \A f \in 0 .. o.dpFee - 1 : Kept(o.rule, quote.dp + f) < quote.dp

\* A pickup the shop, with its whole calendar, would take.
Works(t) == Accepts(settings, [RequestOf(ask, calendar, policy) EXCEPT !.pickup = t])

\* Whether t is as asked for but for its day: at the time of day wished, or as
\* soon after it as the notice allows, on the day wished or a later one.
AsWished(t) ==
  LET r == RequestOf(ask, calendar, policy)
      first == RoundUp(Earliest(r))
  IN  /\ t >= first /\ DateOf(t) >= DateOf(ask.pickup)
      /\ \/ TimeOfDay(t) = WishedTime(settings, r)
         \/ t = first /\ TimeOfDay(t) > WishedTime(settings, r)

\* A refused customer is offered the nearest pickup of the kind asked for that
\* works, and goes away without one only if none works: while the days tried
\* are the ones read (Suggest).
SuggestionNearest ==
  LET r == RequestOf(ask, calendar, policy)
      days == FirstDay(r) .. FirstDay(r) + SuggestDays
      nearest == {t \in FirstDay(r) * Day .. (FirstDay(r) + SuggestDays + 1) * Day - 1 :
                    AsWished(t) /\ Works(t)}
  IN  quote.result = "refused" /\ days \subseteq Window(ask) =>
        IF nearest = {} THEN quote.suggestion = NoPickup
        ELSE quote.suggestion \in nearest /\ \A t \in nearest : quote.suggestion <= t

\* "Suggestion, when set, is the nearest pickup that works" (checkout.go), for
\* every cart, also those with a notice of up to 90 days.
SuggestionWorks ==
  quote.result = "refused" /\ quote.suggestion # NoPickup => Works(quote.suggestion)

=============================================================================
