------------------------------ MODULE Schedule ------------------------------
(***************************************************************************)
(* When an order can be picked up, and when the kitchen must shop, bake    *)
(* and be paid for it (package scheduling).  Times are whole minutes of    *)
(* the shop's wall clock.  Nothing here has state.                         *)
(*                                                                         *)
(* A request r has: now, pickup, the longest production time among the     *)
(* items in minutes, the longest notice in hours, the closed dates, the    *)
(* earliest shopping cutoff of each date that has committed orders, and    *)
(* from the payment policy balanceHours and validFor.  Settings s have the *)
(* shopping buffer in hours and the times of day the shop opens and closes *)
(* for pickups.  The daily capacity is left out: checkout gives Plan no    *)
(* load, and with no load no day is full.                                  *)
(***************************************************************************)
EXTENDS Integers, Payments

CONSTANTS
  Day, Hour,      \* their length in minutes
  MinWindow,      \* minPaymentWindow: the least time to pay before a cutoff
  MaxAdvance,     \* how far ahead a pickup may be
  SuggestDays,    \* how many days after the requested one are tried
  SuggestStep     \* a suggestion is a time of day a person would pick

ASSUME ScheduleAssumption ==
  /\ Day \in Nat \ {0} /\ Hour \in Nat \ {0} /\ SuggestStep \in Nat \ {0}
  /\ MinWindow \in Nat \ {0} /\ MaxAdvance \in Nat /\ SuggestDays \in Nat

TimeOfDay(t) == t % Day
DateOf(t) == t \div Day

-----------------------------------------------------------------------------
\* Plan.

Start(r) == r.pickup - r.production

Earliest(r) == r.now + r.notice * Hour

\* The shopping cutoff of the order's batch with the order in it.
Cutoff(s, r) ==
  LET own == Start(r) - s.buffer * Hour
      date == DateOf(Start(r))
  IN  IF date \in DOMAIN r.cutoffs THEN Smaller(r.cutoffs[date], own) ELSE own

\* The shop is open the day the order is picked up and the day it is baked.
OpenDays(r) == DateOf(r.pickup) \notin r.closed /\ DateOf(Start(r)) \notin r.closed

\* The customer has time to pay before the kitchen shops.
Payable(s, r) == Cutoff(s, r) - r.now >= MinWindow

\* Whether Plan takes the pickup time, or refuses it for some reason.
Accepts(s, r) ==
  /\ r.pickup - r.now <= MaxAdvance
  /\ r.pickup >= Earliest(r)
  /\ TimeOfDay(r.pickup) \in s.opens .. s.closes
  /\ OpenDays(r)
  /\ Payable(s, r)

\* Fault: the invoice outlives the cutoff.
DPDeadline_Full(s, r) == r.now + r.validFor

\* When the first payment's invoice expires.
DPDeadline(s, r) == Smaller(r.now + r.validFor, Cutoff(s, r))

BalanceDue(r) == Start(r) - r.balanceHours * Hour

\* The schedule of an accepted order, locked at checkout.
Plan(s, r) ==
  [pickup |-> r.pickup, start |-> Start(r), date |-> DateOf(Start(r)),
   cutoff |-> Cutoff(s, r), dpDue |-> DPDeadline(s, r), balanceDue |-> BalanceDue(r),
   mustPayInFull |-> BalanceDue(r) <= DPDeadline(s, r)]

-----------------------------------------------------------------------------
\* Suggest.

RoundUp(t) == CeilDiv(t, SuggestStep) * SuggestStep

\* The first time a suggestion may be for, and the first day.
FirstTime(r) == RoundUp(Earliest(r))
FirstDay(r) == Larger(DateOf(r.pickup), DateOf(FirstTime(r)))

\* The time of day asked for, kept within pickup hours.
WishedTime(s, r) == Smaller(Larger(TimeOfDay(r.pickup), s.opens), s.closes)

\* The pickup tried on the k-th day.
Candidate(s, r, k) ==
  Larger((FirstDay(r) + k) * Day + WishedTime(s, r), FirstTime(r))

\* Fault: the last day is not tried.
Tried_OneLess(s, r) == 0 .. SuggestDays - 1

Tried(s, r) == 0 .. SuggestDays

\* The days whose candidate stays on its day, in pickup hours, and is accepted.
Fitting(s, r) ==
  {k \in Tried(s, r) :
     LET at == Candidate(s, r, k)
     IN  /\ TimeOfDay(at) <= s.closes
         /\ DateOf(at) = FirstDay(r) + k
         /\ Accepts(s, [r EXCEPT !.pickup = at])}

NoPickup == -1

\* The pickup to offer instead, or none.
Suggest(s, r) ==
  IF Fitting(s, r) = {} THEN NoPickup
  ELSE Candidate(s, r, CHOOSE k \in Fitting(s, r) : \A l \in Fitting(s, r) : k <= l)

=============================================================================
