------------------------------ MODULE Checkout ------------------------------
(***************************************************************************)
(* Placing orders (Checkout.Place): requests race twins of themselves and  *)
(* other requests of the same customer, and the batches they want to join. *)
(*                                                                         *)
(* A request is a handler running in the API.  It looks for the order of   *)
(* its idempotency key, works out a quote, and then in one transaction     *)
(* takes the customer's advisory lock, looks again, counts the customer's  *)
(* unpaid orders and inserts.  Each of those is a step; the others may act *)
(* between them.  The handler may stop at any step, or its answer may be   *)
(* lost, and the client then sends the same request again.                 *)
(*                                                                         *)
(* What becomes of an order is here only what checkout sees of it: it      *)
(* waits for its DP, counts for production, or does neither any more.      *)
(* Orders has the rest.  Only the schedule of a quote is needed; Quotes    *)
(* has the rest of it.                                                     *)
(***************************************************************************)
EXTENDS Integers, FiniteSets, Schedule

CONSTANTS
  Request,    \* checkout requests
  Sent,       \* of each: customer, key, pickup, production
  Settings,   \* buffer, opens, closes
  ValidFor,   \* how long a DP invoice stays open
  MaxUnpaid,  \* maxAwaitingDP
  MaxTries,   \* bound: how often a client sends a request
  MaxTime     \* bound: where the clock stops

Nobody == "nobody"

ASSUME CheckoutAssumption ==
  /\ IsFiniteSet(Request) /\ Nobody \notin Request
  /\ MaxUnpaid \in Nat \ {0} /\ MaxTries \in Nat /\ MaxTime \in Nat

Customer == {Sent[r].customer : r \in Request}

\* The production dates the requests are about.
Dates == {DateOf(Sent[r].pickup - Sent[r].production) : r \in Request}

VARIABLES
  clock,
  pc,       \* what each request does next
  tries,    \* how often it was sent
  plan,     \* the schedule it was quoted
  answer,   \* what it was told: an order, by the request that placed it, or why not
  order,    \* the order each request placed, if any
  holder,   \* who has the lock of each customer
  batch     \* of each production date

vars == <<clock, pc, tries, plan, answer, order, holder, batch>>

NoOrder == [status |-> "none"]
NoPlan == [date |-> -1]

-----------------------------------------------------------------------------
SameKey(r, p) == Sent[r].customer = Sent[p].customer /\ Sent[r].key = Sent[p].key

\* The order placed with the request's key (FindByIdempotencyKey).
Existing(r) == {p \in Request : order[p].status # "none" /\ SameKey(r, p)}

\* The customer's orders that wait for their DP (CountByStatus).
Unpaid(c) == {p \in Request : order[p].status = "awaiting_dp" /\ Sent[p].customer = c}

\* The orders the batch of a date is made of (CountsForProduction).
Committed(d) == {p \in Request : order[p].status = "confirmed" /\ order[p].date = d}

\* The earliest cutoff of each date that has any (BatchCutoffs).
BatchCutoffs ==
  [d \in {e \in Dates : Committed(e) # {}} |->
     CHOOSE c \in {order[p].cutoff : p \in Committed(d)} :
       \A p \in Committed(d) : c <= order[p].cutoff]

\* The items need no notice, no day is closed and the balance can wait.
Asked(r) ==
  [now |-> clock, pickup |-> Sent[r].pickup, production |-> Sent[r].production,
   notice |-> 0, closed |-> {}, cutoffs |-> BatchCutoffs,
   balanceHours |-> 0, validFor |-> ValidFor]

Init ==
  /\ clock = 0
  /\ pc = [r \in Request |-> "idle"]
  /\ tries = [r \in Request |-> 0]
  /\ plan = [r \in Request |-> NoPlan]
  /\ answer = [r \in Request |-> "none"]
  /\ order = [r \in Request |-> NoOrder]
  /\ holder = [c \in Customer |-> Nobody]
  /\ batch = [d \in Dates |-> "none"]

Tick ==
  /\ clock < MaxTime
  /\ clock' = clock + 1
  /\ UNCHANGED <<pc, tries, plan, answer, order, holder, batch>>

-----------------------------------------------------------------------------
\* Requests.

\* The request is over; the customer is told a, and its quote is forgotten.
Answers(r, a) ==
  /\ pc' = [pc EXCEPT ![r] = "answered"]
  /\ answer' = [answer EXCEPT ![r] = a]
  /\ plan' = [plan EXCEPT ![r] = NoPlan]

\* The end of the transaction lets go of the lock.
Unlock(r) == holder' = [holder EXCEPT ![Sent[r].customer] = Nobody]

\* Fault: a refusal keeps the transaction, and the lock, open.
Refuses_Locked(r) == Answers(r, "too_many_unpaid") /\ UNCHANGED holder

Refuses(r) == Answers(r, "too_many_unpaid") /\ Unlock(r)

\* Place starts: the key is looked up before anything else.
Send(r) ==
  /\ pc[r] = "idle" /\ tries[r] < MaxTries
  /\ tries' = [tries EXCEPT ![r] = @ + 1]
  /\ IF Existing(r) # {}
     THEN \E p \in Existing(r) : Answers(r, p)
     ELSE /\ pc' = [pc EXCEPT ![r] = "quoting"]
          /\ UNCHANGED <<answer, plan>>
  /\ UNCHANGED <<clock, order, holder, batch>>

\* The quote, from what is committed at the time and without a lock.
GetQuote(r) ==
  /\ pc[r] = "quoting"
  /\ IF Accepts(Settings, Asked(r))
     THEN /\ plan' = [plan EXCEPT ![r] = Plan(Settings, Asked(r))]
          /\ pc' = [pc EXCEPT ![r] = "waiting"]
          /\ UNCHANGED answer
     ELSE Answers(r, "refused")
  /\ UNCHANGED <<clock, tries, order, holder, batch>>

\* Fault: nobody is waited for.
LockFree_Always(r) == TRUE

LockFree(r) == holder[Sent[r].customer] = Nobody

\* LockCustomer.
Lock(r) ==
  /\ pc[r] = "waiting"
  /\ LockFree(r)
  /\ holder' = [holder EXCEPT ![Sent[r].customer] = r]
  /\ pc' = [pc EXCEPT ![r] = "checking"]
  /\ UNCHANGED <<clock, tries, plan, answer, order, batch>>

\* Fault: a twin that came first is not looked for.
Twin_Never(r) == {}

\* The order a twin placed in the meantime.
Twin(r) == Existing(r)

TooMany(r) == Cardinality(Unpaid(Sent[r].customer)) >= MaxUnpaid

\* Under the lock: the key again, and then the limit.
Check(r) ==
  /\ pc[r] = "checking"
  /\ IF Twin(r) # {} THEN (\E p \in Twin(r) : Answers(r, p)) /\ Unlock(r)
     ELSE IF TooMany(r) THEN Refuses(r)
     ELSE pc' = [pc EXCEPT ![r] = "inserting"] /\ UNCHANGED <<answer, plan, holder>>
  /\ UNCHANGED <<clock, tries, order, batch>>

\* The order goes in as it was quoted, and the transaction commits.  The
\* database refuses a second order with the same key.
Insert(r) ==
  /\ pc[r] = "inserting"
  /\ IF Existing(r) # {}
     THEN Answers(r, "failed") /\ UNCHANGED order
     ELSE /\ order' = [order EXCEPT ![r] =
                         [status |-> "awaiting_dp", date |-> plan[r].date,
                          cutoff |-> plan[r].cutoff]]
          /\ Answers(r, r)
  /\ Unlock(r)
  /\ UNCHANGED <<clock, tries, batch>>

\* The handler stops, or its answer is lost; an open transaction is rolled
\* back.  The client may send the request again.
Lose(r) ==
  /\ pc[r] # "idle"
  /\ pc' = [pc EXCEPT ![r] = "idle"]
  /\ answer' = [answer EXCEPT ![r] = "none"]
  /\ plan' = [plan EXCEPT ![r] = NoPlan]
  /\ IF pc[r] \in {"checking", "inserting"} THEN Unlock(r) ELSE UNCHANGED holder
  /\ UNCHANGED <<clock, tries, order, batch>>

-----------------------------------------------------------------------------
\* What staff and the worker make of the orders and batches.

Becomes(p, to) ==
  /\ order' = [order EXCEPT ![p].status = to]
  /\ UNCHANGED <<clock, pc, tries, plan, answer, holder, batch>>

\* A recorded payment confirms the order, deadline or no deadline.
Confirm(p) == order[p].status = "awaiting_dp" /\ Becomes(p, "confirmed")

\* Staff cancels, or ExpireUnpaid does once the DP is overdue.
Expire(p) == order[p].status = "awaiting_dp" /\ Becomes(p, "expired")

\* Staff refunds, or ForfeitUnpaid ends it.
Cancel(p) == order[p].status = "confirmed" /\ Becomes(p, "cancelled")

\* Recompute makes the batch of a date with its first order.
OpenBatch(d) ==
  /\ batch[d] = "none" /\ Committed(d) # {}
  /\ batch' = [batch EXCEPT ![d] = "open"]
  /\ UNCHANGED <<clock, pc, tries, plan, answer, order, holder>>

\* LockDue locks it once its cutoff has passed.
LockDue(d) ==
  /\ batch[d] = "open"
  /\ d \in DOMAIN BatchCutoffs /\ BatchCutoffs[d] <= clock
  /\ batch' = [batch EXCEPT ![d] = "locked"]
  /\ UNCHANGED <<clock, pc, tries, plan, answer, order, holder>>

-----------------------------------------------------------------------------
Handle(r) == GetQuote(r) \/ Lock(r) \/ Check(r) \/ Insert(r)

Next ==
  \/ Tick
  \/ \E r \in Request : Send(r) \/ Handle(r) \/ Lose(r)
  \/ \E p \in Request : Confirm(p) \/ Expire(p) \/ Cancel(p)
  \/ \E d \in Dates : OpenBatch(d) \/ LockDue(d)

Spec == Init /\ [][Next]_vars

\* A handler that is not stopped goes on, and PostgreSQL grants the lock to
\* everyone who waits for it in the end.
Fairness ==
  \A r \in Request : WF_vars(GetQuote(r) \/ Check(r) \/ Insert(r)) /\ SF_vars(Lock(r))

FairSpec == Spec /\ Fairness

-----------------------------------------------------------------------------
\* Properties.

\* Every variable has the shape the code gives it; the lock of a customer is
\* held by a request of that customer inside its transaction.
TypeOK ==
  /\ clock \in 0 .. MaxTime
  /\ pc \in [Request -> {"idle", "quoting", "waiting", "checking", "inserting", "answered"}]
  /\ tries \in [Request -> 0 .. MaxTries]
  /\ \A r \in Request :
       /\ answer[r] \in Request \cup {"none", "refused", "too_many_unpaid", "failed"}
       /\ order[r].status \in {"none", "awaiting_dp", "confirmed", "expired", "cancelled"}
       /\ pc[r] \in {"waiting", "checking", "inserting"} => plan[r].date \in Dates
       /\ pc[r] \in {"checking", "inserting"} <=> holder[Sent[r].customer] = r
  /\ holder \in [Customer -> Request \cup {Nobody}]
  /\ batch \in [Dates -> {"none", "open", "locked"}]

\* "Sending the same checkout twice returns the order placed the first time":
\* a request that gets past its quote once its key has an order is told that
\* order: never of too many orders, its twin among them, nor of a failure.
TwinGetsTheOrder ==
  [][ \A r \in Request :
        pc[r] \in {"checking", "inserting"} /\ pc'[r] = "answered" /\ Existing(r)' # {} =>
          answer'[r] \in Existing(r)' ]_vars

\* A customer has at most MaxUnpaid orders waiting for their DP, however many
\* checkouts run at once (LockCustomer).
UnpaidLimit == \A c \in Customer : Cardinality(Unpaid(c)) <= MaxUnpaid

\* A request waits for its customer's lock only as long as others work.
LockIsGranted == \A r \in Request : pc[r] = "waiting" ~> pc[r] # "waiting"

\* "Checkout already refuses orders for them" (LockDue): an order is never
\* quoted for a day whose batch is locked.
LockedTakesNoOrders ==
  [][ \A r \in Request :
        pc[r] = "quoting" /\ pc'[r] = "waiting" => batch[plan'[r].date] # "locked" ]_vars

=============================================================================
