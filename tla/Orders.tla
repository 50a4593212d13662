------------------------------- MODULE Orders -------------------------------
(***************************************************************************)
(* The life of orders and of their money (packages orders and payments):   *)
(* the customer places an order, staff record money and move or end the    *)
(* order, sweeps in the worker end orders past a deadline, and             *)
(* balance-invoice jobs bill what is still owed.                           *)
(*                                                                         *)
(* A database transaction that holds the order's row is one action.  What  *)
(* runs outside it is split where the code can be interleaved: a sweep     *)
(* reads the overdue orders once, with the time it read then, and ends     *)
(* them one transaction at a time; a job commits the bill, reads the       *)
(* ledger again without a lock, asks the provider and then records the     *)
(* link.  Sweeps and jobs may stop between any two of their steps.         *)
(*                                                                         *)
(* The paid rows of the ledger never change once written, so their sum is  *)
(* kept (paid) instead of the rows.  The rows still to be paid, "bills",   *)
(* are kept one by one, since they expire and get a link to pay at.        *)
(***************************************************************************)
EXTENDS Integers, FiniteSets, Payments

CONSTANTS
  Order,        \* the orders that may be placed
  Terms,        \* what checkout may lock: total, DP, deadlines
  Sweeper,      \* runs of the two periodic sweeps that may overlap
  Worker,       \* goroutines that make invoices: jobs and page loads
  Grace,        \* how long past a deadline a sweep waits
  SweepLimit,   \* how many orders one sweep ends at most
  MaxBills,     \* bound: bills one order may get
  MaxAttempts,  \* how often a balance-invoice job is tried
  MaxTime       \* bound: where the clock stops

\* Place locks a DP of 1 to the total, and the whole total when the balance
\* would not fall due after the DP (Quote, Plan).
ASSUME TermsAssumption ==
  \A t \in Terms :
    /\ t.total \in Nat \ {0} /\ t.dp \in 1 .. t.total
    /\ t.dpDue \in Nat /\ t.balanceDue \in Nat
    /\ t.mustPayInFull \in BOOLEAN
    /\ t.mustPayInFull => t.dp = t.total
    /\ ~t.mustPayInFull => t.dpDue < t.balanceDue

ASSUME BoundsAssumption ==
  /\ Grace \in Nat /\ SweepLimit \in Nat \ {0}
  /\ MaxBills \in Nat /\ MaxAttempts \in Nat \ {0} /\ MaxTime \in Nat

VARIABLES
  clock,
  status,     \* of each order; "none" before it is placed
  payment,    \* its payment status
  terms,      \* what was locked at checkout
  paid,       \* the sum of its paid rows
  bills,      \* its rows to be paid online, by number
  jobs,       \* balance-invoice jobs waiting, by attempts left
  dropped,    \* a job of the order used up its attempts
  sweep,      \* what each sweep has left to do
  task        \* what each worker is doing

vars == <<clock, status, payment, terms, paid, bills, jobs, dropped, sweep, task>>

-----------------------------------------------------------------------------
\* Orders.

OrderStatus == {"awaiting_dp", "confirmed", "expired", "in_production",
                "ready", "out_for_delivery", "completed", "cancelled"}

Edge(from, to, pays, how) ==
  [from |-> from, to |-> to, payments |-> pays, fulfillment |-> how]

Lifecycle ==
  { Edge("awaiting_dp", "confirmed", {"dp_paid", "paid_in_full"}, "any"),
    Edge("awaiting_dp", "expired", {"unpaid"}, "any"),
    Edge("confirmed", "in_production", {"paid_in_full"}, "any"),
    Edge("confirmed", "cancelled", {"forfeited", "refunded"}, "any"),
    Edge("in_production", "ready", {"paid_in_full"}, "any"),
    Edge("ready", "out_for_delivery", {"paid_in_full"}, "delivery"),
    Edge("ready", "completed", {"paid_in_full"}, "pickup"),
    Edge("out_for_delivery", "completed", {"paid_in_full"}, "delivery") }

\* Fault: a step into production asks only for the DP.
CanMove_OnDP(from, pay, to) ==
  \/ from = "confirmed" /\ to = "in_production" /\ pay \in {"dp_paid", "paid_in_full"}
  \/ \E e \in Lifecycle :
       e.from = from /\ e.to = to /\ pay \in e.payments /\ e.fulfillment # "delivery"

\* Every order placed is a pickup.
CanMove(from, pay, to) ==
  \E e \in Lifecycle :
    /\ e.from = from /\ e.to = to
    /\ pay \in e.payments
    /\ e.fulfillment \in {"any", "pickup"}

ProductionSteps == {"in_production", "ready", "completed"}

Placed(o) == status[o] # "none"
Owed(o) == terms[o].total - paid[o]

-----------------------------------------------------------------------------
\* Bills: the ledger's rows that wait for the customer.

BillNo == 1 .. MaxBills

NoBill == [kind |-> "none", amount |-> 0, state |-> "none", linked |-> FALSE]

PendingBill(kind, amount) ==
  [kind |-> kind, amount |-> amount, state |-> "pending", linked |-> FALSE]

\* The number the order's next bill gets.
FreeBill(o) ==
  { n \in BillNo :
      /\ bills[o][n].state = "none"
      /\ \A m \in BillNo : m < n => bills[o][m].state # "none" }

\* When a bill lapses: with the DP deadline, or with the balance's.
LapsesAt(o, n) ==
  IF bills[o][n].kind = "balance" THEN terms[o].balanceDue ELSE terms[o].dpDue

\* The order's bills once none of them is wanted any more.
ExpirePending(o) ==
  [n \in BillNo |-> IF bills[o][n].state = "pending"
                    THEN [bills[o][n] EXCEPT !.state = "expired"]
                    ELSE bills[o][n]]

\* Fault: whether the balance is billed already is not asked.
Billed_Never(o) == FALSE

\* The order has an open bill for its balance.
Billed(o) ==
  \E n \in BillNo : bills[o][n].state = "pending" /\ bills[o][n].kind = "balance"

-----------------------------------------------------------------------------
\* Sweeps and jobs.

Resting == [kind |-> "none", now |-> 0, todo |-> {}]
Idle == [pc |-> "idle"]

\* A page load asks for invoices as a job does, but is no job to be retried.
NotAJob == -1

Init ==
  /\ clock = 0
  /\ status = [o \in Order |-> "none"]
  /\ payment = [o \in Order |-> "unpaid"]
  /\ terms \in [Order -> Terms]   \* drawn here, locked and used from Place on
  /\ paid = [o \in Order |-> 0]
  /\ bills = [o \in Order |-> [n \in BillNo |-> NoBill]]
  /\ jobs = [o \in Order |-> [a \in 1 .. MaxAttempts |-> 0]]
  /\ dropped = [o \in Order |-> FALSE]
  /\ sweep = [s \in Sweeper |-> Resting]
  /\ task = [w \in Worker |-> Idle]

Tick ==
  /\ clock < MaxTime
  /\ clock' = clock + 1
  /\ UNCHANGED <<status, payment, terms, paid, bills, jobs, dropped, sweep, task>>

-----------------------------------------------------------------------------
\* The customer.

\* The order and its first bill, for its DP or for the whole total.  It was
\* quoted before its DP deadline, but the insert may come as late as it likes.
Place(o) ==
  /\ status[o] = "none"
  /\ \E n \in FreeBill(o) :
       \/ bills' = [bills EXCEPT ![o][n] = PendingBill("full", terms[o].total)]
       \/ /\ ~terms[o].mustPayInFull
          /\ bills' = [bills EXCEPT ![o][n] = PendingBill("dp", terms[o].dp)]
  /\ status' = [status EXCEPT ![o] = "awaiting_dp"]
  /\ UNCHANGED <<clock, payment, terms, paid, jobs, dropped, sweep, task>>

-----------------------------------------------------------------------------
\* Staff.

\* The kitchen moves an order a step through production.
Advance(o, to) ==
  /\ status[o] # to
  /\ CanMove(status[o], payment[o], to)
  /\ status' = [status EXCEPT ![o] = to]
  /\ UNCHANGED <<clock, payment, terms, paid, bills, jobs, dropped, sweep, task>>

\* What manualKind asks of money received outside the provider.
TakesPayment(o, amount) ==
  /\ payment[o] \notin ClosedPayment
  /\ Owed(o) > 0
  /\ status[o] \in {"awaiting_dp", "confirmed"}
  /\ amount <= Owed(o)
  /\ status[o] = "confirmed" \/ paid[o] + amount >= terms[o].dp

\* The events of a recorded payment each ask for the balance to be billed:
\* order.payment_received, and order.confirmed when it confirmed the order.
JobsOfPayment_ConfirmedOnly(o) == IF status[o] = "awaiting_dp" THEN 1 ELSE 0

JobsOfPayment(o) == IF status[o] = "awaiting_dp" THEN 2 ELSE 1

RecordPayment(o, amount) ==
  LET pay == Settle(payment[o], terms[o].total, terms[o].dp, paid[o] + amount)
  IN  /\ TakesPayment(o, amount)
      /\ status[o] = "awaiting_dp" => CanMove("awaiting_dp", pay, "confirmed")
      /\ status' = [status EXCEPT ![o] = "confirmed"]
      /\ payment' = [payment EXCEPT ![o] = pay]
      /\ paid' = [paid EXCEPT ![o] = @ + amount]
      /\ bills' = [bills EXCEPT ![o] = ExpirePending(o)]
      /\ jobs' = [jobs EXCEPT ![o][MaxAttempts] = @ + JobsOfPayment(o)]
      /\ UNCHANGED <<clock, terms, dropped, sweep, task>>

\* Stores where an order ends and expires its bills.
End(o, to, pay) ==
  /\ status' = [status EXCEPT ![o] = to]
  /\ payment' = [payment EXCEPT ![o] = pay]
  /\ bills' = [bills EXCEPT ![o] = ExpirePending(o)]

CancelUnpaid(o) ==
  /\ CanMove(status[o], payment[o], "expired")
  /\ End(o, "expired", payment[o])
  /\ UNCHANGED <<clock, terms, paid, jobs, dropped, sweep, task>>

\* The time is read before the lock is had: a past deadline stays past.
CancelForfeit(o) ==
  /\ CanClose(payment[o], "forfeited")
  /\ CanMove(status[o], "forfeited", "cancelled")
  /\ clock >= terms[o].balanceDue
  /\ End(o, "cancelled", "forfeited")
  /\ UNCHANGED <<clock, terms, paid, jobs, dropped, sweep, task>>

\* Everything paid goes back, as one negative row of the ledger.
CancelRefund(o) ==
  /\ CanClose(payment[o], "refunded")
  /\ CanMove(status[o], "refunded", "cancelled")
  /\ End(o, "cancelled", "refunded")
  /\ paid' = [paid EXCEPT ![o] = 0]
  /\ UNCHANGED <<clock, terms, jobs, dropped, sweep, task>>

-----------------------------------------------------------------------------
\* The sweeps: ExpireUnpaid and ForfeitUnpaid.

\* Fault: both sweeps go by the DP deadline.
Deadline_DP(kind, o) == terms[o].dpDue

Deadline(kind, o) ==
  IF kind = "expire" THEN terms[o].dpDue ELSE terms[o].balanceDue

\* Fault: both sweeps look for orders nothing was paid for.
Overdue_Unpaid(kind, o, now) ==
  /\ status[o] = (IF kind = "expire" THEN "awaiting_dp" ELSE "confirmed")
  /\ payment[o] = "unpaid"
  /\ now >= Deadline(kind, o) + Grace

\* Whether a sweep of that kind, run with the time it read, ends the order.
Overdue(kind, o, now) ==
  /\ \/ kind = "expire" /\ status[o] = "awaiting_dp" /\ payment[o] = "unpaid"
     \/ kind = "forfeit" /\ status[o] = "confirmed" /\ payment[o] = "dp_paid"
  /\ now >= Deadline(kind, o) + Grace

\* The overdue orders a sweep reads: all, or the most it takes, oldest first.
Found(kind) ==
  LET overdue == {o \in Order : Overdue(kind, o, clock)}
  IN  { todo \in SUBSET overdue :
          /\ Cardinality(todo) = Smaller(Cardinality(overdue), SweepLimit)
          /\ \A o \in todo, p \in overdue \ todo : Deadline(kind, o) <= Deadline(kind, p) }

\* Reads the overdue orders, and the time, once.
StartSweep(s, kind) ==
  /\ sweep[s] = Resting
  /\ \E todo \in Found(kind) :
       /\ todo # {}
       /\ sweep' = [sweep EXCEPT ![s] = [kind |-> kind, now |-> clock, todo |-> todo]]
  /\ UNCHANGED <<clock, status, payment, terms, paid, bills, jobs, dropped, task>>

\* A sweep after one more order.
Swept(s, o) ==
  IF sweep[s].todo = {o} THEN Resting ELSE [sweep[s] EXCEPT !.todo = @ \ {o}]

\* Fault: the order is not asked again under the lock.
StillOverdue_Trusted(s, o) == TRUE

\* The order under its lock is still what the sweep found.
StillOverdue(s, o) == Overdue(sweep[s].kind, o, sweep[s].now)

\* One order of a sweep, in a transaction of its own.
SweepOrder(s, o) ==
  /\ o \in sweep[s].todo
  /\ sweep' = [sweep EXCEPT ![s] = Swept(s, o)]
  /\ IF ~StillOverdue(s, o)
     THEN UNCHANGED <<status, payment, bills>>
     ELSE IF sweep[s].kind = "expire"
          THEN End(o, "expired", payment[o])
          ELSE End(o, "cancelled", "forfeited")
  /\ UNCHANGED <<clock, terms, paid, jobs, dropped, task>>

\* The transaction on one order fails; the sweep goes on with the others.
SkipOrder(s, o) ==
  /\ o \in sweep[s].todo
  /\ sweep' = [sweep EXCEPT ![s] = Swept(s, o)]
  /\ UNCHANGED <<clock, status, payment, terms, paid, bills, jobs, dropped, task>>

\* The worker stops in the middle of a sweep.
StopSweep(s) ==
  /\ sweep[s] # Resting
  /\ sweep' = [sweep EXCEPT ![s] = Resting]
  /\ UNCHANGED <<clock, status, payment, terms, paid, bills, jobs, dropped, task>>

-----------------------------------------------------------------------------
\* Balance-invoice jobs (EnsureBalanceInvoice) and making invoices.

Doing(pc, o, left, now) ==
  [pc |-> pc, order |-> o, left |-> left, now |-> now, todo |-> {}, failed |-> FALSE]

\* Takes a job with a attempts left and reads the time.
StartJob(w, o, a) ==
  /\ task[w] = Idle
  /\ jobs[o][a] > 0
  /\ jobs' = [jobs EXCEPT ![o][a] = @ - 1]
  /\ task' = [task EXCEPT ![w] = Doing("billing", o, a - 1, clock)]
  /\ UNCHANGED <<clock, status, payment, terms, paid, bills, dropped, sweep>>

\* The order still has a balance to bill, at a time before it is due.
WantsBalance(o, now) ==
  /\ status[o] = "confirmed" /\ payment[o] = "dp_paid"
  /\ now < terms[o].balanceDue
  /\ Owed(o) > 0
  /\ ~Billed(o)

\* The job's transaction.
BillBalance(w) ==
  LET o == task[w].order
  IN  /\ task[w].pc = "billing"
      /\ task' = [task EXCEPT ![w] = Doing("reading", o, task[w].left, 0)]
      /\ IF WantsBalance(o, task[w].now)
         THEN \E n \in FreeBill(o) :
                bills' = [bills EXCEPT ![o][n] = PendingBill("balance", Owed(o))]
         ELSE UNCHANGED bills
      /\ UNCHANGED <<clock, status, payment, terms, paid, jobs, dropped, sweep>>

\* A customer or a finished checkout opens the order.
OpenOrder(w, o) ==
  /\ task[w] = Idle
  /\ Placed(o)
  /\ task' = [task EXCEPT ![w] = Doing("reading", o, NotAJob, 0)]
  /\ UNCHANGED <<clock, status, payment, terms, paid, bills, jobs, dropped, sweep>>

\* A worker is done.  A job that failed waits for its next attempt, if any.
Done(w, failed) ==
  LET o == task[w].order
      left == task[w].left
  IN  /\ task' = [task EXCEPT ![w] = Idle]
      /\ jobs' = IF failed /\ left > 0 THEN [jobs EXCEPT ![o][left] = @ + 1] ELSE jobs
      /\ dropped' = IF failed /\ left = 0 THEN [dropped EXCEPT ![o] = TRUE] ELSE dropped

\* The bills that get an invoice: open, without a link, not lapsed.
WithoutInvoice(o) ==
  {n \in BillNo : /\ bills[o][n].state = "pending"
                  /\ ~bills[o][n].linked
                  /\ LapsesAt(o, n) > clock}

\* Reads the ledger, without a lock.
ReadBills(w) ==
  LET todo == WithoutInvoice(task[w].order)
  IN  /\ task[w].pc = "reading"
      /\ IF todo = {}
         THEN Done(w, FALSE)
         ELSE /\ task' = [task EXCEPT ![w].pc = "invoicing", ![w].todo = todo]
              /\ UNCHANGED <<jobs, dropped>>
      /\ UNCHANGED <<clock, status, payment, terms, paid, bills, sweep>>

\* The oldest bill of the work a task has left.
Current(w) == CHOOSE n \in task[w].todo : \A m \in task[w].todo : n <= m

\* Leaves the current bill: on to the next, or done.
NextBill(w, failed) ==
  IF task[w].todo = {Current(w)}
  THEN Done(w, failed)
  ELSE /\ task' = [task EXCEPT ![w].pc = "invoicing", ![w].failed = failed,
                               ![w].todo = @ \ {Current(w)}]
       /\ UNCHANGED <<jobs, dropped>>

\* The provider makes the invoice, or finds the one it made before.
CreateInvoice(w) ==
  /\ task[w].pc = "invoicing"
  /\ task' = [task EXCEPT ![w].pc = "attaching"]
  /\ UNCHANGED <<clock, status, payment, terms, paid, bills, jobs, dropped, sweep>>

\* The provider fails, or its answer is lost.
InvoiceFails(w) ==
  /\ task[w].pc = "invoicing"
  /\ NextBill(w, TRUE)
  /\ UNCHANGED <<clock, status, payment, terms, paid, bills, sweep>>

\* Fault: the link is stored whatever became of the bill.
TakesLink_Always(o, n) == TRUE

TakesLink(o, n) == bills[o][n].state = "pending"

\* Records the link to pay at.
AttachInvoice(w) ==
  LET o == task[w].order
      n == Current(w)
  IN  /\ task[w].pc = "attaching"
      /\ IF TakesLink(o, n)
         THEN /\ bills' = [bills EXCEPT ![o][n].linked = TRUE]
              /\ NextBill(w, task[w].failed)
         ELSE /\ UNCHANGED bills
              /\ NextBill(w, TRUE)
      /\ UNCHANGED <<clock, status, payment, terms, paid, sweep>>

\* A worker stops in the middle, or a call of the database or balanceMethod
\* fails; River gives a job that ended so back.
Stop(w) ==
  /\ task[w] # Idle
  /\ Done(w, TRUE)
  /\ UNCHANGED <<clock, status, payment, terms, paid, bills, sweep>>

-----------------------------------------------------------------------------
Staff(o) ==
  \/ \E to \in ProductionSteps : Advance(o, to)
  \/ \E amount \in 1 .. terms[o].total : RecordPayment(o, amount)
  \/ CancelUnpaid(o) \/ CancelForfeit(o) \/ CancelRefund(o)

Sweeps(s) ==
  \/ \E kind \in {"expire", "forfeit"} : StartSweep(s, kind)
  \/ \E o \in Order : SweepOrder(s, o) \/ SkipOrder(s, o)

TaskStep(w) ==
  \/ BillBalance(w) \/ ReadBills(w)
  \/ CreateInvoice(w) \/ InvoiceFails(w) \/ AttachInvoice(w)

Next ==
  \/ Tick
  \/ \E o \in Order : Place(o) \/ Staff(o)
  \/ \E s \in Sweeper : Sweeps(s) \/ StopSweep(s)
  \/ \E w \in Worker, o \in Order :
       OpenOrder(w, o) \/ \E a \in 1 .. MaxAttempts : StartJob(w, o, a)
  \/ \E w \in Worker : TaskStep(w) \/ Stop(w)

Spec == Init /\ [][Next]_vars

\* Time goes on; each sweep runs every minute whatever else happens, one under
\* way goes on, and a transaction tried again and again sometimes commits.
FairSweeps ==
  /\ WF_vars(Tick)
  /\ \A kind \in {"expire", "forfeit"} : SF_vars(\E s \in Sweeper : StartSweep(s, kind))
  /\ \A o \in Order : SF_vars(\E s \in Sweeper : SweepOrder(s, o))
  /\ \A s \in Sweeper : WF_vars(Sweeps(s))

SweepSpec == Spec /\ FairSweeps

-----------------------------------------------------------------------------
\* Properties.

Bill == [kind : {"none", "dp", "full", "balance"}, amount : Nat,
         state : {"none", "pending", "expired"}, linked : BOOLEAN]

Task == {Idle} \cup
  [pc : {"billing", "reading", "invoicing", "attaching"}, order : Order,
   left : NotAJob .. MaxAttempts, now : Nat, todo : SUBSET BillNo, failed : BOOLEAN]

\* Every variable has the shape the code gives it; work under way is work on
\* a placed order, with at least one bill in hand while it makes invoices.
TypeOK ==
  /\ clock \in Nat
  /\ status \in [Order -> OrderStatus \cup {"none"}]
  /\ payment \in [Order -> PaymentStatus]
  /\ terms \in [Order -> Terms]
  /\ paid \in [Order -> Nat]
  /\ bills \in [Order -> [BillNo -> Bill]]
  /\ jobs \in [Order -> [1 .. MaxAttempts -> Nat]]
  /\ dropped \in [Order -> BOOLEAN]
  /\ sweep \in [Sweeper -> [kind : {"none", "expire", "forfeit"}, now : Nat, todo : SUBSET Order]]
  /\ task \in [Worker -> Task]
  /\ \A w \in Worker : task[w].pc \in {"invoicing", "attaching"} => task[w].todo # {}

\* What the payment status says is what the ledger's paid rows add up to,
\* through every payment, refund and close (Settle, Close, RecordPayment).
LedgerAgrees ==
  \A o \in Order :
    CASE payment[o] = "unpaid"       -> paid[o] = 0
      [] payment[o] = "dp_paid"      -> terms[o].dp <= paid[o] /\ paid[o] < terms[o].total
      [] payment[o] = "paid_in_full" -> paid[o] = terms[o].total
      [] payment[o] = "forfeited"    -> terms[o].dp <= paid[o] /\ paid[o] < terms[o].total
      [] payment[o] = "refunded"     -> paid[o] = 0

\* "There is no path to hand over a cake that is not paid" (status.go): from
\* production on, every rupiah of the total is in the ledger.
HandoverPaid ==
  \A o \in Order :
    status[o] \in {"in_production", "ready", "out_for_delivery", "completed"} =>
      payment[o] = "paid_in_full" /\ paid[o] = terms[o].total

\* A customer is never asked twice, nor for money no longer owed: an order has
\* at most one open bill, for its first payment while it waits for that, for
\* exactly the rest once the DP is in, and none in any other state.
OpenBillIsOwed ==
  \A o \in Order, n \in BillNo :
    bills[o][n].state = "pending" =>
      /\ \A m \in BillNo : bills[o][m].state = "pending" => m = n
      /\ \/ /\ status[o] = "awaiting_dp" /\ paid[o] = 0
            /\ \/ bills[o][n].kind = "dp" /\ bills[o][n].amount = terms[o].dp
               \/ bills[o][n].kind = "full" /\ bills[o][n].amount = terms[o].total
         \/ /\ status[o] = "confirmed" /\ payment[o] = "dp_paid"
            /\ bills[o][n].kind = "balance" /\ bills[o][n].amount = Owed(o)

\* No sweep or cancellation ends an order as unpaid that had money in, however
\* late the money came: the sweep asks again under the lock (ExpireUnpaid).
ExpiredNeverPaid ==
  \A o \in Order : status[o] = "expired" => payment[o] = "unpaid" /\ paid[o] = 0

\* A DP is kept only after the balance fell due with part of it still owed,
\* and an order paid in full is never forfeited (ForfeitUnpaid, cancelled).
ForfeitOnlyWhenDue ==
  \A o \in Order :
    payment[o] = "forfeited" =>
      status[o] = "cancelled" /\ clock >= terms[o].balanceDue /\ Owed(o) > 0

\* A link to pay at appears only on a bill that is still owed, though the
\* invoice behind it was made without a lock (AttachInvoice).
LinkOnlyOwed ==
  [][ \A o \in Order, n \in BillNo :
        ~bills[o][n].linked /\ bills'[o][n].linked =>
          /\ bills[o][n].state = "pending"
          /\ bills[o][n].amount <= Owed(o)
          /\ status[o] \in {"awaiting_dp", "confirmed"} ]_vars

\* The shop's promise about orders and money, kept by what the ledger holds
\* and not by what the payment column says.
Stage(o) ==
  CASE status[o] = "none" -> "cart"
    [] status[o] = "awaiting_dp" -> "open"
    [] status[o] = "confirmed" -> "committed"
    [] status[o] \in {"in_production", "ready", "out_for_delivery"} -> "kitchen"
    [] status[o] = "completed" -> "handed"
    [] status[o] \in {"expired", "cancelled"} -> "over"

Money(o) ==
  CASE payment[o] = "forfeited" -> "kept"
    [] payment[o] = "refunded" -> "returned"
    [] payment[o] \notin ClosedPayment ->
         IF paid[o] = 0 THEN "nothing" ELSE IF paid[o] < terms[o].total THEN "part" ELSE "whole"

Promise == INSTANCE OrderPromise
  WITH stage <- [o \in Order |-> Stage(o)], money <- [o \in Order |-> Money(o)]

\* Every step of staff, customer, sweep and job is a step the promise allows.
KeepsPromise == Promise!Spec

\* No order waits forever for money: one whose DP or balance does not come
\* leaves the state it waits in (the sweeps of the worker).
NoEndlessWait ==
  \A o \in Order :
    /\ status[o] = "awaiting_dp" ~> status[o] # "awaiting_dp"
    /\ (status[o] = "confirmed" /\ payment[o] = "dp_paid") ~>
         ~(status[o] = "confirmed" /\ payment[o] = "dp_paid")

\* The customer can pay the balance online: once no job of a confirmed order
\* waits or is under way, it has an open balance bill with a link, whatever
\* payments, page loads and other jobs came in between, unless the balance fell
\* due or a job used up its attempts (EnsureBalanceInvoice).
BalanceBilled ==
  \A o \in Order :
    /\ status[o] = "confirmed" /\ payment[o] = "dp_paid" /\ clock < terms[o].balanceDue
    /\ ~dropped[o] /\ \A a \in 1 .. MaxAttempts : jobs[o][a] = 0
    /\ \A w \in Worker : task[w] = Idle \/ task[w].order # o
    => \E n \in BillNo : /\ bills[o][n].state = "pending"
                         /\ bills[o][n].kind = "balance" /\ bills[o][n].linked

=============================================================================
