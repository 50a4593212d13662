---------------------------- MODULE OrdersProofs ----------------------------
(***************************************************************************)
(* Proofs about Orders for every set of orders, sweeps and workers, any    *)
(* terms and any bounds: its invariants, that it keeps OrderPromise, and   *)
(* that the balance of every order is billed.                              *)
(***************************************************************************)
EXTENDS Orders, TLAPS

-----------------------------------------------------------------------------
\* Types.

\* What TermsAssumption says of one order's terms.
LEMMA TermsType ==
  ASSUME NEW t \in Terms
  PROVE  /\ t.total \in Nat /\ t.total > 0
         /\ t.dp \in Nat /\ t.dp > 0 /\ t.dp <= t.total
         /\ t.dpDue \in Nat /\ t.balanceDue \in Nat
         /\ t.mustPayInFull \in BOOLEAN
PROOF BY TermsAssumption

\* Expiring bills gives bills.
LEMMA ExpirePendingType ==
  ASSUME TypeOK, NEW o \in Order
  PROVE  /\ ExpirePending(o) \in [BillNo -> Bill]
         /\ \A n \in BillNo : ExpirePending(o)[n].state # "pending"
<1> USE DEF TypeOK, Bill
<1>1. SUFFICES ASSUME NEW n \in BillNo
               PROVE  /\ ExpirePending(o)[n] \in Bill
                      /\ ExpirePending(o)[n].state # "pending"
      BY DEF ExpirePending
<1>2. bills[o][n] \in Bill
      OBVIOUS
<1>3. CASE bills[o][n].state = "pending"
      BY <1>2, <1>3 DEF ExpirePending
<1>4. CASE bills[o][n].state # "pending"
      BY <1>2, <1>4 DEF ExpirePending
<1> QED BY <1>3, <1>4

\* A task that is done leaves well-typed jobs behind.
LEMMA DoneType ==
  ASSUME TypeOK, NEW w \in Worker, NEW failed \in BOOLEAN,
         task[w] # Idle, Done(w, failed)
  PROVE  /\ task' \in [Worker -> Task]
         /\ \A v \in Worker : task'[v].pc \in {"invoicing", "attaching"} => task'[v].todo # {}
         /\ jobs' \in [Order -> [1 .. MaxAttempts -> Nat]]
         /\ dropped' \in [Order -> BOOLEAN]
<1> DEFINE o == task[w].order
           left == task[w].left
<1>1. o \in Order /\ left \in NotAJob .. MaxAttempts
      BY DEF TypeOK, Task
<1>2. task' \in [Worker -> Task]
      BY DEF TypeOK, Task, Done
<1>3. \A v \in Worker : task'[v].pc \in {"invoicing", "attaching"} => task'[v].todo # {}
      BY DEF TypeOK, Done, Idle
<1>4. jobs' \in [Order -> [1 .. MaxAttempts -> Nat]]
  <2>1. CASE failed /\ left > 0
    <3>1. left \in 1 .. MaxAttempts
          BY <1>1, <2>1, BoundsAssumption DEF NotAJob
    <3>2. jobs' = [jobs EXCEPT ![o][left] = @ + 1]
          BY <2>1 DEF Done
    <3>3. jobs[o] \in [1 .. MaxAttempts -> Nat]
          BY <1>1 DEF TypeOK
    <3> HIDE DEF o, left
    <3>4. jobs[o][left] \in Nat
          BY <3>1, <3>3
    <3> QED BY <1>1, <3>1, <3>2, <3>3, <3>4 DEF TypeOK
  <2>2. CASE ~(failed /\ left > 0)
        BY <2>2 DEF TypeOK, Done
  <2> QED BY <2>1, <2>2
<1>5. dropped' \in [Order -> BOOLEAN]
      BY <1>1 DEF TypeOK, Done
<1> QED BY <1>2, <1>3, <1>4, <1>5

\* The shop starts with well-typed variables.
LEMMA InitType == Init => TypeOK
<1> SUFFICES ASSUME Init PROVE TypeOK
    OBVIOUS
<1>1. NoBill \in Bill
      BY DEF NoBill, Bill
<1>2. bills \in [Order -> [BillNo -> Bill]]
      BY <1>1 DEF Init
<1>3. task \in [Worker -> Task] /\ \A w \in Worker : task[w].pc = "idle"
      BY DEF Init, Task, Idle
<1> QED BY <1>2, <1>3 DEF Init, TypeOK, OrderStatus, PaymentStatus, Resting

\* A bill given to an order leaves its bills well-typed.
LEMMA PendingBillType ==
  ASSUME TypeOK, NEW o \in Order, NEW n \in BillNo,
         NEW kind \in {"dp", "full", "balance"}, NEW amount \in Nat
  PROVE  [bills EXCEPT ![o][n] = PendingBill(kind, amount)] \in [Order -> [BillNo -> Bill]]
<1>1. PendingBill(kind, amount) \in Bill
      BY DEF PendingBill, Bill
<1> QED BY <1>1 DEF TypeOK

\* Recording a payment keeps the types: what is added to the ledger and to
\* the jobs are natural numbers.
LEMMA RecordType ==
  ASSUME TypeOK, NEW o \in Order, NEW amount \in 1 .. terms[o].total, RecordPayment(o, amount)
  PROVE  TypeOK'
<1> DEFINE pay == Settle(payment[o], terms[o].total, terms[o].dp, paid[o] + amount)
<1>1. terms[o] \in Terms /\ paid[o] \in Nat /\ amount \in Nat
      BY TermsType DEF TypeOK
<1>2. pay \in PaymentStatus
      BY DEF TypeOK, Settle, Reached, PaymentStatus
<1>3. payment' \in [Order -> PaymentStatus] /\ paid' \in [Order -> Nat]
      BY <1>1, <1>2 DEF TypeOK, RecordPayment
<1>4. bills' \in [Order -> [BillNo -> Bill]]
      BY ExpirePendingType DEF TypeOK, RecordPayment
<1>5. jobs' \in [Order -> [1 .. MaxAttempts -> Nat]]
  <2>1. jobs' = [jobs EXCEPT ![o][MaxAttempts] = @ + JobsOfPayment(o)]
        BY DEF RecordPayment
  <2>2. JobsOfPayment(o) \in Nat
        BY DEF JobsOfPayment
  <2>3. MaxAttempts \in 1 .. MaxAttempts
        BY BoundsAssumption
  <2>4. jobs[o] \in [1 .. MaxAttempts -> Nat]
        BY DEF TypeOK
  <2>5. jobs[o][MaxAttempts] \in Nat
        BY <2>3, <2>4
  <2> QED BY <2>1, <2>2, <2>3, <2>4, <2>5 DEF TypeOK
<1>6. status' \in [Order -> OrderStatus \cup {"none"}]
      BY DEF TypeOK, RecordPayment, OrderStatus
<1> QED BY <1>3, <1>4, <1>5, <1>6 DEF TypeOK, RecordPayment

\* A task that goes on with bills in hand.
LEMMA GoesOnType ==
  ASSUME TypeOK, NEW w \in Worker, task[w] # Idle,
         NEW pc \in {"invoicing", "attaching"}, NEW todo \in SUBSET BillNo, todo # {},
         NEW failed \in BOOLEAN,
         task' = [task EXCEPT ![w].pc = pc, ![w].failed = failed, ![w].todo = todo]
  PROVE  /\ task' \in [Worker -> Task]
         /\ \A v \in Worker : task'[v].pc \in {"invoicing", "attaching"} => task'[v].todo # {}
<1> DEFINE next == [task[w] EXCEPT !.pc = pc, !.failed = failed, !.todo = todo]
<1>1. task[w] \in Task \ {Idle}
      BY DEF TypeOK
<1>2. next \in Task /\ next.todo = todo
      BY <1>1 DEF Task
<1>3. task'[w] = next
      BY DEF TypeOK
<1>4. \A v \in Worker : v # w => task'[v] = task[v]
      BY DEF TypeOK
<1>5. task' = [v \in Worker |-> task'[v]]
      BY DEF TypeOK
<1> HIDE DEF next
<1> QED BY <1>2, <1>3, <1>4, <1>5 DEF TypeOK

\* Leaving a bill, for the next one or for good, keeps the types.
LEMMA NextBillType ==
  ASSUME TypeOK, NEW w \in Worker, NEW failed \in BOOLEAN,
         task[w].pc \in {"invoicing", "attaching"}, NextBill(w, failed)
  PROVE  /\ task' \in [Worker -> Task]
         /\ \A v \in Worker : task'[v].pc \in {"invoicing", "attaching"} => task'[v].todo # {}
         /\ jobs' \in [Order -> [1 .. MaxAttempts -> Nat]]
         /\ dropped' \in [Order -> BOOLEAN]
<1>1. task[w] # Idle /\ task[w] \in Task
      BY DEF TypeOK, Idle
<1>2. CASE task[w].todo = {Current(w)}
      BY <1>1, <1>2, DoneType DEF NextBill
<1>3. CASE task[w].todo # {Current(w)}
  <2> DEFINE todo == task[w].todo \ {Current(w)}
  <2>1. todo \in SUBSET BillNo /\ todo # {}
        BY <1>1, <1>3 DEF TypeOK, Task, Idle
  <2>2. task' = [task EXCEPT ![w].pc = "invoicing", ![w].failed = failed, ![w].todo = todo]
        BY <1>3 DEF NextBill
  <2> HIDE DEF todo
  <2>3. jobs' = jobs /\ dropped' = dropped
        BY <1>3 DEF NextBill
  <2> QED BY <1>1, <2>1, <2>2, <2>3, GoesOnType DEF TypeOK
<1> QED BY <1>2, <1>3

\* No step of a worker that makes invoices breaks the types.
LEMMA TaskStepType ==
  ASSUME TypeOK, NEW w \in Worker, TaskStep(w)
  PROVE  TypeOK'
<1> DEFINE o == task[w].order
<1>1. task[w].pc \in {"billing", "reading", "invoicing", "attaching"}
      BY DEF TaskStep, BillBalance, ReadBills, CreateInvoice, InvoiceFails, AttachInvoice
<1>a. task[w] # Idle /\ task[w] \in Task
      BY <1>1 DEF TypeOK, Idle
<1>2. o \in Order
      BY <1>a DEF Task
<1>3. CASE BillBalance(w)
  <2>1. Doing("reading", o, task[w].left, 0) \in Task
        BY <1>a, <1>2, <1>1 DEF Doing, Task, Idle
  <2>2. Doing("reading", o, task[w].left, 0).pc = "reading"
        BY DEF Doing
  <2>3. bills' \in [Order -> [BillNo -> Bill]]
    <3>1. CASE WantsBalance(o, task[w].now)
      <4>1. Owed(o) \in Nat
            BY <1>2, <3>1, TermsType DEF TypeOK, WantsBalance, Owed
      <4>2. PICK n \in BillNo : bills' = [bills EXCEPT ![o][n] = PendingBill("balance", Owed(o))]
            BY <1>3, <3>1 DEF BillBalance, FreeBill
      <4> QED BY <1>2, <4>1, <4>2, PendingBillType
    <3>2. CASE ~WantsBalance(o, task[w].now)
          BY <1>3, <3>2 DEF BillBalance, TypeOK
    <3> QED BY <3>1, <3>2
  <2> QED BY <1>3, <2>1, <2>2, <2>3 DEF TypeOK, BillBalance
<1>4. CASE ReadBills(w)
  <2>1. CASE WithoutInvoice(o) = {}
    <3>1. Done(w, FALSE)
          BY <1>4, <2>1 DEF ReadBills
    <3> QED BY <1>4, <1>a, <3>1, DoneType DEF TypeOK, ReadBills
  <2>2. CASE WithoutInvoice(o) # {}
    <3>1. task' = [task EXCEPT ![w].pc = "invoicing", ![w].failed = task[w].failed,
                               ![w].todo = WithoutInvoice(o)]
          BY <1>4, <1>a, <2>2 DEF TypeOK, ReadBills, Task
    <3>2. task[w].failed \in BOOLEAN /\ WithoutInvoice(o) \in SUBSET BillNo
          BY <1>a DEF Task, WithoutInvoice
    <3> QED BY <1>4, <1>a, <2>2, <3>1, <3>2, GoesOnType DEF TypeOK, ReadBills
  <2> QED BY <2>1, <2>2
<1>5. CASE CreateInvoice(w)
  <2>1. task' = [task EXCEPT ![w].pc = "attaching", ![w].failed = task[w].failed,
                             ![w].todo = task[w].todo]
        BY <1>5, <1>a DEF TypeOK, CreateInvoice, Task
  <2>2. task[w].failed \in BOOLEAN /\ task[w].todo \in SUBSET BillNo /\ task[w].todo # {}
        BY <1>5, <1>a DEF TypeOK, CreateInvoice, Task
  <2> QED BY <1>5, <1>a, <2>1, <2>2, GoesOnType DEF TypeOK, CreateInvoice
<1>6. CASE InvoiceFails(w)
      BY <1>6, <1>a, NextBillType DEF TypeOK, InvoiceFails
<1>7. CASE AttachInvoice(w)
  <2>1. task[w].failed \in BOOLEAN
        BY <1>a DEF Task
  <2>2. PICK failed \in BOOLEAN : NextBill(w, failed)
        BY <1>7, <2>1 DEF AttachInvoice
  <2>3. bills' \in [Order -> [BillNo -> Bill]]
    <3>1. bills' = bills \/ bills' = [bills EXCEPT ![o][Current(w)].linked = TRUE]
          BY <1>7 DEF AttachInvoice
    <3>2. bills[o] \in [BillNo -> Bill]
          BY <1>2 DEF TypeOK
    <3>3. \A b \in Bill : [b EXCEPT !.linked = TRUE] \in Bill
          BY DEF Bill
    <3>4. [bills[o] EXCEPT ![Current(w)].linked = TRUE] \in [BillNo -> Bill]
          BY <3>2, <3>3
    <3>5. CASE bills' = [bills EXCEPT ![o] = [bills[o] EXCEPT ![Current(w)].linked = TRUE]]
          BY <1>2, <3>4, <3>5 DEF TypeOK
    <3> QED BY <3>1, <3>5 DEF TypeOK
  <2>4. task[w].pc \in {"invoicing", "attaching"}
        BY <1>7 DEF AttachInvoice
  <2>5. /\ task' \in [Worker -> Task]
        /\ \A v \in Worker : task'[v].pc \in {"invoicing", "attaching"} => task'[v].todo # {}
        /\ jobs' \in [Order -> [1 .. MaxAttempts -> Nat]]
        /\ dropped' \in [Order -> BOOLEAN]
        BY <2>2, <2>4, NextBillType
  <2> QED BY <1>7, <2>3, <2>5 DEF TypeOK, AttachInvoice
<1> QED BY <1>3, <1>4, <1>5, <1>6, <1>7 DEF TaskStep

\* No step breaks the types.
LEMMA NextType == TypeOK /\ [Next]_vars => TypeOK'
<1> SUFFICES ASSUME TypeOK, [Next]_vars PROVE TypeOK'
    OBVIOUS
<1>1. CASE Tick
  <2>1. clock' \in Nat
        BY <1>1 DEF TypeOK, Tick
  <2> QED BY <1>1, <2>1 DEF TypeOK, Tick
<1>2. ASSUME NEW o \in Order, Place(o) PROVE TypeOK'
  <2>1. terms[o] \in Terms
        BY DEF TypeOK
  <2>2. bills' \in [Order -> [BillNo -> Bill]]
        BY <1>2, <2>1, TermsType, PendingBillType DEF Place, FreeBill
  <2> QED BY <1>2, <2>2 DEF TypeOK, Place, OrderStatus
<1>3. ASSUME NEW o \in Order, NEW to \in ProductionSteps, Advance(o, to) PROVE TypeOK'
      BY <1>3 DEF TypeOK, Advance, ProductionSteps, OrderStatus
<1>4. ASSUME NEW o \in Order, NEW amount \in 1 .. terms[o].total, RecordPayment(o, amount)
      PROVE TypeOK'
      BY <1>4, RecordType
<1>5. ASSUME NEW o \in Order, CancelUnpaid(o) \/ CancelForfeit(o) \/ CancelRefund(o)
      PROVE TypeOK'
  <2>1. bills' \in [Order -> [BillNo -> Bill]]
    <3>1. ExpirePending(o) \in [BillNo -> Bill]
          BY ExpirePendingType
    <3>2. bills' = [bills EXCEPT ![o] = ExpirePending(o)]
          BY <1>5 DEF CancelUnpaid, CancelForfeit, CancelRefund, End
    <3> QED BY <3>1, <3>2 DEF TypeOK
  <2>2. status' \in [Order -> OrderStatus \cup {"none"}] /\ payment' \in [Order -> PaymentStatus]
        BY <1>5 DEF TypeOK, CancelUnpaid, CancelForfeit, CancelRefund, End, OrderStatus, PaymentStatus
  <2>3. paid' \in [Order -> Nat]
        BY <1>5 DEF TypeOK, CancelUnpaid, CancelForfeit, CancelRefund
  <2> QED BY <1>5, <2>1, <2>2, <2>3 DEF TypeOK, CancelUnpaid, CancelForfeit, CancelRefund
<1>6. ASSUME NEW s \in Sweeper, NEW kind \in {"expire", "forfeit"}, StartSweep(s, kind)
      PROVE TypeOK'
  <2>1. PICK todo \in SUBSET Order :
             sweep' = [sweep EXCEPT ![s] = [kind |-> kind, now |-> clock, todo |-> todo]]
        BY <1>6 DEF StartSweep, Found
  <2>2. sweep' \in [Sweeper -> [kind : {"none", "expire", "forfeit"}, now : Nat, todo : SUBSET Order]]
        BY <2>1 DEF TypeOK
  <2> QED BY <1>6, <2>2 DEF TypeOK, StartSweep
<1>7. ASSUME NEW s \in Sweeper, NEW o \in Order, SweepOrder(s, o) \/ SkipOrder(s, o)
      PROVE TypeOK'
  <2>1. sweep' \in [Sweeper -> [kind : {"none", "expire", "forfeit"}, now : Nat, todo : SUBSET Order]]
    <3>1. Swept(s, o) \in [kind : {"none", "expire", "forfeit"}, now : Nat, todo : SUBSET Order]
          BY DEF TypeOK, Swept, Resting
    <3> QED BY <1>7, <3>1 DEF TypeOK, SweepOrder, SkipOrder
  <2>2. CASE SkipOrder(s, o)
        BY <2>1, <2>2 DEF TypeOK, SkipOrder
  <2>3. CASE SweepOrder(s, o)
    <3>1. bills' \in [Order -> [BillNo -> Bill]]
      <4>1. ExpirePending(o) \in [BillNo -> Bill]
            BY ExpirePendingType
      <4>2. bills' = bills \/ bills' = [bills EXCEPT ![o] = ExpirePending(o)]
            BY <2>3 DEF SweepOrder, End
      <4> QED BY <4>1, <4>2 DEF TypeOK
    <3>2. status' \in [Order -> OrderStatus \cup {"none"}] /\ payment' \in [Order -> PaymentStatus]
          BY <2>3 DEF TypeOK, SweepOrder, End, OrderStatus, PaymentStatus
    <3> QED BY <2>1, <2>3, <3>1, <3>2 DEF TypeOK, SweepOrder
  <2> QED BY <1>7, <2>2, <2>3
<1>8. ASSUME NEW s \in Sweeper, StopSweep(s) PROVE TypeOK'
      BY <1>8 DEF TypeOK, StopSweep, Resting
<1>9. ASSUME NEW w \in Worker, NEW o \in Order, OpenOrder(w, o) PROVE TypeOK'
  <2>1. Doing("reading", o, NotAJob, 0) \in Task
        BY BoundsAssumption DEF Doing, Task, NotAJob
  <2>2. Doing("reading", o, NotAJob, 0).pc = "reading"
        BY DEF Doing
  <2> QED BY <1>9, <2>1, <2>2 DEF TypeOK, OpenOrder
<1>10. ASSUME NEW w \in Worker, NEW o \in Order, NEW a \in 1 .. MaxAttempts, StartJob(w, o, a)
       PROVE TypeOK'
  <2>1. Doing("billing", o, a - 1, clock) \in Task
        BY BoundsAssumption DEF TypeOK, Doing, Task, NotAJob
  <2>2. Doing("billing", o, a - 1, clock).pc = "billing"
        BY DEF Doing
  <2>3. jobs[o] \in [1 .. MaxAttempts -> Nat]
        BY DEF TypeOK
  <2>4. jobs[o][a] - 1 \in Nat
    <3>1. jobs[o][a] \in Nat
          BY <2>3
    <3> QED BY <1>10, <3>1 DEF StartJob
  <2>5. jobs' \in [Order -> [1 .. MaxAttempts -> Nat]]
        BY <1>10, <2>3, <2>4 DEF TypeOK, StartJob
  <2> QED BY <1>10, <2>1, <2>2, <2>5 DEF TypeOK, StartJob
<1>11. ASSUME NEW w \in Worker, TaskStep(w) PROVE TypeOK'
       BY <1>11, TaskStepType
<1>12. ASSUME NEW w \in Worker, Stop(w) PROVE TypeOK'
       BY <1>12, DoneType DEF TypeOK, Stop
<1>13. CASE UNCHANGED vars
       BY <1>13 DEF TypeOK, vars
<1> QED BY <1>1, <1>2, <1>3, <1>4, <1>5, <1>6, <1>7, <1>8, <1>9, <1>10, <1>11, <1>12, <1>13
        DEF Next, Staff, Sweeps

\* Type correctness: whatever orders, sweeps and workers there are, the state
\* keeps the shape the code gives it.
THEOREM TypeCorrect == Spec => []TypeOK
<1>1. TypeOK /\ [Next]_vars => TypeOK'
      BY NextType
<1> QED BY InitType, <1>1, PTL DEF Spec

-----------------------------------------------------------------------------
\* Safety.

\* The order's status says which payment statuses it may have.
StatusMatchesPayment ==
  \A o \in Order :
    /\ status[o] \in {"none", "awaiting_dp", "expired"} => payment[o] = "unpaid"
    /\ status[o] = "confirmed" => payment[o] \in {"dp_paid", "paid_in_full"}
    /\ status[o] \in {"in_production", "ready", "out_for_delivery", "completed"} =>
         payment[o] = "paid_in_full"
    /\ status[o] = "cancelled" => payment[o] \in ClosedPayment

\* A sweep works with a time that has been.
SweepsLag == \A s \in Sweeper : sweep[s].now <= clock

IInv ==
  /\ TypeOK
  /\ StatusMatchesPayment
  /\ LedgerAgrees
  /\ OpenBillIsOwed
  /\ ForfeitOnlyWhenDue
  /\ SweepsLag

\* The shop starts with the inductive invariant.
LEMMA InitSafe == Init => IInv
<1> SUFFICES ASSUME Init PROVE IInv
    OBVIOUS
<1>1. TypeOK
      BY InitType
<1>2. StatusMatchesPayment /\ LedgerAgrees /\ ForfeitOnlyWhenDue
      BY DEF Init, StatusMatchesPayment, LedgerAgrees, ForfeitOnlyWhenDue
<1>3. OpenBillIsOwed
      BY DEF Init, OpenBillIsOwed, NoBill
<1>4. SweepsLag
      BY DEF Init, SweepsLag, Resting
<1> QED BY <1>1, <1>2, <1>3, <1>4 DEF IInv

\* A step that leaves the orders and their money alone.
LEMMA QuietStep ==
  ASSUME IInv, TypeOK', clock <= clock', SweepsLag',
         UNCHANGED <<status, payment, terms, paid, bills>>
  PROVE  IInv'
<1>1. StatusMatchesPayment'
      BY DEF IInv, StatusMatchesPayment
<1>2. LedgerAgrees'
      BY DEF IInv, LedgerAgrees
<1>3. OpenBillIsOwed'
      BY DEF IInv, OpenBillIsOwed, Owed
<1>4. ForfeitOnlyWhenDue'
  <2> SUFFICES ASSUME NEW o \in Order, payment[o] = "forfeited"
               PROVE  status[o] = "cancelled" /\ clock' >= terms[o].balanceDue /\ Owed(o) > 0
      BY DEF ForfeitOnlyWhenDue, Owed
  <2>1. terms[o].balanceDue \in Nat /\ clock \in Nat /\ clock' \in Nat
        BY TermsType DEF IInv, TypeOK
  <2> QED BY <2>1 DEF IInv, ForfeitOnlyWhenDue
<1> QED BY <1>1, <1>2, <1>3, <1>4 DEF IInv

\* A step that ends an order and expires its bills.
LEMMA EndStep ==
  ASSUME IInv, TypeOK', SweepsLag', UNCHANGED <<clock, terms>>, NEW o \in Order,
         NEW to \in {"expired", "cancelled"}, NEW pay \in PaymentStatus, End(o, to, pay),
         paid' = [paid EXCEPT ![o] = IF pay = "refunded" THEN 0 ELSE @],
         \/ to = "expired" /\ status[o] = "awaiting_dp" /\ pay = payment[o] /\ pay = "unpaid"
         \/ to = "cancelled" /\ pay = "refunded"
         \/ /\ to = "cancelled" /\ pay = "forfeited" /\ payment[o] = "dp_paid"
            /\ clock >= terms[o].balanceDue
  PROVE  IInv'
<1> USE DEF IInv
<1>1. /\ status' = [status EXCEPT ![o] = to]
      /\ payment' = [payment EXCEPT ![o] = pay]
      /\ bills' = [bills EXCEPT ![o] = ExpirePending(o)]
      BY DEF End
<1>2. \A n \in BillNo : bills'[o][n].state # "pending"
  <2>1. bills'[o] = ExpirePending(o)
        BY <1>1 DEF TypeOK
  <2> QED BY <2>1, ExpirePendingType
<1>3. terms[o] \in Terms /\ paid[o] \in Nat
      BY DEF TypeOK
<1>4. StatusMatchesPayment'
  <2>1. ASSUME NEW p \in Order, p # o
        PROVE  status'[p] = status[p] /\ payment'[p] = payment[p]
        BY <1>1, <2>1 DEF TypeOK
  <2>2. status'[o] = to /\ payment'[o] = pay
        BY <1>1 DEF TypeOK
  <2> QED BY <2>1, <2>2 DEF StatusMatchesPayment, ClosedPayment
<1>5. LedgerAgrees'
  <2> SUFFICES ASSUME NEW p \in Order
               PROVE  CASE payment'[p] = "unpaid"       -> paid'[p] = 0
                        [] payment'[p] = "dp_paid"      -> terms[p].dp <= paid'[p] /\ paid'[p] < terms[p].total
                        [] payment'[p] = "paid_in_full" -> paid'[p] = terms[p].total
                        [] payment'[p] = "forfeited"    -> terms[p].dp <= paid'[p] /\ paid'[p] < terms[p].total
                        [] payment'[p] = "refunded"     -> paid'[p] = 0
      BY DEF LedgerAgrees
  <2>1. CASE p = o
        BY <1>1, <2>1 DEF TypeOK, LedgerAgrees, PaymentStatus
  <2>2. CASE p # o
        BY <1>1, <2>2 DEF TypeOK, LedgerAgrees, PaymentStatus
  <2> QED BY <2>1, <2>2
<1>6. OpenBillIsOwed'
  <2> SUFFICES ASSUME NEW p \in Order, NEW n \in BillNo, bills'[p][n].state = "pending"
               PROVE  p # o /\ bills'[p] = bills[p] /\ status'[p] = status[p]
                      /\ payment'[p] = payment[p] /\ paid'[p] = paid[p]
      BY DEF OpenBillIsOwed, Owed
  <2> QED BY <1>1, <1>2 DEF TypeOK
<1>7. ForfeitOnlyWhenDue'
  <2> SUFFICES ASSUME NEW p \in Order, payment'[p] = "forfeited"
               PROVE  status'[p] = "cancelled" /\ clock >= terms[p].balanceDue /\ terms[p].total - paid'[p] > 0
      BY DEF ForfeitOnlyWhenDue, Owed
  <2>1. CASE p = o
    <3>1. pay = "forfeited" /\ status'[p] = to
          BY <1>1, <2>1 DEF TypeOK
    <3>2. payment[o] = "dp_paid" /\ clock >= terms[o].balanceDue /\ paid'[p] = paid[o]
          BY <2>1, <3>1 DEF TypeOK
    <3>3. paid[o] < terms[o].total
          BY <3>2 DEF LedgerAgrees
    <3> QED BY <1>3, <2>1, <3>1, <3>2, <3>3, TermsType
  <2>2. CASE p # o
        BY <1>1, <2>2 DEF TypeOK, ForfeitOnlyWhenDue, Owed
  <2> QED BY <2>1, <2>2
<1> QED BY <1>4, <1>5, <1>6, <1>7

\* Settle, for payments that take more and a sum that covers the DP.
LEMMA SettleAgrees ==
  ASSUME NEW total \in Nat, NEW dp \in Nat, NEW sum \in Nat,
         0 < dp, dp <= total, dp <= sum, sum <= total,
         NEW current \in {"unpaid", "dp_paid"}
  PROVE  /\ sum < total => Settle(current, total, dp, sum) = "dp_paid"
         /\ sum = total => Settle(current, total, dp, sum) = "paid_in_full"
<1>1. CASE sum < total
      BY <1>1 DEF Settle, Reached, Rank
<1>2. CASE sum = total
      BY <1>2 DEF Settle, Reached, Rank
<1> QED BY <1>1, <1>2

\* A placed order brings one bill, for what is owed first.
LEMMA PlaceStep ==
  ASSUME IInv, TypeOK', NEW o \in Order, Place(o)
  PROVE  IInv'
<1> USE DEF IInv
<1>1. terms[o] \in Terms /\ paid[o] = 0 /\ payment[o] = "unpaid"
      BY DEF TypeOK, Place, StatusMatchesPayment, LedgerAgrees
<1>2. \A n \in BillNo : bills[o][n].state # "pending"
      BY DEF OpenBillIsOwed, Place
<1>3. PICK n \in BillNo :
        \/ bills' = [bills EXCEPT ![o][n] = PendingBill("full", terms[o].total)]
        \/ bills' = [bills EXCEPT ![o][n] = PendingBill("dp", terms[o].dp)]
      BY DEF Place, FreeBill
<1>4. status' = [status EXCEPT ![o] = "awaiting_dp"]
      BY DEF Place
<1>5. StatusMatchesPayment' /\ LedgerAgrees'
      BY <1>1, <1>4 DEF Place, TypeOK, StatusMatchesPayment, LedgerAgrees
<1>6. OpenBillIsOwed'
  <2>1. \A p \in Order : p # o => bills'[p] = bills[p] /\ status'[p] = status[p]
        BY <1>3, <1>4 DEF TypeOK
  <2>2. /\ status'[o] = "awaiting_dp"
        /\ \A m \in BillNo : m # n => bills'[o][m] = bills[o][m]
        /\ \/ bills'[o][n] = PendingBill("full", terms[o].total)
           \/ bills'[o][n] = PendingBill("dp", terms[o].dp)
        BY <1>3, <1>4 DEF TypeOK
  <2>3. UNCHANGED <<payment, paid, terms>>
        BY DEF Place
  <2> SUFFICES ASSUME NEW p \in Order, NEW m \in BillNo, bills'[p][m].state = "pending"
               PROVE  /\ \A k \in BillNo : bills'[p][k].state = "pending" => k = m
                      /\ \/ /\ status'[p] = "awaiting_dp" /\ paid[p] = 0
                            /\ \/ bills'[p][m].kind = "dp" /\ bills'[p][m].amount = terms[p].dp
                               \/ bills'[p][m].kind = "full" /\ bills'[p][m].amount = terms[p].total
                         \/ /\ status'[p] = "confirmed" /\ payment[p] = "dp_paid"
                            /\ bills'[p][m].kind = "balance" /\ bills'[p][m].amount = Owed(p)
      BY <2>3 DEF OpenBillIsOwed, Owed
  <2>4. CASE p = o
        BY <1>1, <1>2, <2>2, <2>4 DEF PendingBill
  <2>5. CASE p # o
        BY <2>1, <2>5 DEF OpenBillIsOwed
  <2> QED BY <2>4, <2>5
<1>7. ForfeitOnlyWhenDue'
      BY <1>1, <1>4 DEF Place, TypeOK, ForfeitOnlyWhenDue, Owed
<1>8. SweepsLag'
      BY DEF Place, SweepsLag
<1> QED BY <1>5, <1>6, <1>7, <1>8

\* A step through production starts from an order paid in full.
LEMMA AdvanceStep ==
  ASSUME IInv, TypeOK', NEW o \in Order, NEW to \in ProductionSteps, Advance(o, to)
  PROVE  IInv'
<1> USE DEF IInv
<1>1. /\ status[o] \in {"confirmed", "in_production", "ready"} /\ payment[o] = "paid_in_full"
      /\ status' = [status EXCEPT ![o] = to]
      BY DEF Advance, CanMove, Lifecycle, Edge, ProductionSteps
<1>2. UNCHANGED <<clock, payment, terms, paid, bills, sweep>>
      BY DEF Advance
<1>3. \A n \in BillNo : bills[o][n].state # "pending"
      BY <1>1 DEF OpenBillIsOwed
<1>4. StatusMatchesPayment'
      BY <1>1, <1>2 DEF TypeOK, StatusMatchesPayment, ProductionSteps
<1>5. LedgerAgrees' /\ SweepsLag'
      BY <1>2 DEF LedgerAgrees, SweepsLag
<1>6. OpenBillIsOwed'
  <2>1. ASSUME NEW p \in Order, NEW n \in BillNo, bills[p][n].state = "pending"
        PROVE  status'[p] = status[p]
        BY <1>1, <1>3, <2>1 DEF TypeOK
  <2> QED BY <1>2, <2>1 DEF OpenBillIsOwed, Owed
<1>7. ForfeitOnlyWhenDue'
      BY <1>1, <1>2 DEF TypeOK, ForfeitOnlyWhenDue, Owed
<1> QED BY <1>4, <1>5, <1>6, <1>7

\* What a recorded payment makes of the order it is for.
LEMMA Recorded ==
  ASSUME IInv, NEW o \in Order, NEW amount \in 1 .. terms[o].total, RecordPayment(o, amount)
  PROVE  /\ status[o] \in {"awaiting_dp", "confirmed"} /\ payment[o] \in {"unpaid", "dp_paid"}
         /\ status'[o] = "confirmed" /\ paid'[o] = paid[o] + amount
         /\ \/ payment'[o] = "dp_paid" /\ terms[o].dp <= paid'[o] /\ paid'[o] < terms[o].total
            \/ payment'[o] = "paid_in_full" /\ paid'[o] = terms[o].total
         /\ \A n \in BillNo : bills'[o][n].state # "pending"
<1> USE DEF IInv
<1>1. /\ terms[o].total \in Nat /\ terms[o].dp \in Nat /\ 0 < terms[o].dp /\ terms[o].dp <= terms[o].total
      /\ paid[o] \in Nat /\ amount \in Nat /\ amount > 0
  <2>1. terms[o] \in Terms
        BY DEF TypeOK
  <2> QED BY <2>1, TermsType DEF TypeOK
<1>2. /\ payment[o] \notin ClosedPayment /\ status[o] \in {"awaiting_dp", "confirmed"}
      /\ terms[o].total - paid[o] > 0 /\ amount <= terms[o].total - paid[o]
      /\ status[o] = "confirmed" \/ paid[o] + amount >= terms[o].dp
      BY DEF RecordPayment, TakesPayment, Owed
<1>3. payment[o] \in {"unpaid", "dp_paid"}
  <2>1. payment[o] \in PaymentStatus /\ paid[o] # terms[o].total
        BY <1>1, <1>2 DEF TypeOK
  <2>2. payment[o] = "paid_in_full" => paid[o] = terms[o].total
        BY DEF LedgerAgrees
  <2> QED BY <1>2, <2>1, <2>2 DEF PaymentStatus, ClosedPayment
<1>4. terms[o].dp <= paid[o] + amount
  <2>1. CASE status[o] = "confirmed"
    <3>1. payment[o] = "dp_paid"
          BY <1>3, <2>1 DEF StatusMatchesPayment
    <3>2. terms[o].dp <= paid[o]
          BY <3>1 DEF LedgerAgrees
    <3> QED BY <1>1, <3>2
  <2> QED BY <1>1, <1>2, <2>1
<1>5. /\ status'[o] = "confirmed" /\ paid'[o] = paid[o] + amount
      /\ payment'[o] = Settle(payment[o], terms[o].total, terms[o].dp, paid[o] + amount)
      /\ bills'[o] = ExpirePending(o)
      BY DEF RecordPayment, TypeOK
<1>6. /\ paid[o] + amount < terms[o].total => payment'[o] = "dp_paid"
      /\ paid[o] + amount = terms[o].total => payment'[o] = "paid_in_full"
  <2> DEFINE sum == paid[o] + amount
  <2>1. sum \in Nat /\ paid[o] < sum /\ terms[o].dp <= sum /\ sum <= terms[o].total
        BY <1>1, <1>2, <1>4
  <2> HIDE DEF sum
  <2>2. /\ sum < terms[o].total => Settle(payment[o], terms[o].total, terms[o].dp, sum) = "dp_paid"
        /\ sum = terms[o].total => Settle(payment[o], terms[o].total, terms[o].dp, sum) = "paid_in_full"
    <3> DEFINE total == terms[o].total
               dp == terms[o].dp
    <3>1. total \in Nat /\ dp \in Nat /\ 0 < dp /\ dp <= total /\ dp <= sum /\ sum <= total
          BY <1>1, <2>1
    <3> HIDE DEF total, dp
    <3>2. /\ sum < total => Settle(payment[o], total, dp, sum) = "dp_paid"
          /\ sum = total => Settle(payment[o], total, dp, sum) = "paid_in_full"
          BY <1>3, <2>1, <3>1, SettleAgrees
    <3> QED BY <3>2 DEF total, dp
  <2> QED BY <1>5, <2>2 DEF sum
<1>7. \A n \in BillNo : bills'[o][n].state # "pending"
      BY <1>5, ExpirePendingType
<1> QED BY <1>1, <1>2, <1>3, <1>4, <1>5, <1>6, <1>7

\* A recorded payment keeps the inductive invariant.
LEMMA RecordStep ==
  ASSUME IInv, TypeOK', NEW o \in Order, NEW amount \in 1 .. terms[o].total,
         RecordPayment(o, amount)
  PROVE  IInv'
<1> USE DEF IInv
<1>1. ASSUME NEW p \in Order, p # o
      PROVE  status'[p] = status[p] /\ payment'[p] = payment[p] /\ paid'[p] = paid[p] /\ bills'[p] = bills[p]
      BY <1>1 DEF RecordPayment, TypeOK
<1>2. UNCHANGED <<clock, terms, sweep>>
      BY DEF RecordPayment
<1>3. StatusMatchesPayment'
      BY <1>1, Recorded DEF StatusMatchesPayment
<1>4. LedgerAgrees'
      BY <1>1, <1>2, Recorded DEF LedgerAgrees
<1>5. OpenBillIsOwed'
  <2>1. \A n \in BillNo : bills'[o][n].state # "pending"
        BY Recorded
  <2> QED BY <1>1, <1>2, <2>1 DEF OpenBillIsOwed, Owed
<1>6. ForfeitOnlyWhenDue'
  <2>1. payment'[o] # "forfeited"
        BY Recorded
  <2> QED BY <1>1, <1>2, <2>1 DEF ForfeitOnlyWhenDue, Owed
<1>7. SweepsLag'
      BY <1>2 DEF SweepsLag
<1> QED BY <1>3, <1>4, <1>5, <1>6, <1>7

\* One order of a sweep; the sweep's time may be old, never ahead.
LEMMA SweepStep ==
  ASSUME IInv, TypeOK', NEW s \in Sweeper, NEW o \in Order, SweepOrder(s, o)
  PROVE  IInv'
<1> USE DEF IInv
<1>1. UNCHANGED <<clock, terms, paid>>
      BY DEF SweepOrder
<1>2. SweepsLag'
  <2>1. sweep' = [sweep EXCEPT ![s] = Swept(s, o)]
        BY DEF SweepOrder
  <2>2. Swept(s, o).now <= clock
        BY DEF TypeOK, SweepsLag, Swept, Resting
  <2>3. \A r \in Sweeper : sweep'[r].now <= clock
        BY <2>1, <2>2 DEF TypeOK, SweepsLag
  <2> QED BY <1>1, <2>3 DEF SweepsLag
<1>3. CASE ~StillOverdue(s, o)
  <2>1. UNCHANGED <<status, payment, bills>>
        BY <1>3 DEF SweepOrder
  <2>2. clock <= clock'
        BY <1>1 DEF TypeOK
  <2> QED BY <1>1, <1>2, <2>1, <2>2, QuietStep
<1>4. CASE StillOverdue(s, o) /\ sweep[s].kind = "expire"
  <2>1. End(o, "expired", payment[o])
        BY <1>4 DEF SweepOrder
  <2>2. status[o] = "awaiting_dp" /\ payment[o] = "unpaid"
        BY <1>4 DEF StillOverdue, Overdue
  <2>3. paid' = [paid EXCEPT ![o] = IF "unpaid" = "refunded" THEN 0 ELSE @]
        BY <1>1 DEF TypeOK
  <2> QED BY <1>1, <1>2, <2>1, <2>2, <2>3, EndStep DEF PaymentStatus
<1>5. CASE StillOverdue(s, o) /\ sweep[s].kind # "expire"
  <2>1. End(o, "cancelled", "forfeited")
        BY <1>5 DEF SweepOrder
  <2>2. payment[o] = "dp_paid" /\ sweep[s].now >= terms[o].balanceDue + Grace
        BY <1>5 DEF StillOverdue, Overdue, Deadline
  <2>3. paid' = [paid EXCEPT ![o] = IF "forfeited" = "refunded" THEN 0 ELSE @]
        BY <1>1 DEF TypeOK
  <2>4. clock >= terms[o].balanceDue
    <3>1. /\ terms[o].balanceDue \in Nat /\ clock \in Nat /\ sweep[s].now \in Nat /\ Grace \in Nat
          /\ sweep[s].now <= clock
          BY TermsType, BoundsAssumption DEF TypeOK, SweepsLag
    <3> QED BY <2>2, <3>1
  <2> QED BY <1>1, <1>2, <2>1, <2>2, <2>3, <2>4, EndStep DEF PaymentStatus
<1> QED BY <1>3, <1>4, <1>5

\* Each way staff cancels keeps the inductive invariant.
LEMMA CancelStep ==
  ASSUME IInv, TypeOK', NEW o \in Order, CancelUnpaid(o) \/ CancelForfeit(o) \/ CancelRefund(o)
  PROVE  IInv'
<1> USE DEF IInv
<1>1. UNCHANGED <<clock, terms, sweep>>
      BY DEF CancelUnpaid, CancelForfeit, CancelRefund
<1>2. SweepsLag'
      BY <1>1 DEF SweepsLag
<1>3. CASE CancelUnpaid(o)
  <2>1. status[o] = "awaiting_dp" /\ payment[o] = "unpaid" /\ End(o, "expired", payment[o])
        BY <1>3 DEF CancelUnpaid, CanMove, Lifecycle, Edge
  <2>2. paid' = [paid EXCEPT ![o] = IF "unpaid" = "refunded" THEN 0 ELSE @]
        BY <1>3 DEF CancelUnpaid, TypeOK
  <2> QED BY <1>1, <1>2, <2>1, <2>2, EndStep DEF PaymentStatus
<1>4. CASE CancelForfeit(o)
  <2>1. /\ payment[o] = "dp_paid" /\ clock >= terms[o].balanceDue
        /\ End(o, "cancelled", "forfeited")
        BY <1>4 DEF CancelForfeit, CanClose
  <2>2. paid' = [paid EXCEPT ![o] = IF "forfeited" = "refunded" THEN 0 ELSE @]
        BY <1>4 DEF CancelForfeit, TypeOK
  <2> QED BY <1>1, <1>2, <2>1, <2>2, EndStep DEF PaymentStatus
<1>5. CASE CancelRefund(o)
  <2>1. End(o, "cancelled", "refunded")
        BY <1>5 DEF CancelRefund
  <2>2. paid' = [paid EXCEPT ![o] = IF "refunded" = "refunded" THEN 0 ELSE @]
        BY <1>5 DEF CancelRefund
  <2> QED BY <1>1, <1>2, <2>1, <2>2, EndStep DEF PaymentStatus
<1> QED BY <1>3, <1>4, <1>5

\* A job bills the balance only while none is billed, and all of it.
LEMMA BillStep ==
  ASSUME IInv, TypeOK', NEW w \in Worker, BillBalance(w)
  PROVE  IInv'
<1> USE DEF IInv
<1> DEFINE o == task[w].order
<1>1. UNCHANGED <<clock, status, payment, terms, paid, sweep>>
      BY DEF BillBalance
<1>2. SweepsLag' /\ clock <= clock'
      BY <1>1 DEF SweepsLag, TypeOK
<1>3. CASE ~WantsBalance(o, task[w].now)
  <2>1. UNCHANGED bills
        BY <1>3 DEF BillBalance
  <2> QED BY <1>1, <1>2, <2>1, QuietStep
<1>4. CASE WantsBalance(o, task[w].now)
  <2>1. PICK n \in BillNo : bills' = [bills EXCEPT ![o][n] = PendingBill("balance", Owed(o))]
        BY <1>4 DEF BillBalance, FreeBill
  <2>2. o \in Order
    <3>1. task[w].pc = "billing" /\ task[w] \in Task
          BY DEF BillBalance, TypeOK
    <3> QED BY <3>1 DEF Task, Idle
  <2>3. status[o] = "confirmed" /\ payment[o] = "dp_paid"
        BY <1>4 DEF WantsBalance
  <2>4. \A m \in BillNo : bills[o][m].state # "pending"
        BY <1>4, <2>2, <2>3 DEF WantsBalance, Billed, OpenBillIsOwed
  <2> HIDE DEF o
  <2>5. \A p \in Order : p # o => bills'[p] = bills[p]
        BY <2>1 DEF TypeOK
  <2>6. /\ \A m \in BillNo : m # n => bills'[o][m] = bills[o][m]
        /\ bills'[o][n] = PendingBill("balance", Owed(o))
        BY <2>1, <2>2 DEF TypeOK
  <2>7. OpenBillIsOwed'
    <3> SUFFICES ASSUME NEW p \in Order, NEW m \in BillNo, bills'[p][m].state = "pending"
                 PROVE  /\ \A k \in BillNo : bills'[p][k].state = "pending" => k = m
                        /\ \/ /\ status[p] = "awaiting_dp" /\ paid[p] = 0
                              /\ \/ bills'[p][m].kind = "dp" /\ bills'[p][m].amount = terms[p].dp
                                 \/ bills'[p][m].kind = "full" /\ bills'[p][m].amount = terms[p].total
                           \/ /\ status[p] = "confirmed" /\ payment[p] = "dp_paid"
                              /\ bills'[p][m].kind = "balance" /\ bills'[p][m].amount = Owed(p)
        BY <1>1 DEF OpenBillIsOwed, Owed
    <3>1. CASE p = o
          BY <2>3, <2>4, <2>6, <3>1 DEF PendingBill
    <3>2. CASE p # o
          BY <2>5, <3>2 DEF OpenBillIsOwed
    <3> QED BY <3>1, <3>2
  <2>8. StatusMatchesPayment' /\ LedgerAgrees' /\ ForfeitOnlyWhenDue'
        BY <1>1 DEF StatusMatchesPayment, LedgerAgrees, ForfeitOnlyWhenDue, Owed
  <2> QED BY <1>2, <2>7, <2>8
<1> QED BY <1>3, <1>4

\* A link changes nothing else about its bill.
LEMMA AttachStep ==
  ASSUME IInv, TypeOK', NEW w \in Worker, AttachInvoice(w)
  PROVE  IInv'
<1> USE DEF IInv
<1> DEFINE o == task[w].order
           n == Current(w)
<1>1. UNCHANGED <<clock, status, payment, terms, paid, sweep>>
      BY DEF AttachInvoice
<1>2. bills' = bills \/ bills' = [bills EXCEPT ![o][n].linked = TRUE]
      BY DEF AttachInvoice
<1> HIDE DEF o, n
<1>3. ASSUME NEW p \in Order, NEW m \in BillNo
      PROVE  /\ bills'[p][m].state = bills[p][m].state /\ bills'[p][m].kind = bills[p][m].kind
             /\ bills'[p][m].amount = bills[p][m].amount
  <2>1. bills[p] \in [BillNo -> Bill] /\ bills[p][m] \in Bill
        BY DEF TypeOK
  <2>2. bills'[p] = bills[p] \/ bills'[p] = [bills[p] EXCEPT ![n].linked = TRUE]
        BY <1>2 DEF TypeOK
  <2>3. bills'[p][m] = bills[p][m] \/ bills'[p][m] = [bills[p][m] EXCEPT !.linked = TRUE]
        BY <2>1, <2>2
  <2> QED BY <2>1, <2>3 DEF Bill
<1>4. OpenBillIsOwed'
  <2> SUFFICES ASSUME NEW p \in Order, NEW m \in BillNo, bills[p][m].state = "pending"
               PROVE  /\ \A k \in BillNo : bills[p][k].state = "pending" => k = m
                      /\ \/ /\ status[p] = "awaiting_dp" /\ paid[p] = 0
                            /\ \/ bills[p][m].kind = "dp" /\ bills[p][m].amount = terms[p].dp
                               \/ bills[p][m].kind = "full" /\ bills[p][m].amount = terms[p].total
                         \/ /\ status[p] = "confirmed" /\ payment[p] = "dp_paid"
                            /\ bills[p][m].kind = "balance" /\ bills[p][m].amount = Owed(p)
      BY <1>1, <1>3 DEF OpenBillIsOwed, Owed
  <2> QED BY DEF OpenBillIsOwed
<1>5. StatusMatchesPayment' /\ LedgerAgrees' /\ ForfeitOnlyWhenDue' /\ SweepsLag'
      BY <1>1 DEF StatusMatchesPayment, LedgerAgrees, ForfeitOnlyWhenDue, Owed, SweepsLag
<1> QED BY <1>4, <1>5

\* No step breaks the inductive invariant.
LEMMA NextSafe == IInv /\ [Next]_vars => IInv'
<1> SUFFICES ASSUME IInv, [Next]_vars PROVE IInv'
    OBVIOUS
<1>0. TypeOK'
      BY NextType DEF IInv
<1> DEFINE Quiet == UNCHANGED <<status, payment, terms, paid, bills>>
<1>1. ASSUME Quiet, clock' = clock \/ clock' = clock + 1, SweepsLag' PROVE IInv'
  <2>1. clock <= clock'
        BY <1>1 DEF IInv, TypeOK
  <2> QED BY <1>0, <1>1, <2>1, QuietStep
<1>2. ASSUME UNCHANGED <<clock, sweep>> PROVE SweepsLag'
      BY <1>2 DEF IInv, SweepsLag
<1>3. CASE Tick
  <2>1. SweepsLag'
    <3>1. \A s \in Sweeper : sweep[s].now \in Nat /\ sweep[s].now <= clock
          BY DEF IInv, TypeOK, SweepsLag
    <3>2. clock \in Nat /\ clock' = clock + 1 /\ sweep' = sweep
          BY <1>3 DEF IInv, TypeOK, Tick
    <3> QED BY <3>1, <3>2 DEF SweepsLag
  <2> QED BY <1>1, <1>3, <2>1 DEF Tick
<1>4. ASSUME NEW o \in Order, Place(o) PROVE IInv'
      BY <1>0, <1>4, PlaceStep
<1>5. ASSUME NEW o \in Order, Staff(o) PROVE IInv'
      BY <1>0, <1>5, AdvanceStep, RecordStep, CancelStep DEF Staff
<1>6. ASSUME NEW s \in Sweeper, Sweeps(s) \/ StopSweep(s) PROVE IInv'
  <2>1. ASSUME NEW kind \in {"expire", "forfeit"}, StartSweep(s, kind) PROVE IInv'
    <3>1. PICK todo \in SUBSET Order :
               sweep' = [sweep EXCEPT ![s] = [kind |-> kind, now |-> clock, todo |-> todo]]
          BY <2>1 DEF StartSweep, Found
    <3>2. SweepsLag'
          BY <2>1, <3>1 DEF IInv, TypeOK, SweepsLag, StartSweep
    <3> QED BY <1>1, <2>1, <3>2 DEF StartSweep
  <2>2. ASSUME NEW o \in Order, SweepOrder(s, o) PROVE IInv'
        BY <1>0, <2>2, SweepStep
  <2>3. ASSUME NEW o \in Order, SkipOrder(s, o) PROVE IInv'
    <3>1. sweep' = [sweep EXCEPT ![s] = Swept(s, o)] /\ clock' = clock
          BY <2>3 DEF SkipOrder
    <3>2. Swept(s, o).now <= clock
          BY DEF IInv, TypeOK, SweepsLag, Swept, Resting
    <3>3. SweepsLag'
          BY <3>1, <3>2 DEF IInv, TypeOK, SweepsLag
    <3> QED BY <1>1, <2>3, <3>3 DEF SkipOrder
  <2>4. ASSUME StopSweep(s) PROVE IInv'
    <3>1. SweepsLag'
          BY <2>4 DEF IInv, TypeOK, SweepsLag, StopSweep, Resting
    <3> QED BY <1>1, <2>4, <3>1 DEF StopSweep
  <2> QED BY <1>6, <2>1, <2>2, <2>3, <2>4 DEF Sweeps
<1>7. ASSUME NEW w \in Worker, NEW o \in Order,
             OpenOrder(w, o) \/ \E a \in 1 .. MaxAttempts : StartJob(w, o, a)
      PROVE  IInv'
      BY <1>1, <1>2, <1>7 DEF OpenOrder, StartJob
<1>8. ASSUME NEW w \in Worker, TaskStep(w) \/ Stop(w) PROVE IInv'
  <2>1. CASE BillBalance(w)
        BY <1>0, <2>1, BillStep
  <2>2. CASE AttachInvoice(w)
        BY <1>0, <2>2, AttachStep
  <2>3. CASE ReadBills(w) \/ CreateInvoice(w) \/ InvoiceFails(w) \/ Stop(w)
    <3>1. Quiet /\ clock' = clock /\ sweep' = sweep
          BY <2>3 DEF ReadBills, CreateInvoice, InvoiceFails, Stop
    <3> QED BY <1>1, <1>2, <3>1
  <2> QED BY <1>8, <2>1, <2>2, <2>3 DEF TaskStep
<1>9. CASE UNCHANGED vars
      BY <1>1, <1>2, <1>9 DEF vars
<1> QED BY <1>3, <1>4, <1>5, <1>6, <1>7, <1>8, <1>9 DEF Next

\* Orders never leaves the inductive invariant: types, the ledger and the
\* status agree, bills are owed, forfeits were due, and sweeps lag the clock.
THEOREM Safe == Spec => []IInv
<1> QED BY InitSafe, NextSafe, PTL DEF Spec

\* The payment status of every order is what its ledger adds up to.
THEOREM LedgerAlwaysAgrees == Spec => []LedgerAgrees
<1>1. IInv => LedgerAgrees
      BY DEF IInv
<1> QED BY <1>1, Safe, PTL

\* No order in production or later has a rupiah of its total missing.
THEOREM HandoverAlwaysPaid == Spec => []HandoverPaid
<1>1. IInv => HandoverPaid
      BY DEF IInv, StatusMatchesPayment, LedgerAgrees, HandoverPaid
<1> QED BY <1>1, Safe, PTL

\* Never two open bills, and never one for money no longer owed.
THEOREM OpenBillAlwaysOwed == Spec => []OpenBillIsOwed
<1>1. IInv => OpenBillIsOwed
      BY DEF IInv
<1> QED BY <1>1, Safe, PTL

\* No order that had money in ends as unpaid.
THEOREM ExpiredAlwaysUnpaid == Spec => []ExpiredNeverPaid
<1>1. IInv => ExpiredNeverPaid
      BY DEF IInv, StatusMatchesPayment, LedgerAgrees, ExpiredNeverPaid
<1> QED BY <1>1, Safe, PTL

\* A DP is only ever kept after the balance fell due with part still owed.
THEOREM ForfeitAlwaysDue == Spec => []ForfeitOnlyWhenDue
<1>1. IInv => ForfeitOnlyWhenDue
      BY DEF IInv
<1> QED BY <1>1, Safe, PTL

-----------------------------------------------------------------------------
\* A link to pay at appears only on a bill that is still owed.

\* Only AttachInvoice gives a bill a link, and only while it is pending.
LEMMA LinkStep ==
  ASSUME IInv, [Next]_vars, NEW o \in Order, NEW n \in BillNo,
         ~bills[o][n].linked, bills'[o][n].linked
  PROVE  bills[o][n].state = "pending"
<1> USE DEF IInv
<1>1. bills[o] \in [BillNo -> Bill] /\ bills[o][n] \in Bill
      BY DEF TypeOK
<1>2. bills'[o] # bills[o]
      OBVIOUS
<1>3. ASSUME NEW k \in {"dp", "full", "balance"}, NEW amount
      PROVE  ~PendingBill(k, amount).linked
      BY DEF PendingBill
<1>4. ASSUME bills'[o] = ExpirePending(o) PROVE FALSE
      BY <1>1, <1>4 DEF ExpirePending, Bill
<1>5. ASSUME NEW p \in Order, NEW m \in BillNo, NEW k \in {"dp", "full", "balance"}, NEW amount,
             bills' = [bills EXCEPT ![p][m] = PendingBill(k, amount)]
      PROVE  FALSE
  <2> DEFINE b == PendingBill(k, amount)
  <2>1. ~b.linked
        BY <1>3
  <2> HIDE DEF b
  <2>2. bills'[o] = bills[o] \/ bills'[o] = [bills[o] EXCEPT ![m] = b]
        BY <1>5 DEF TypeOK, b
  <2>3. bills'[o][n] = bills[o][n] \/ bills'[o][n] = b
        BY <1>1, <2>2
  <2> QED BY <2>1, <2>3
<1>6. ASSUME NEW p \in Order, bills' = [bills EXCEPT ![p] = ExpirePending(p)] PROVE FALSE
  <2>1. bills'[o] = bills[o] \/ bills'[o] = ExpirePending(o)
        BY <1>6 DEF TypeOK
  <2> QED BY <1>2, <1>4, <2>1
<1>7. ASSUME NEW p \in Order, Place(p) \/ Staff(p) PROVE FALSE
  <2>1. CASE Place(p)
        BY <1>5, <2>1 DEF Place, FreeBill
  <2>2. CASE Staff(p)
        BY <1>2, <1>6, <2>2
        DEF Staff, Advance, RecordPayment, CancelUnpaid, CancelForfeit, CancelRefund, End
  <2> QED BY <1>7, <2>1, <2>2
<1>8. ASSUME NEW s \in Sweeper, Sweeps(s) \/ StopSweep(s) PROVE FALSE
      BY <1>2, <1>6, <1>8 DEF Sweeps, StartSweep, SweepOrder, SkipOrder, StopSweep, End
<1>9. ASSUME NEW w \in Worker, BillBalance(w) PROVE FALSE
  <2>1. task[w].order \in Order
    <3>1. task[w].pc = "billing" /\ task[w] \in Task
          BY <1>9 DEF BillBalance, TypeOK
    <3> QED BY <3>1 DEF Task, Idle
  <2>2. \/ bills' = bills
        \/ \E m \in BillNo : bills' = [bills EXCEPT ![task[w].order][m] =
                                         PendingBill("balance", Owed(task[w].order))]
        BY <1>9 DEF BillBalance, FreeBill
  <2> QED BY <1>2, <1>5, <2>1, <2>2
<1>10. ASSUME NEW w \in Worker, AttachInvoice(w) PROVE bills[o][n].state = "pending"
  <2> DEFINE p == task[w].order
             m == Current(w)
  <2>1. TakesLink(p, m) /\ bills' = [bills EXCEPT ![p][m].linked = TRUE]
        BY <1>2, <1>10 DEF AttachInvoice
  <2> HIDE DEF p, m
  <2>2. bills'[o] = bills[o] \/ (o = p /\ bills'[o] = [bills[o] EXCEPT ![m].linked = TRUE])
        BY <2>1 DEF TypeOK
  <2>3. n = m
        BY <1>1, <1>2, <2>2
  <2> QED BY <1>2, <2>1, <2>2, <2>3 DEF TakesLink
<1> QED BY <1>2, <1>7, <1>8, <1>9, <1>10
        DEF Next, vars, Tick, OpenOrder, StartJob, TaskStep, ReadBills, CreateInvoice, InvoiceFails, Stop

\* No step gives a link to pay at to a bill that is not owed any more.
THEOREM LinkAlwaysOwed == Spec => LinkOnlyOwed
<1>1. ASSUME IInv, [Next]_vars
      PROVE  [ \A o \in Order, n \in BillNo :
                 ~bills[o][n].linked /\ bills'[o][n].linked =>
                   /\ bills[o][n].state = "pending"
                   /\ bills[o][n].amount <= Owed(o)
                   /\ status[o] \in {"awaiting_dp", "confirmed"} ]_vars
  <2>1. SUFFICES ASSUME NEW o \in Order, NEW n \in BillNo,
                        ~bills[o][n].linked, bills'[o][n].linked
                 PROVE  /\ bills[o][n].state = "pending"
                        /\ bills[o][n].amount <= Owed(o)
                        /\ status[o] \in {"awaiting_dp", "confirmed"}
        OBVIOUS
  <2>2. bills[o][n].state = "pending"
        BY <1>1, <2>1, LinkStep
  <2>3. /\ terms[o].total \in Nat /\ terms[o].dp \in Nat /\ terms[o].dp <= terms[o].total
        /\ paid[o] \in Nat
    <3>1. terms[o] \in Terms
          BY <1>1 DEF IInv, TypeOK
    <3> QED BY <1>1, <3>1, TermsType DEF IInv, TypeOK
  <2>4. \/ /\ status[o] = "awaiting_dp" /\ paid[o] = 0
           /\ bills[o][n].amount = terms[o].dp \/ bills[o][n].amount = terms[o].total
        \/ status[o] = "confirmed" /\ bills[o][n].amount = Owed(o)
        BY <1>1, <2>2 DEF IInv, OpenBillIsOwed
  <2> QED BY <2>2, <2>3, <2>4 DEF Owed
<1> QED BY <1>1, Safe, PTL DEF Spec, LinkOnlyOwed

-----------------------------------------------------------------------------
\* Orders keeps the promise.

\* A step that leaves every order's status and money where they were.
LEMMA PromiseStutters ==
  ASSUME \A o \in Order : Stage(o)' = Stage(o) /\ Money(o)' = Money(o)
  PROVE  UNCHANGED Promise!vars
PROOF BY DEF Promise!vars

\* A step that changes the stage and the money of one order.
LEMMA PromiseBecomes ==
  ASSUME NEW o \in Order, NEW s, NEW m, Stage(o)' = s, Money(o)' = m,
         \A p \in Order : p # o => Stage(p)' = Stage(p) /\ Money(p)' = Money(p)
  PROVE  Promise!Becomes(o, s, m)
PROOF BY DEF Promise!Becomes

\* The stage and the money of an order follow from what is stored of it.
LEMMA StageMoneySame ==
  ASSUME NEW p \in Order, status'[p] = status[p], payment'[p] = payment[p],
         paid'[p] = paid[p], terms'[p] = terms[p]
  PROVE  Stage(p)' = Stage(p) /\ Money(p)' = Money(p)
PROOF BY DEF Stage, Money

\* The money of an order that is not closed, from its payment status.
LEMMA MoneyOf ==
  ASSUME IInv, NEW o \in Order
  PROVE  /\ payment[o] = "unpaid" => Money(o) = "nothing"
         /\ payment[o] = "dp_paid" => Money(o) = "part"
         /\ payment[o] = "paid_in_full" => Money(o) = "whole"
         /\ payment[o] = "forfeited" => Money(o) = "kept"
         /\ payment[o] = "refunded" => Money(o) = "returned"
<1>1. /\ terms[o].total \in Nat /\ terms[o].total > 0 /\ terms[o].dp \in Nat /\ terms[o].dp > 0
      /\ paid[o] \in Nat
  <2>1. terms[o] \in Terms
        BY DEF IInv, TypeOK
  <2> QED BY <2>1, TermsType DEF IInv, TypeOK
<1>2. CASE payment[o] = "unpaid"
  <2>1. paid[o] = 0
        BY <1>2 DEF IInv, LedgerAgrees
  <2> QED BY <1>2, <2>1 DEF Money, ClosedPayment
<1>3. CASE payment[o] = "dp_paid"
  <2>1. terms[o].dp <= paid[o] /\ paid[o] < terms[o].total
        BY <1>3 DEF IInv, LedgerAgrees
  <2>2. paid[o] # 0
        BY <1>1, <2>1
  <2> QED BY <1>3, <2>1, <2>2 DEF Money, ClosedPayment
<1>4. CASE payment[o] = "paid_in_full"
  <2>1. paid[o] = terms[o].total
        BY <1>4 DEF IInv, LedgerAgrees
  <2>2. paid[o] # 0 /\ ~(paid[o] < terms[o].total)
        BY <1>1, <2>1
  <2> QED BY <1>4, <2>2 DEF Money, ClosedPayment
<1>5. CASE payment[o] \in {"forfeited", "refunded"}
      BY <1>5 DEF Money, ClosedPayment
<1> QED BY <1>2, <1>3, <1>4, <1>5

\* An order ended by a sweep or by staff lapses, or its money is kept or
\* returned.
LEMMA EndKeeps ==
  ASSUME IInv, IInv', NEW o \in Order,
         NEW to \in {"expired", "cancelled"}, NEW pay \in PaymentStatus, End(o, to, pay),
         UNCHANGED terms, \A p \in Order : p # o => paid'[p] = paid[p],
         \/ to = "expired" /\ status[o] = "awaiting_dp" /\ payment[o] = "unpaid" /\ pay = "unpaid"
         \/ /\ to = "cancelled" /\ status[o] = "confirmed"
            /\ \/ pay = "forfeited" /\ payment[o] = "dp_paid"
               \/ pay = "refunded" /\ payment[o] \in {"dp_paid", "paid_in_full"}
  PROVE  Promise!Next
<1>1. status'[o] = to /\ payment'[o] = pay
      BY DEF End, IInv, TypeOK
<1>2. ASSUME NEW p \in Order, p # o
      PROVE  Stage(p)' = Stage(p) /\ Money(p)' = Money(p)
  <2>1. status'[p] = status[p] /\ payment'[p] = payment[p] /\ paid'[p] = paid[p] /\ terms'[p] = terms[p]
        BY <1>2 DEF End, IInv, TypeOK
  <2> QED BY <2>1, StageMoneySame
<1>3. Stage(o)' = "over"
      BY <1>1 DEF Stage
<1>4. /\ pay = "unpaid" => Money(o)' = "nothing"
      /\ pay = "forfeited" => Money(o)' = "kept"
      /\ pay = "refunded" => Money(o)' = "returned"
  <2>1. CASE pay = "unpaid"
    <3>1. paid'[o] = 0
          BY <1>1, <2>1 DEF IInv, LedgerAgrees
    <3> QED BY <1>1, <2>1, <3>1 DEF Money, ClosedPayment
  <2>2. CASE pay # "unpaid"
        BY <1>1, <2>2 DEF Money, ClosedPayment
  <2> QED BY <2>1, <2>2
<1>5. CASE to = "expired"
  <2>1. Promise!Becomes(o, "over", "nothing")
        BY <1>2, <1>3, <1>4, <1>5, PromiseBecomes
  <2>2. Stage(o) = "open" /\ Money(o) = "nothing"
        BY <1>5, MoneyOf DEF Stage
  <2> QED BY <2>1, <2>2 DEF Promise!Next, Promise!Lapse
<1>6. CASE to = "cancelled" /\ pay = "forfeited"
  <2>1. Promise!Becomes(o, "over", "kept")
        BY <1>2, <1>3, <1>4, <1>6, PromiseBecomes
  <2>2. Stage(o) = "committed" /\ Money(o) = "part"
        BY <1>6, MoneyOf DEF Stage
  <2> QED BY <2>1, <2>2 DEF Promise!Next, Promise!Keep
<1>7. CASE to = "cancelled" /\ pay = "refunded"
  <2>1. Promise!Becomes(o, "over", "returned")
        BY <1>2, <1>3, <1>4, <1>7, PromiseBecomes
  <2>2. Stage(o) = "committed" /\ Money(o) \in {"part", "whole"}
        BY <1>7, MoneyOf DEF Stage
  <2> QED BY <2>1, <2>2 DEF Promise!Next, Promise!Return
<1> QED BY <1>5, <1>6, <1>7

\* Every step of Orders is a step of the promise, or none.
LEMMA NextKeepsPromise ==
  ASSUME IInv, IInv', [Next]_vars
  PROVE  [Promise!Next]_(Promise!vars)
<1>1. ASSUME UNCHANGED <<status, payment, terms, paid>> PROVE UNCHANGED Promise!vars
  <2>1. \A o \in Order : Stage(o)' = Stage(o) /\ Money(o)' = Money(o)
        BY <1>1 DEF Stage, Money
  <2> QED BY <2>1, PromiseStutters
<1>2. ASSUME NEW o \in Order, Place(o) PROVE Promise!Next
  <2>1. ASSUME NEW p \in Order, p # o PROVE Stage(p)' = Stage(p) /\ Money(p)' = Money(p)
        BY <1>2, <2>1, StageMoneySame DEF Place, IInv, TypeOK
  <2>2. status'[o] = "awaiting_dp" /\ status[o] = "none" /\ UNCHANGED <<payment, terms, paid>>
        BY <1>2 DEF Place, IInv, TypeOK
  <2>3. payment[o] = "unpaid"
        BY <2>2 DEF IInv, StatusMatchesPayment
  <2>4. Stage(o) = "cart" /\ Stage(o)' = "open"
        BY <2>2 DEF Stage
  <2>5. Money(o) = "nothing" /\ Money(o)' = Money(o)
        BY <2>2, <2>3, MoneyOf DEF Money
  <2>6. Promise!Becomes(o, "open", "nothing")
        BY <2>1, <2>4, <2>5, PromiseBecomes
  <2> QED BY <2>4, <2>6 DEF Promise!Next, Promise!Open
<1>3. ASSUME NEW o \in Order, NEW to \in ProductionSteps, Advance(o, to)
      PROVE  Promise!Next \/ UNCHANGED Promise!vars
  <2>1. ASSUME NEW p \in Order, p # o PROVE Stage(p)' = Stage(p) /\ Money(p)' = Money(p)
        BY <1>3, <2>1, StageMoneySame DEF Advance, IInv, TypeOK
  <2>2. /\ status'[o] = to /\ payment[o] = "paid_in_full" /\ UNCHANGED <<payment, terms, paid>>
        /\ \/ status[o] = "confirmed" /\ to = "in_production"
           \/ status[o] = "in_production" /\ to = "ready"
           \/ status[o] = "ready" /\ to = "completed"
        BY <1>3 DEF Advance, CanMove, Lifecycle, Edge, ProductionSteps, IInv, TypeOK
  <2>3. Money(o) = "whole" /\ Money(o)' = "whole"
        BY <2>2, MoneyOf DEF Money
  <2>4. CASE to = "in_production"
    <3>1. Stage(o) = "committed" /\ Stage(o)' = "kitchen"
          BY <2>2, <2>4 DEF Stage
    <3>2. Promise!Becomes(o, "kitchen", "whole")
          BY <2>1, <2>3, <3>1, PromiseBecomes
    <3> QED BY <2>3, <3>1, <3>2 DEF Promise!Next, Promise!Bake
  <2>5. CASE to = "ready"
    <3>1. Stage(o)' = Stage(o)
          BY <2>2, <2>5 DEF Stage
    <3> QED BY <2>1, <2>3, <3>1, PromiseStutters
  <2>6. CASE to = "completed"
    <3>1. Stage(o) = "kitchen" /\ Stage(o)' = "handed"
          BY <2>2, <2>6 DEF Stage
    <3>2. Promise!Becomes(o, "handed", "whole")
          BY <2>1, <2>3, <3>1, PromiseBecomes
    <3> QED BY <2>3, <3>1, <3>2 DEF Promise!Next, Promise!HandOver
  <2> QED BY <2>4, <2>5, <2>6 DEF ProductionSteps
<1>4. ASSUME NEW o \in Order, NEW amount \in 1 .. terms[o].total, RecordPayment(o, amount)
      PROVE  Promise!Next
  <2>1. ASSUME NEW p \in Order, p # o PROVE Stage(p)' = Stage(p) /\ Money(p)' = Money(p)
        BY <1>4, <2>1, StageMoneySame DEF RecordPayment, IInv, TypeOK
  <2>2. Stage(o) \in {"open", "committed"} /\ Stage(o)' = "committed"
        BY <1>4, Recorded DEF Stage
  <2>3. Money(o) \in {"nothing", "part"}
        BY <1>4, Recorded, MoneyOf
  <2>4. terms' = terms
        BY <1>4 DEF RecordPayment
  <2>5. Money(o)' \in {"part", "whole"}
    <3>1. /\ terms[o].total \in Nat /\ terms[o].total > 0 /\ terms[o].dp \in Nat /\ terms[o].dp > 0
          /\ paid'[o] \in Nat
      <4>1. terms[o] \in Terms
            BY DEF IInv, TypeOK
      <4> QED BY <4>1, TermsType DEF IInv, TypeOK
    <3>2. paid'[o] # 0 /\ payment'[o] \notin ClosedPayment
          BY <1>4, <3>1, Recorded DEF ClosedPayment
    <3> QED BY <2>4, <3>1, <3>2 DEF Money, ClosedPayment
  <2>6. Promise!Becomes(o, "committed", Money(o)')
        BY <2>1, <2>2, PromiseBecomes
  <2> QED BY <2>2, <2>3, <2>5, <2>6 DEF Promise!Next, Promise!Pay
<1>5. ASSUME NEW o \in Order, CancelUnpaid(o) \/ CancelForfeit(o) \/ CancelRefund(o)
      PROVE  Promise!Next
  <2>1. terms' = terms /\ \A p \in Order : p # o => paid'[p] = paid[p]
        BY <1>5 DEF CancelUnpaid, CancelForfeit, CancelRefund, IInv, TypeOK
  <2>2. CASE CancelUnpaid(o)
    <3>1. status[o] = "awaiting_dp" /\ payment[o] = "unpaid" /\ End(o, "expired", "unpaid")
          BY <2>2 DEF CancelUnpaid, CanMove, Lifecycle, Edge
    <3> QED BY <2>1, <3>1, EndKeeps DEF PaymentStatus
  <2>3. CASE CancelForfeit(o)
    <3>1. status[o] = "confirmed" /\ payment[o] = "dp_paid" /\ End(o, "cancelled", "forfeited")
          BY <2>3 DEF CancelForfeit, CanClose, CanMove, Lifecycle, Edge
    <3> QED BY <2>1, <3>1, EndKeeps DEF PaymentStatus
  <2>4. CASE CancelRefund(o)
    <3>1. /\ status[o] = "confirmed" /\ payment[o] \in {"dp_paid", "paid_in_full"}
          /\ End(o, "cancelled", "refunded")
          BY <2>4 DEF CancelRefund, CanClose, CanMove, Lifecycle, Edge
    <3> QED BY <2>1, <3>1, EndKeeps DEF PaymentStatus
  <2> QED BY <1>5, <2>2, <2>3, <2>4
<1>6. ASSUME NEW s \in Sweeper, NEW o \in Order, SweepOrder(s, o)
      PROVE  Promise!Next \/ UNCHANGED Promise!vars
  <2>1. UNCHANGED <<terms, paid>>
        BY <1>6 DEF SweepOrder
  <2>2. CASE ~StillOverdue(s, o)
        BY <1>1, <1>6, <2>1, <2>2 DEF SweepOrder
  <2>3. CASE StillOverdue(s, o) /\ sweep[s].kind = "expire"
    <3>1. status[o] = "awaiting_dp" /\ payment[o] = "unpaid" /\ End(o, "expired", "unpaid")
          BY <1>6, <2>3 DEF SweepOrder, StillOverdue, Overdue
    <3> QED BY <2>1, <3>1, EndKeeps DEF PaymentStatus
  <2>4. CASE StillOverdue(s, o) /\ sweep[s].kind # "expire"
    <3>1. status[o] = "confirmed" /\ payment[o] = "dp_paid" /\ End(o, "cancelled", "forfeited")
          BY <1>6, <2>4 DEF SweepOrder, StillOverdue, Overdue
    <3> QED BY <2>1, <3>1, EndKeeps DEF PaymentStatus
  <2> QED BY <2>2, <2>3, <2>4
<1>7. ASSUME NEW w \in Worker, TaskStep(w) \/ Stop(w) PROVE UNCHANGED Promise!vars
      BY <1>1, <1>7
      DEF TaskStep, BillBalance, ReadBills, CreateInvoice, InvoiceFails, AttachInvoice, Stop
<1>8. CASE UNCHANGED vars
      BY <1>1, <1>8 DEF vars
<1> QED BY <1>1, <1>2, <1>3, <1>4, <1>5, <1>6, <1>7, <1>8
        DEF Next, Staff, Sweeps, Tick, StartSweep, SkipOrder, StopSweep, OpenOrder, StartJob

\* What is stored of orders and payments implements the promise: every step
\* of customer, staff, sweeps and jobs is one the promise allows.
THEOREM PromiseKept == Spec => KeepsPromise
<1>1. Init => Promise!Init
  <2>1. ASSUME Init, NEW o \in Order PROVE Stage(o) = "cart" /\ Money(o) = "nothing"
        BY <2>1 DEF Init, Stage, Money, ClosedPayment
  <2> QED BY <2>1 DEF Promise!Init
<1>2. IInv /\ IInv' /\ [Next]_vars => [Promise!Next]_(Promise!vars)
      BY NextKeepsPromise
<1> QED BY <1>1, <1>2, Safe, PTL DEF Spec, KeepsPromise, Promise!Spec

-----------------------------------------------------------------------------
\* The balance of every order is billed, for any number of workers, bills and
\* attempts: somebody always has it in hand until the link is there.

\* The order's balance is to be paid online.
Wants(o) ==
  /\ status[o] = "confirmed" /\ payment[o] = "dp_paid"
  /\ clock < terms[o].balanceDue /\ ~dropped[o]

OpenBalance(o, n) == bills[o][n].state = "pending" /\ bills[o][n].kind = "balance"

Linked(o) == \E n \in BillNo : OpenBalance(o, n) /\ bills[o][n].linked

JobWaits(o) == \E a \in 1 .. MaxAttempts : jobs[o][a] # 0

\* A worker runs a job of the order's.
Runs(w, o) == task[w] # Idle /\ task[w].order = o /\ task[w].left # NotAJob

\* It is before the bill, before the invoice, or bound to be tried again.
InHand(w, o) ==
  /\ Runs(w, o)
  /\ \/ task[w].pc = "billing"
     \/ task[w].pc = "reading" /\ \E n \in BillNo : OpenBalance(o, n)
     \/ /\ task[w].pc \in {"invoicing", "attaching"}
        /\ task[w].failed \/ \E n \in task[w].todo : OpenBalance(o, n)

CaredFor(o) == Linked(o) \/ JobWaits(o) \/ \E w \in Worker : InHand(w, o)

\* A job works with a time that has been.
JobsLag == \A w \in Worker : task[w].pc = "billing" => task[w].now <= clock

BillingInv == JobsLag /\ \A o \in Order : Wants(o) => CaredFor(o)

\* Open balance bills stay open, and their links stay.
BillsStay(o) ==
  \A n \in BillNo :
    OpenBalance(o, n) => /\ bills'[o][n].state = "pending" /\ bills'[o][n].kind = "balance"
                         /\ bills[o][n].linked => bills'[o][n].linked

-----------------------------------------------------------------------------
\* A step that leaves the order's bills, its jobs and the workers alone.
LEMMA FrameStep ==
  ASSUME NEW o \in Order, CaredFor(o),
         bills'[o] = bills[o], jobs'[o] = jobs[o], task' = task
  PROVE  CaredFor(o)'
<1> USE DEF OpenBalance
<1>1. CASE Linked(o)
      BY <1>1 DEF CaredFor, Linked
<1>2. CASE JobWaits(o)
      BY <1>2 DEF CaredFor, JobWaits
<1>3. ASSUME NEW w \in Worker, InHand(w, o) PROVE CaredFor(o)'
  <2>1. InHand(w, o)'
        BY <1>3 DEF InHand, Runs
  <2> QED BY <2>1 DEF CaredFor
<1> QED BY <1>1, <1>2, <1>3 DEF CaredFor

\* What is linked, waits, or is in another worker's hand stays so while a
\* worker makes a step.
LEMMA OthersStep ==
  ASSUME TypeOK, NEW o \in Order, NEW w \in Worker, BillsStay(o), JobWaits(o) => JobWaits(o)',
         CaredFor(o), ~InHand(w, o), \A v \in Worker : v # w => task'[v] = task[v]
  PROVE  CaredFor(o)'
<1>1. CASE Linked(o)
  <2>1. PICK n \in BillNo : OpenBalance(o, n) /\ bills[o][n].linked
        BY <1>1 DEF Linked
  <2> QED BY <2>1 DEF BillsStay, CaredFor, Linked, OpenBalance
<1>2. CASE JobWaits(o)
      BY <1>2 DEF CaredFor
<1>3. ASSUME NEW v \in Worker, InHand(v, o) PROVE CaredFor(o)'
  <2>1. v # w /\ task'[v] = task[v]
        BY <1>3
  <2>2. \A n : OpenBalance(o, n) /\ n \in BillNo => OpenBalance(o, n)'
        BY DEF BillsStay, OpenBalance
  <2>3. CASE task[v].pc = "billing"
    <3>1. InHand(v, o)'
          BY <1>3, <2>1, <2>3 DEF InHand, Runs
    <3> QED BY <3>1 DEF CaredFor
  <2>4. CASE task[v].pc = "reading" /\ \E n \in BillNo : OpenBalance(o, n)
    <3>1. InHand(v, o)'
          BY <1>3, <2>1, <2>2, <2>4 DEF InHand, Runs
    <3> QED BY <3>1 DEF CaredFor
  <2>5. CASE task[v].pc \in {"invoicing", "attaching"}
    <3>0. task[v] \in Task \ {Idle}
          BY <2>5 DEF TypeOK, Idle
    <3>1. task[v].todo \subseteq BillNo
          BY <3>0 DEF Task
    <3>2. InHand(v, o)'
          BY <1>3, <2>1, <2>2, <2>5, <3>1 DEF InHand, Runs
    <3> QED BY <3>2 DEF CaredFor
  <2> QED BY <1>3, <2>3, <2>4, <2>5 DEF InHand
<1> QED BY <1>1, <1>2, <1>3 DEF CaredFor

\* A worker that is done with a failed job gives it back or drops it, and takes
\* no waiting job away.
LEMMA DoneStep ==
  ASSUME TypeOK, NEW w \in Worker, NEW failed \in BOOLEAN, task[w] # Idle, Done(w, failed),
         NEW o \in Order
  PROVE  /\ JobWaits(o) => JobWaits(o)'
         /\ ~dropped'[o] => ~dropped[o]
         /\ \A v \in Worker : v # w => task'[v] = task[v]
         /\ failed /\ Runs(w, o) => JobWaits(o)' \/ dropped'[o]
<1> DEFINE p == task[w].order
           left == task[w].left
<1>1. p \in Order /\ left \in NotAJob .. MaxAttempts
      BY DEF TypeOK, Task
<1>2. /\ jobs' = IF failed /\ left > 0 THEN [jobs EXCEPT ![p][left] = @ + 1] ELSE jobs
      /\ dropped' = IF failed /\ left = 0 THEN [dropped EXCEPT ![p] = TRUE] ELSE dropped
      BY DEF Done
<1>3. \A v \in Worker : v # w => task'[v] = task[v]
      BY DEF Done, TypeOK
<1>4. Runs(w, o) => p = o /\ left # NotAJob
      BY DEF Runs
<1> HIDE DEF p, left
<1>5. ~dropped'[o] => ~dropped[o]
      BY <1>1, <1>2 DEF TypeOK
<1>6. CASE failed /\ left > 0
  <2>1. left \in 1 .. MaxAttempts /\ jobs[p] \in [1 .. MaxAttempts -> Nat]
        BY <1>1, <1>6, BoundsAssumption DEF NotAJob, TypeOK
  <2>2. jobs' = [jobs EXCEPT ![p][left] = @ + 1] /\ jobs[p][left] \in Nat
        BY <1>2, <1>6, <2>1
  <2>3. jobs'[p][left] = jobs[p][left] + 1
        BY <1>1, <2>1, <2>2 DEF TypeOK
  <2>4. \E a \in 1 .. MaxAttempts : jobs'[p][a] # 0
    <3>1. jobs'[p][left] # 0
          BY <2>2, <2>3
    <3> QED BY <2>1, <3>1
  <2>5. o # p => jobs'[o] = jobs[o]
        BY <1>1, <2>2 DEF TypeOK
  <2> QED BY <1>3, <1>4, <1>5, <2>4, <2>5 DEF JobWaits
<1>7. CASE failed /\ left = 0
  <2>1. dropped'[p]
        BY <1>1, <1>2, <1>7 DEF TypeOK
  <2>2. jobs' = jobs
        BY <1>2, <1>7
  <2> QED BY <1>3, <1>4, <1>5, <2>1, <2>2 DEF JobWaits
<1>8. CASE ~failed \/ left = NotAJob
  <2>1. jobs' = jobs
        BY <1>2, <1>8 DEF NotAJob
  <2> QED BY <1>3, <1>4, <1>5, <1>8, <2>1 DEF JobWaits
<1> QED BY <1>1, <1>6, <1>7, <1>8, BoundsAssumption DEF NotAJob

\* A worker leaves a bill after a failure, now or before: it has the job in hand
\* still, or gives it back, or drops it.
LEMMA NextBillStep ==
  ASSUME TypeOK, NEW w \in Worker, NEW failed \in BOOLEAN,
         task[w].pc \in {"invoicing", "attaching"}, NextBill(w, failed), NEW o \in Order
  PROVE  /\ JobWaits(o) => JobWaits(o)'
         /\ ~dropped'[o] => ~dropped[o]
         /\ \A v \in Worker : v # w => task'[v] = task[v]
         /\ failed /\ Runs(w, o) => JobWaits(o)' \/ dropped'[o] \/ InHand(w, o)'
<1>1. task[w] # Idle /\ task[w] \in Task
      BY DEF TypeOK, Idle
<1>2. CASE task[w].todo = {Current(w)}
      BY <1>1, <1>2, DoneStep DEF NextBill
<1>3. CASE task[w].todo # {Current(w)}
  <2> DEFINE todo == task[w].todo \ {Current(w)}
  <2>1. task' = [task EXCEPT ![w].pc = "invoicing", ![w].failed = failed, ![w].todo = todo]
        /\ jobs' = jobs /\ dropped' = dropped
        BY <1>3 DEF NextBill
  <2> HIDE DEF todo
  <2>2. task'[w] = [task[w] EXCEPT !.pc = "invoicing", !.failed = failed, !.todo = todo]
        BY <1>1, <2>1 DEF TypeOK
  <2>3. /\ task'[w].order = task[w].order /\ task'[w].left = task[w].left
        /\ task'[w].pc = "invoicing" /\ task'[w].failed = failed
        BY <1>1, <2>2 DEF Task
  <2>4. task'[w] # Idle
        BY <2>3 DEF Idle
  <2>5. failed /\ Runs(w, o) => InHand(w, o)'
        BY <2>3, <2>4 DEF Runs, InHand
  <2>6. \A v \in Worker : v # w => task'[v] = task[v]
        BY <2>1 DEF TypeOK
  <2> QED BY <2>1, <2>5, <2>6 DEF JobWaits
<1> QED BY <1>2, <1>3

-----------------------------------------------------------------------------
\* The steps of a worker.

\* Bills are added and linked by a worker, and never closed.
LEMMA WorkKeepsBills ==
  ASSUME TypeOK, NEW w \in Worker, TaskStep(w) \/ Stop(w), NEW o \in Order
  PROVE  BillsStay(o)
<1>1. bills[o] \in [BillNo -> Bill]
      BY DEF TypeOK
<1>2. CASE bills' = bills
      BY <1>2 DEF BillsStay, OpenBalance
<1>3. ASSUME NEW p, NEW n \in BillNo, bills[p][n].state = "none", NEW b,
             bills' = [bills EXCEPT ![p][n] = b]
      PROVE  BillsStay(o)
  <2>1. bills'[o] = bills[o] \/ (p = o /\ bills'[o] = [bills[o] EXCEPT ![n] = b])
        BY <1>3 DEF TypeOK
  <2>2. \A m \in BillNo : bills[o][m].state = "pending" => bills'[o][m] = bills[o][m]
        BY <1>1, <1>3, <2>1
  <2> QED BY <2>2 DEF BillsStay, OpenBalance
<1>4. ASSUME NEW p, NEW n, bills' = [bills EXCEPT ![p][n].linked = TRUE]
      PROVE  BillsStay(o)
  <2>1. bills'[o] = bills[o] \/ bills'[o] = [bills[o] EXCEPT ![n].linked = TRUE]
        BY <1>4 DEF TypeOK
  <2>2. ASSUME NEW m \in BillNo
        PROVE  bills'[o][m] = bills[o][m] \/ bills'[o][m] = [bills[o][m] EXCEPT !.linked = TRUE]
        BY <1>1, <2>1
  <2>3. \A m \in BillNo : bills[o][m] \in Bill
        BY <1>1
  <2> QED BY <2>2, <2>3 DEF Bill, BillsStay, OpenBalance
<1>5. CASE BillBalance(w)
  <2> DEFINE p == task[w].order
             b == PendingBill("balance", Owed(p))
  <2>1. CASE bills' = bills
        BY <1>2, <2>1
  <2>2. CASE \E n \in FreeBill(p) : bills' = [bills EXCEPT ![p][n] = b]
    <3>1. PICK n \in BillNo : bills[p][n].state = "none" /\ bills' = [bills EXCEPT ![p][n] = b]
          BY <2>2 DEF FreeBill
    <3> HIDE DEF p, b
    <3> QED BY <1>3, <3>1
  <2> QED BY <1>5, <2>1, <2>2 DEF BillBalance
<1>6. CASE AttachInvoice(w)
  <2> DEFINE p == task[w].order
             n == Current(w)
  <2>1. bills' = bills \/ bills' = [bills EXCEPT ![p][n].linked = TRUE]
        BY <1>6 DEF AttachInvoice
  <2> HIDE DEF p, n
  <2> QED BY <1>2, <1>4, <2>1
<1> QED BY <1>2, <1>5, <1>6 DEF TaskStep, Stop, ReadBills, CreateInvoice, InvoiceFails

\* The job's transaction leaves an open balance bill behind, if one is wanted.
LEMMA BillCares ==
  ASSUME IInv, IInv', JobsLag, NEW w \in Worker, BillBalance(w), NEW o \in Order,
         Wants(o), Runs(w, o)
  PROVE  InHand(w, o)'
<1> USE DEF IInv
<1>1. task[w].pc = "billing" /\ task[w] \in Task \ {Idle} /\ task[w].order = o /\ task[w].now <= clock
      BY DEF BillBalance, TypeOK, Idle, JobsLag, Runs
<1>2. task'[w] = Doing("reading", o, task[w].left, 0)
      BY <1>1 DEF BillBalance, TypeOK
<1>3. Runs(w, o)' /\ task'[w].pc = "reading"
      BY <1>2 DEF Runs, Doing, Idle
<1>4. terms[o].balanceDue \in Nat /\ clock \in Nat /\ task[w].now \in Nat
  <2>1. terms[o] \in Terms
        BY DEF TypeOK
  <2> QED BY <1>1, <2>1, TermsType DEF TypeOK, Task
<1>5. Owed(o) > 0
  <2>1. terms[o] \in Terms /\ paid[o] \in Nat
        BY DEF TypeOK
  <2>2. paid[o] < terms[o].total
        BY DEF Wants, LedgerAgrees
  <2> QED BY <2>1, <2>2, TermsType DEF Owed
<1>6. CASE Billed(o)
  <2>1. PICK n \in BillNo : OpenBalance(o, n)
        BY <1>6 DEF Billed, OpenBalance
  <2>2. OpenBalance(o, n)'
        BY <2>1, WorkKeepsBills DEF TaskStep, BillsStay, OpenBalance
  <2> QED BY <1>3, <2>2 DEF InHand
<1>7. CASE ~Billed(o)
  <2>1. WantsBalance(o, task[w].now)
        BY <1>1, <1>4, <1>5, <1>7 DEF WantsBalance, Wants
  <2>2. PICK n \in BillNo : bills' = [bills EXCEPT ![o][n] = PendingBill("balance", Owed(o))]
        BY <1>1, <2>1 DEF BillBalance, FreeBill
  <2>3. bills'[o][n] = PendingBill("balance", Owed(o))
        BY <2>2 DEF TypeOK
  <2>4. OpenBalance(o, n)'
        BY <2>3 DEF OpenBalance, PendingBill
  <2> QED BY <1>3, <2>4 DEF InHand
<1> QED BY <1>6, <1>7

\* Reading the ledger finds the open balance bill, if it has no link yet.
LEMMA ReadCares ==
  ASSUME IInv, NEW w \in Worker, ReadBills(w), NEW o \in Order, Wants(o), InHand(w, o)
  PROVE  Linked(o)' \/ InHand(w, o)'
<1> USE DEF IInv
<1>1. task[w].pc = "reading" /\ task[w] \in Task \ {Idle} /\ task[w].order = o
      BY DEF ReadBills, TypeOK, Idle, InHand, Runs
<1>2. PICK n \in BillNo : OpenBalance(o, n)
      BY <1>1 DEF InHand
<1>3. bills[o][n] \in Bill /\ bills' = bills
      BY DEF TypeOK, ReadBills
<1>4. CASE bills[o][n].linked
      BY <1>2, <1>3, <1>4 DEF Linked, OpenBalance
<1>5. CASE ~bills[o][n].linked
  <2>1. LapsesAt(o, n) > clock
    <3>1. terms[o].balanceDue \in Nat /\ clock \in Nat
      <4>1. terms[o] \in Terms
            BY DEF TypeOK
      <4> QED BY <4>1, TermsType DEF TypeOK
    <3> QED BY <1>2, <3>1 DEF Wants, LapsesAt, OpenBalance
  <2>2. n \in WithoutInvoice(o)
        BY <1>2, <1>5, <2>1 DEF WithoutInvoice, OpenBalance
  <2> DEFINE todo == WithoutInvoice(o)
  <2>3. task' = [task EXCEPT ![w].pc = "invoicing", ![w].todo = todo]
        BY <1>1, <2>2 DEF ReadBills
  <2>4. n \in todo
        BY <2>2
  <2> HIDE DEF todo
  <2>5. task'[w] = [task[w] EXCEPT !.pc = "invoicing", !.todo = todo]
        BY <2>3 DEF TypeOK
  <2>6. /\ task'[w].order = o /\ task'[w].left = task[w].left
        /\ task'[w].pc = "invoicing" /\ task'[w].todo = todo
        BY <1>1, <2>5 DEF Task
  <2>7. Runs(w, o)'
        BY <2>6 DEF InHand, Runs, Idle
  <2>8. OpenBalance(o, n)'
        BY <1>2, <1>3 DEF OpenBalance
  <2> QED BY <2>4, <2>6, <2>7, <2>8 DEF InHand
<1> QED BY <1>3, <1>4, <1>5 DEF Bill

\* The provider's answer changes nothing but where the worker is.
LEMMA CreateCares ==
  ASSUME TypeOK, NEW w \in Worker, CreateInvoice(w), NEW o \in Order, InHand(w, o)
  PROVE  InHand(w, o)'
<1>1. task[w].pc = "invoicing" /\ task[w] \in Task \ {Idle}
      BY DEF CreateInvoice, TypeOK, Idle
<1>2. task'[w] = [task[w] EXCEPT !.pc = "attaching"] /\ bills' = bills
      BY DEF CreateInvoice, TypeOK
<1>3. /\ task'[w].pc = "attaching" /\ task'[w].order = task[w].order /\ task'[w].left = task[w].left
      /\ task'[w].todo = task[w].todo /\ task'[w].failed = task[w].failed
      BY <1>1, <1>2 DEF Task
<1>4. Runs(w, o)'
      BY <1>3 DEF InHand, Runs, Idle
<1>5. \A n : OpenBalance(o, n) => OpenBalance(o, n)'
      BY <1>2 DEF OpenBalance
<1> QED BY <1>1, <1>3, <1>4, <1>5 DEF InHand

\* The link reaches the bill, or the job is tried again, or there is more to do.
LEMMA AttachCares ==
  ASSUME TypeOK, NEW w \in Worker, AttachInvoice(w), NEW o \in Order, InHand(w, o)
  PROVE  Linked(o)' \/ JobWaits(o)' \/ dropped'[o] \/ InHand(w, o)'
<1>1. task[w].pc = "attaching" /\ task[w] \in Task \ {Idle} /\ task[w].order = o /\ Runs(w, o)
      BY DEF AttachInvoice, TypeOK, Idle, InHand, Runs
<1>2. task[w].failed \in BOOLEAN /\ task[w].todo \subseteq BillNo
      BY <1>1 DEF Task
<1> DEFINE n == Current(w)
<1>3. CASE ~TakesLink(o, n)
  <2>1. NextBill(w, TRUE)
        BY <1>1, <1>3 DEF AttachInvoice
  <2> QED BY <1>1, <2>1, NextBillStep
<1>4. CASE TakesLink(o, n) /\ task[w].failed
  <2>1. NextBill(w, TRUE)
        BY <1>1, <1>2, <1>4 DEF AttachInvoice
  <2> QED BY <1>1, <2>1, NextBillStep
<1>5. CASE TakesLink(o, n) /\ ~task[w].failed
  <2>1. PICK m \in task[w].todo : OpenBalance(o, m)
        BY <1>1, <1>5 DEF InHand
  <2>2. BillsStay(o)
        BY WorkKeepsBills DEF TaskStep
  <2>3. OpenBalance(o, m)' /\ m \in BillNo
        BY <1>2, <2>1, <2>2 DEF BillsStay, OpenBalance
  <2>4. bills' = [bills EXCEPT ![o][n].linked = TRUE] /\ NextBill(w, FALSE)
        BY <1>1, <1>2, <1>5 DEF AttachInvoice
  <2>5. CASE m = n
    <3> HIDE DEF n
    <3>1. bills[o][m] \in Bill
          BY <2>3 DEF TypeOK
    <3>2. bills'[o][m] = [bills[o][m] EXCEPT !.linked = TRUE]
          BY <2>3, <2>4, <2>5 DEF TypeOK
    <3>3. bills'[o][m].linked
          BY <3>1, <3>2 DEF Bill
    <3> QED BY <2>3, <3>3 DEF Linked, OpenBalance
  <2>6. CASE m # n
    <3> DEFINE todo == task[w].todo \ {n}
    <3>1. m \in todo /\ task[w].todo # {n}
          BY <2>1, <2>6
    <3>2. task' = [task EXCEPT ![w].pc = "invoicing", ![w].failed = FALSE, ![w].todo = todo]
          BY <2>4, <3>1 DEF NextBill
    <3> HIDE DEF todo, n
    <3>3. task'[w] = [task[w] EXCEPT !.pc = "invoicing", !.failed = FALSE, !.todo = todo]
          BY <3>2 DEF TypeOK
    <3>4. /\ task'[w].order = o /\ task'[w].left = task[w].left
          /\ task'[w].pc = "invoicing" /\ task'[w].todo = todo
          BY <1>1, <3>3 DEF Task
    <3>5. Runs(w, o)'
          BY <1>1, <3>4 DEF Runs, Idle
    <3> QED BY <2>3, <3>1, <3>4, <3>5 DEF InHand
  <2> QED BY <2>5, <2>6
<1> QED BY <1>2, <1>3, <1>4, <1>5

\* A worker's step on the order leaves somebody to care for it.
LEMMA WorkCares ==
  ASSUME IInv, IInv', JobsLag, NEW w \in Worker, TaskStep(w) \/ Stop(w), NEW o \in Order,
         Wants(o), CaredFor(o)
  PROVE  CaredFor(o)' \/ dropped'[o]
<1>0. TypeOK
      BY DEF IInv
<1>1. BillsStay(o)
      BY <1>0, WorkKeepsBills
<1>2. /\ JobWaits(o) => JobWaits(o)'
      /\ \A v \in Worker : v # w => task'[v] = task[v]
  <2>1. CASE Stop(w)
        BY <1>0, <2>1, DoneStep DEF Stop
  <2>2. CASE BillBalance(w) \/ CreateInvoice(w)
        BY <1>0, <2>2 DEF BillBalance, CreateInvoice, TypeOK, JobWaits
  <2>3. CASE InvoiceFails(w)
        BY <1>0, <2>3, NextBillStep DEF InvoiceFails
  <2>4. CASE AttachInvoice(w)
    <3>1. task[w].pc = "attaching" /\ (NextBill(w, TRUE) \/ NextBill(w, task[w].failed))
          BY <2>4 DEF AttachInvoice
    <3>2. task[w].failed \in BOOLEAN
          BY <1>0, <3>1 DEF TypeOK, Task, Idle
    <3> QED BY <1>0, <3>1, <3>2, NextBillStep
  <2>5. CASE ReadBills(w)
    <3>0. task[w] # Idle
          BY <2>5 DEF ReadBills, Idle
    <3>1. CASE Done(w, FALSE)
          BY <1>0, <3>0, <3>1, DoneStep
    <3>2. CASE ~Done(w, FALSE)
          BY <1>0, <2>5, <3>2 DEF ReadBills, TypeOK, JobWaits
    <3> QED BY <3>1, <3>2
  <2> QED BY <2>1, <2>2, <2>3, <2>4, <2>5 DEF TaskStep
<1>3. CASE ~InHand(w, o)
      BY <1>0, <1>1, <1>2, <1>3, OthersStep
<1>4. CASE InHand(w, o)
  <2>1. Runs(w, o)
        BY <1>4 DEF InHand
  <2>2. Linked(o)' \/ JobWaits(o)' \/ dropped'[o] \/ InHand(w, o)'
    <3>1. CASE Stop(w)
          BY <1>0, <2>1, <3>1, DoneStep DEF Stop
    <3>2. CASE BillBalance(w)
          BY <2>1, <3>2, BillCares
    <3>3. CASE ReadBills(w)
          BY <1>4, <3>3, ReadCares
    <3>4. CASE CreateInvoice(w)
          BY <1>0, <1>4, <3>4, CreateCares
    <3>5. CASE InvoiceFails(w)
          BY <1>0, <2>1, <3>5, NextBillStep DEF InvoiceFails
    <3>6. CASE AttachInvoice(w)
          BY <1>0, <1>4, <3>6, AttachCares
    <3> QED BY <3>1, <3>2, <3>3, <3>4, <3>5, <3>6 DEF TaskStep
  <2> QED BY <2>2 DEF CaredFor
<1> QED BY <1>3, <1>4

\* No worker forgets that an order was dropped.
LEMMA WorkKeepsDropped ==
  ASSUME TypeOK, NEW w \in Worker, TaskStep(w) \/ Stop(w), NEW o \in Order, ~dropped'[o]
  PROVE  ~dropped[o]
<1>1. CASE Stop(w)
      BY <1>1, DoneStep DEF Stop
<1>2. CASE BillBalance(w) \/ CreateInvoice(w)
      BY <1>2 DEF BillBalance, CreateInvoice
<1>3. CASE InvoiceFails(w)
      BY <1>3, NextBillStep DEF InvoiceFails
<1>4. CASE AttachInvoice(w)
  <2>1. task[w].pc = "attaching" /\ (NextBill(w, TRUE) \/ NextBill(w, task[w].failed))
        BY <1>4 DEF AttachInvoice
  <2>2. task[w].failed \in BOOLEAN
        BY <2>1 DEF TypeOK, Task, Idle
  <2> QED BY <2>1, <2>2, NextBillStep
<1>5. CASE ReadBills(w)
  <2>1. task[w] # Idle
        BY <1>5 DEF ReadBills, Idle
  <2>2. CASE Done(w, FALSE)
        BY <2>1, <2>2, DoneStep
  <2>3. CASE ~Done(w, FALSE)
        BY <1>5, <2>3 DEF ReadBills
  <2> QED BY <2>2, <2>3
<1> QED BY <1>1, <1>2, <1>3, <1>4, <1>5 DEF TaskStep

-----------------------------------------------------------------------------
\* The other steps, and all of them.

\* An order that still wants its balance billed, and was not paid for in this
\* step, wanted it before; its bills and jobs are as they were.
LEMMA OrdersFrame ==
  ASSUME TypeOK, TypeOK', [Next]_vars, NEW o \in Order, Wants(o)',
         ~\E w \in Worker : TaskStep(w) \/ Stop(w),
         ~\E w \in Worker, a \in 1 .. MaxAttempts : StartJob(w, o, a),
         ~\E amount \in 1 .. terms[o].total : RecordPayment(o, amount)
  PROVE  Wants(o) /\ bills'[o] = bills[o] /\ jobs'[o] = jobs[o]
<1> DEFINE Same == /\ status'[o] = status[o] /\ payment'[o] = payment[o] /\ terms'[o] = terms[o]
                   /\ bills'[o] = bills[o] /\ jobs'[o] = jobs[o] /\ dropped'[o] = dropped[o]
                   /\ clock' = clock \/ clock' = clock + 1
<1>1. SUFFICES Same
  <2>1. terms[o].balanceDue \in Nat /\ clock \in Nat
    <3>1. terms[o] \in Terms
          BY DEF TypeOK
    <3> QED BY <3>1, TermsType DEF TypeOK
  <2> QED BY <2>1 DEF Wants
<1>2. status'[o] = "confirmed"
      BY DEF Wants
<1>3. ASSUME NEW p \in Order, Place(p) PROVE Same
  <2>1. p # o
        BY <1>2, <1>3 DEF Place, TypeOK
  <2> QED BY <1>3, <2>1 DEF Place, TypeOK, FreeBill
<1>4. ASSUME NEW p \in Order, NEW to \in ProductionSteps, Advance(p, to) PROVE Same
  <2>1. p # o
        BY <1>2, <1>4 DEF Advance, TypeOK, ProductionSteps
  <2> QED BY <1>4, <2>1 DEF Advance, TypeOK
<1>5. ASSUME NEW p \in Order, NEW amount \in 1 .. terms[p].total, RecordPayment(p, amount) PROVE Same
  <2>1. p # o
        BY <1>5
  <2> QED BY <1>5, <2>1 DEF RecordPayment, TypeOK
<1>6. ASSUME NEW p \in Order, NEW to \in {"expired", "cancelled"}, NEW pay, End(p, to, pay),
             UNCHANGED <<clock, terms, jobs, dropped>>
      PROVE  Same
  <2>1. p # o
        BY <1>2, <1>6 DEF End, TypeOK
  <2> QED BY <1>6, <2>1 DEF End, TypeOK
<1>7. ASSUME NEW p \in Order, CancelUnpaid(p) \/ CancelForfeit(p) \/ CancelRefund(p) PROVE Same
      BY <1>6, <1>7 DEF CancelUnpaid, CancelForfeit, CancelRefund
<1>8. ASSUME NEW s \in Sweeper, NEW p \in Order, SweepOrder(s, p) PROVE Same
      BY <1>6, <1>8 DEF SweepOrder
<1>9. ASSUME NEW s \in Sweeper, Sweeps(s) \/ StopSweep(s) PROVE Same
      BY <1>8, <1>9 DEF Sweeps, StartSweep, SkipOrder, StopSweep
<1>10. ASSUME NEW w \in Worker, NEW p \in Order, OpenOrder(w, p) PROVE Same
       BY <1>10 DEF OpenOrder
<1>11. ASSUME NEW w \in Worker, NEW p \in Order, NEW a \in 1 .. MaxAttempts, StartJob(w, p, a)
       PROVE  Same
  <2>1. p # o
        BY <1>11
  <2> QED BY <1>11, <2>1 DEF StartJob, TypeOK
<1> QED BY <1>3, <1>4, <1>5, <1>7, <1>9, <1>10, <1>11 DEF Next, Staff, Tick, vars

\* A job taken is in somebody's hand.
LEMMA StartCares ==
  ASSUME TypeOK, NEW w \in Worker, NEW o \in Order, NEW a \in 1 .. MaxAttempts, StartJob(w, o, a)
  PROVE  InHand(w, o)'
<1>1. task'[w] = Doing("billing", o, a - 1, clock)
      BY DEF StartJob, TypeOK
<1>2. a - 1 # NotAJob
      BY BoundsAssumption DEF NotAJob
<1> QED BY <1>1, <1>2 DEF Doing, InHand, Runs, Idle

\* Every step of the shop leaves somebody to care for every balance.
LEMMA NextCares ==
  ASSUME IInv, IInv', BillingInv, [Next]_vars, NEW o \in Order, Wants(o)'
  PROVE  CaredFor(o)'
<1>0. TypeOK /\ TypeOK'
      BY DEF IInv
<1>1. CASE \E w \in Worker : TaskStep(w) \/ Stop(w)
  <2>1. PICK w \in Worker : TaskStep(w) \/ Stop(w)
        BY <1>1
  <2>2. ~dropped'[o]
        BY DEF Wants
  <2>3. UNCHANGED <<clock, status, payment, terms>>
        BY <2>1 DEF TaskStep, Stop, BillBalance, ReadBills, CreateInvoice, InvoiceFails, AttachInvoice
  <2>4. Wants(o)
        BY <1>0, <2>1, <2>2, <2>3, WorkKeepsDropped DEF Wants
  <2> QED BY <2>1, <2>2, <2>4, WorkCares DEF BillingInv
<1>2. CASE \E w \in Worker, a \in 1 .. MaxAttempts : StartJob(w, o, a)
      BY <1>0, <1>2, StartCares DEF CaredFor
<1>3. CASE \E amount \in 1 .. terms[o].total : RecordPayment(o, amount)
  <2>1. jobs' = [jobs EXCEPT ![o][MaxAttempts] = @ + JobsOfPayment(o)]
        BY <1>3 DEF RecordPayment
  <2>2. MaxAttempts \in 1 .. MaxAttempts /\ jobs[o] \in [1 .. MaxAttempts -> Nat]
        BY <1>0, BoundsAssumption DEF TypeOK
  <2>3. jobs'[o][MaxAttempts] = jobs[o][MaxAttempts] + JobsOfPayment(o)
        BY <1>0, <2>1, <2>2 DEF TypeOK
  <2>4. jobs'[o][MaxAttempts] # 0
        BY <2>2, <2>3 DEF JobsOfPayment
  <2> QED BY <2>2, <2>4 DEF CaredFor, JobWaits
<1>4. CASE /\ ~\E w \in Worker : TaskStep(w) \/ Stop(w)
           /\ ~\E w \in Worker, a \in 1 .. MaxAttempts : StartJob(w, o, a)
           /\ ~\E amount \in 1 .. terms[o].total : RecordPayment(o, amount)
  <2>1. Wants(o) /\ bills'[o] = bills[o] /\ jobs'[o] = jobs[o]
        BY <1>0, <1>4, OrdersFrame
  <2>2. CaredFor(o)
        BY <2>1 DEF BillingInv
  <2>3. CASE task' = task
        BY <2>1, <2>2, <2>3, FrameStep
  <2>4. ASSUME NEW w \in Worker, task[w] = Idle, \A v \in Worker : v # w => task'[v] = task[v]
        PROVE  CaredFor(o)'
    <3>1. ~InHand(w, o)
          BY <2>4 DEF InHand, Runs
    <3>2. BillsStay(o) /\ (JobWaits(o) => JobWaits(o)')
          BY <2>1 DEF BillsStay, OpenBalance, JobWaits
    <3> QED BY <1>0, <2>2, <2>4, <3>1, <3>2, OthersStep
  <2>5. ASSUME NEW w \in Worker, NEW p \in Order,
               OpenOrder(w, p) \/ \E a \in 1 .. MaxAttempts : StartJob(w, p, a)
        PROVE  CaredFor(o)'
    <3>1. task[w] = Idle /\ \A v \in Worker : v # w => task'[v] = task[v]
          BY <1>0, <2>5 DEF OpenOrder, StartJob, TypeOK
    <3> QED BY <2>4, <3>1
  <2>6. CASE ~\E w \in Worker, p \in Order :
                OpenOrder(w, p) \/ \E a \in 1 .. MaxAttempts : StartJob(w, p, a)
    <3>1. task' = task
          BY <1>4, <2>6 DEF Next, Tick, Place, Staff, Advance, RecordPayment, CancelUnpaid, CancelForfeit,
             CancelRefund, Sweeps, StartSweep, SweepOrder, SkipOrder, StopSweep, vars
    <3> QED BY <2>3, <3>1
  <2> QED BY <2>5, <2>6
<1> QED BY <1>1, <1>2, <1>3, <1>4

\* A job's time is read when it starts.
LEMMA NextLag == IInv /\ JobsLag /\ [Next]_vars => JobsLag'
<1> SUFFICES ASSUME IInv, JobsLag, [Next]_vars, NEW w \in Worker, task'[w].pc = "billing"
             PROVE  task'[w].now <= clock'
    BY DEF JobsLag
<1>0. TypeOK
      BY DEF IInv
<1>1. CASE task'[w] = task[w]
  <2>1. task[w].now \in Nat /\ task[w].now <= clock /\ clock \in Nat
        BY <1>0, <1>1 DEF JobsLag, TypeOK, Task, Idle
  <2>2. clock' = clock \/ clock' = clock + 1
        BY DEF Next, Tick, Place, Staff, Advance, RecordPayment, CancelUnpaid, CancelForfeit, CancelRefund,
           Sweeps, StartSweep, SweepOrder, SkipOrder, StopSweep, OpenOrder, StartJob, TaskStep, Stop,
           BillBalance, ReadBills, CreateInvoice, InvoiceFails, AttachInvoice, vars
  <2> QED BY <1>1, <2>1, <2>2
<1>2. CASE task'[w] # task[w]
  <2>1. ASSUME NEW v \in Worker, NEW o \in Order, NEW a \in 1 .. MaxAttempts, StartJob(v, o, a)
        PROVE  task'[w].now <= clock'
    <3>1. v = w /\ task'[w] = Doing("billing", o, a - 1, clock)
          BY <1>0, <1>2, <2>1 DEF StartJob, TypeOK
    <3>2. task'[w].now = clock /\ clock' = clock /\ clock \in Nat
          BY <1>0, <2>1, <3>1 DEF Doing, StartJob, TypeOK
    <3> QED BY <3>2
  <2>2. ASSUME NEW v \in Worker, TaskStep(v) \/ Stop(v) \/ \E o \in Order : OpenOrder(v, o)
        PROVE  FALSE
    <3>1. CASE v # w
      <4>1. task'[w] = task[w]
            BY <1>0, <2>2, <3>1 DEF TaskStep, Stop, OpenOrder, BillBalance, ReadBills, CreateInvoice,
               InvoiceFails, AttachInvoice, NextBill, Done, TypeOK
      <4> QED BY <1>2, <4>1
    <3>2. CASE v = w
      <4>1. task'[w].pc \in {"idle", "reading", "invoicing", "attaching"}
            BY <1>0, <2>2, <3>2 DEF TaskStep, Stop, OpenOrder, BillBalance, ReadBills, CreateInvoice,
               InvoiceFails, AttachInvoice, NextBill, Done, TypeOK, Doing, Idle, Task
      <4> QED BY <4>1
    <3> QED BY <3>1, <3>2
  <2> QED BY <1>2, <2>1, <2>2 DEF Next, Tick, Place, Staff, Advance, RecordPayment, CancelUnpaid,
             CancelForfeit, CancelRefund, Sweeps, StartSweep, SweepOrder, SkipOrder, StopSweep, vars
<1> QED BY <1>1, <1>2

\* Once no job of a confirmed order waits or is under way, its balance can be
\* paid online, or fell due, or a job used up its attempts.
THEOREM BalanceAlwaysBilled == Spec => []BalanceBilled
<1>1. Init => BillingInv
      BY DEF Init, BillingInv, JobsLag, Wants, Idle
<1>2. IInv /\ IInv' /\ BillingInv /\ [Next]_vars => BillingInv'
      BY NextCares, NextLag DEF BillingInv
<1>3. BillingInv => BalanceBilled
  <2> SUFFICES ASSUME BillingInv, NEW o \in Order, Wants(o),
                      \A a \in 1 .. MaxAttempts : jobs[o][a] = 0,
                      \A w \in Worker : task[w] = Idle \/ task[w].order # o
               PROVE  Linked(o)
      BY DEF BalanceBilled, Wants, Linked, OpenBalance
  <2> QED BY DEF BillingInv, CaredFor, JobWaits, InHand, Runs
<1> QED BY <1>1, <1>2, <1>3, Safe, PTL DEF Spec

=============================================================================
