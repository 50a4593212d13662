--------------------------- MODULE CheckoutProofs ---------------------------
(***************************************************************************)
(* Proofs about Checkout, for any requests, limit and bounds: the limit on *)
(* unpaid orders holds, and a repeated checkout gets the first's order.    *)
(* Both rest on the customer's lock: what Check saw stays true until       *)
(* Insert, since nobody else of that customer can insert in between and    *)
(* the others only take orders away.                                       *)
(***************************************************************************)
EXTENDS Checkout, FiniteSetTheorems, TLAPS

\* Clock, counters and batches.
RestOK ==
  /\ clock \in 0 .. MaxTime
  /\ tries \in [Request -> 0 .. MaxTries]
  /\ batch \in [Dates -> {"none", "open", "locked"}]

\* Where requests are, what they were quoted and told.
ControlOK ==
  /\ pc \in [Request -> {"idle", "quoting", "waiting", "checking", "inserting", "answered"}]
  /\ plan = [r \in Request |-> plan[r]]
  /\ answer = [r \in Request |-> answer[r]]
  /\ \A r \in Request :
       /\ answer[r] \in Request \cup {"none", "refused", "too_many_unpaid", "failed"}
       /\ pc[r] \in {"waiting", "checking", "inserting"} => plan[r].date \in Dates

\* Orders: an order once placed is a record of its status, date and cutoff.
OrderOK ==
  /\ order = [r \in Request |-> order[r]]
  /\ \A r \in Request :
       /\ order[r].status \in {"none", "awaiting_dp", "confirmed", "expired", "cancelled"}
       /\ \/ order[r] = NoOrder
          \/ order[r] = [status |-> order[r].status, date |-> order[r].date,
                         cutoff |-> order[r].cutoff]

\* The lock is held by whoever is between Check and Insert.
LockOK ==
  /\ holder \in [Customer -> Request \cup {Nobody}]
  /\ \A r \in Request : pc[r] \in {"checking", "inserting"} <=> holder[Sent[r].customer] = r

Parts == RestOK /\ ControlOK /\ OrderOK /\ LockOK

\* What a request saw under the lock still holds when it inserts.
CheckedHolds ==
  \A r \in Request :
    pc[r] = "inserting" =>
      Existing(r) = {} /\ Cardinality(Unpaid(Sent[r].customer)) < MaxUnpaid

IInv == Parts /\ CheckedHolds /\ UnpaidLimit

-----------------------------------------------------------------------------
\* A customer's unpaid orders can be counted.
LEMMA UnpaidFinite ==
  ASSUME NEW c
  PROVE  /\ IsFiniteSet(Unpaid(c))
         /\ Cardinality(Unpaid(c)) \in Nat
<1>1. Unpaid(c) \subseteq Request
  BY DEF Unpaid
<1> QED
  BY <1>1, CheckoutAssumption, FS_Subset, FS_CardinalityType

\* Fewer orders waiting are not more.
LEMMA FewerUnpaid ==
  ASSUME NEW c, Unpaid(c)' \subseteq Unpaid(c)
  PROVE  Cardinality(Unpaid(c)') <= Cardinality(Unpaid(c))
BY UnpaidFinite, FS_Subset

\* One more is at most one more.
LEMMA OneMoreUnpaid ==
  ASSUME NEW c, NEW r, Unpaid(c)' = Unpaid(c) \cup {r}
  PROVE  Cardinality(Unpaid(c)') <= Cardinality(Unpaid(c)) + 1
<1>1. IsFiniteSet(Unpaid(c)) /\ Cardinality(Unpaid(c)) \in Nat
  BY UnpaidFinite
<1>2. Cardinality(Unpaid(c) \cup {r}) =
        IF r \in Unpaid(c) THEN Cardinality(Unpaid(c)) ELSE Cardinality(Unpaid(c)) + 1
  BY <1>1, FS_AddElement
<1> QED
  BY <1>1, <1>2

-----------------------------------------------------------------------------
\* The lock: whoever is between Check and Insert has it, alone.
LEMMA LockedAlone ==
  ASSUME LockOK, NEW r \in Request, NEW q \in Request,
         pc[r] \in {"checking", "inserting"}, pc[q] \in {"checking", "inserting"},
         Sent[r].customer = Sent[q].customer
  PROVE  q = r
BY DEF LockOK

\* The parts say more of every variable than its type does.
LEMMA TypedByParts == Parts => TypeOK
BY DEF Parts, RestOK, ControlOK, OrderOK, LockOK, TypeOK

\* A request that is told its answer.
LEMMA AnswersTyped ==
  ASSUME ControlOK, NEW r \in Request,
         NEW a \in Request \cup {"none", "refused", "too_many_unpaid", "failed"}, Answers(r, a)
  PROVE  ControlOK' /\ pc' = [pc EXCEPT ![r] = "answered"]
BY DEF ControlOK, Answers

\* A request that only moves on, with its quote.
LEMMA MovesTyped ==
  ASSUME ControlOK, NEW r \in Request, UNCHANGED <<plan, answer>>,
         NEW to \in {"quoting", "checking", "inserting"}, pc' = [pc EXCEPT ![r] = to],
         to = "quoting" \/ pc[r] \in {"waiting", "checking"}
  PROVE  ControlOK'
BY DEF ControlOK

\* A request outside the transaction goes where it has no lock either.
LEMMA NoLockNeeded ==
  ASSUME LockOK, ControlOK, NEW r \in Request, NEW to, pc' = [pc EXCEPT ![r] = to],
         holder' = holder, to \in {"checking", "inserting"} <=> pc[r] \in {"checking", "inserting"}
  PROVE  LockOK'
BY DEF LockOK, ControlOK

\* A request that ends its transaction.
LEMMA Unlocks ==
  ASSUME LockOK, ControlOK, NEW r \in Request, NEW to, pc' = [pc EXCEPT ![r] = to],
         pc[r] \in {"checking", "inserting"}, to \notin {"checking", "inserting"}, Unlock(r)
  PROVE  LockOK'
<1>1. Sent[r].customer \in Customer /\ Nobody \notin Request
  BY CheckoutAssumption DEF Customer
<1>2. holder' = [holder EXCEPT ![Sent[r].customer] = Nobody]
  BY DEF Unlock
<1>3. holder' \in [Customer -> Request \cup {Nobody}]
  BY <1>2 DEF LockOK
<1>4. ASSUME NEW q \in Request
      PROVE  pc'[q] \in {"checking", "inserting"} <=> holder'[Sent[q].customer] = q
  <2>1. Sent[q].customer \in Customer
    BY DEF Customer
  <2>2. CASE q = r
    BY <1>1, <1>2, <2>2 DEF LockOK, ControlOK
  <2>3. CASE q # r /\ Sent[q].customer = Sent[r].customer
    BY <1>1, <1>2, <2>3 DEF LockOK, ControlOK
  <2>4. CASE q # r /\ Sent[q].customer # Sent[r].customer
    BY <1>1, <1>2, <2>1, <2>4 DEF LockOK, ControlOK
  <2> QED
    BY <2>2, <2>3, <2>4
<1> QED
  BY <1>3, <1>4 DEF LockOK

\* An answer, or a stop, that comes with the end of the transaction.
LEMMA EndsUnlocked ==
  ASSUME LockOK, ControlOK, NEW r \in Request, pc[r] \in {"checking", "inserting"}, Unlock(r),
         pc' = [pc EXCEPT ![r] = "answered"] \/ pc' = [pc EXCEPT ![r] = "idle"]
  PROVE  LockOK'
<1>1. CASE pc' = [pc EXCEPT ![r] = "answered"]
  <2>1. "answered" \notin {"checking", "inserting"}
    OBVIOUS
  <2> QED
    BY <1>1, <2>1, Unlocks
<1>2. CASE pc' = [pc EXCEPT ![r] = "idle"]
  <2>1. "idle" \notin {"checking", "inserting"}
    OBVIOUS
  <2> QED
    BY <1>2, <2>1, Unlocks
<1> QED
  BY <1>1, <1>2

\* Every step keeps the parts.
LEMMA TypeStep == Parts /\ [Next]_vars => Parts'
<1> SUFFICES ASSUME RestOK, ControlOK, OrderOK, LockOK, [Next]_vars PROVE Parts'
  BY DEF Parts
<1>1. CASE Tick
  <2>1. clock' \in 0 .. MaxTime /\ UNCHANGED <<tries, batch>>
    BY <1>1, CheckoutAssumption DEF Tick, RestOK
  <2>2. UNCHANGED <<pc, plan, answer, order, holder>>
    BY <1>1 DEF Tick
  <2> QED
    BY <2>1, <2>2 DEF Parts, RestOK, ControlOK, OrderOK, LockOK
<1>2. ASSUME NEW r \in Request, Send(r) PROVE Parts'
  <2>1. RestOK' /\ OrderOK'
    BY <1>2, CheckoutAssumption DEF Send, RestOK, OrderOK
  <2>2. pc[r] = "idle" /\ holder' = holder
    BY <1>2 DEF Send
  <2>3. CASE Existing(r) # {}
    <3>1. PICK p \in Existing(r) : Answers(r, p)
      BY <1>2, <2>3 DEF Send
    <3>2. p \in Request
      BY DEF Existing
    <3>3. ControlOK' /\ pc' = [pc EXCEPT ![r] = "answered"]
      BY <3>1, <3>2, AnswersTyped
    <3> QED
      BY <2>1, <2>2, <3>3, NoLockNeeded DEF Parts
  <2>4. CASE Existing(r) = {}
    <3>1. UNCHANGED <<plan, answer>> /\ pc' = [pc EXCEPT ![r] = "quoting"]
      BY <1>2, <2>4 DEF Send
    <3> QED
      BY <2>1, <2>2, <3>1, MovesTyped, NoLockNeeded DEF Parts
  <2> QED
    BY <2>3, <2>4
<1>3. ASSUME NEW r \in Request, GetQuote(r) PROVE Parts'
  <2>1. RestOK' /\ OrderOK'
    BY <1>3 DEF GetQuote, RestOK, OrderOK
  <2>2. pc[r] = "quoting" /\ holder' = holder
    BY <1>3 DEF GetQuote
  <2>3. CASE Accepts(Settings, Asked(r))
    <3>1. /\ plan' = [plan EXCEPT ![r] = Plan(Settings, Asked(r))]
          /\ pc' = [pc EXCEPT ![r] = "waiting"] /\ answer' = answer
      BY <1>3, <2>3 DEF GetQuote
    <3>2. Plan(Settings, Asked(r)).date \in Dates
      BY DEF Plan, Asked, Start, Dates
    <3>3. ControlOK'
      BY <3>1, <3>2 DEF ControlOK
    <3> QED
      BY <2>1, <2>2, <3>1, <3>3, NoLockNeeded DEF Parts
  <2>4. CASE ~Accepts(Settings, Asked(r))
    <3>1. Answers(r, "refused")
      BY <1>3, <2>4 DEF GetQuote
    <3>2. ControlOK' /\ pc' = [pc EXCEPT ![r] = "answered"]
      BY <3>1, AnswersTyped
    <3> QED
      BY <2>1, <2>2, <3>2, NoLockNeeded DEF Parts
  <2> QED
    BY <2>3, <2>4
<1>4. ASSUME NEW r \in Request, Lock(r) PROVE Parts'
  <2>1. RestOK' /\ OrderOK'
    BY <1>4 DEF Lock, RestOK, OrderOK
  <2>2. /\ pc[r] = "waiting" /\ pc' = [pc EXCEPT ![r] = "checking"]
        /\ holder[Sent[r].customer] = Nobody /\ UNCHANGED <<plan, answer>>
        /\ holder' = [holder EXCEPT ![Sent[r].customer] = r]
    BY <1>4 DEF Lock, LockFree
  <2>3. ControlOK'
    BY <2>2, MovesTyped
  <2>4. Sent[r].customer \in Customer /\ Nobody \notin Request
    BY CheckoutAssumption DEF Customer
  <2>5. holder' \in [Customer -> Request \cup {Nobody}]
    BY <2>2 DEF LockOK
  <2>6. ASSUME NEW q \in Request
        PROVE  pc'[q] \in {"checking", "inserting"} <=> holder'[Sent[q].customer] = q
    <3>1. Sent[q].customer \in Customer
      BY DEF Customer
    <3>2. CASE q = r
      BY <2>2, <2>4, <3>2 DEF LockOK, ControlOK
    <3>3. CASE q # r /\ Sent[q].customer = Sent[r].customer
      BY <2>2, <2>4, <3>3 DEF LockOK, ControlOK
    <3>4. CASE q # r /\ Sent[q].customer # Sent[r].customer
      BY <2>2, <2>4, <3>1, <3>4 DEF LockOK, ControlOK
    <3> QED
      BY <3>2, <3>3, <3>4
  <2> QED
    BY <2>1, <2>3, <2>5, <2>6 DEF Parts, LockOK
<1>5. ASSUME NEW r \in Request, Check(r) PROVE Parts'
  <2>1. RestOK' /\ OrderOK' /\ pc[r] = "checking"
    BY <1>5 DEF Check, RestOK, OrderOK
  <2>2. CASE Twin(r) # {} \/ TooMany(r)
    <3>1. Unlock(r) /\ \E a \in Request \cup {"too_many_unpaid"} : Answers(r, a)
      BY <1>5, <2>2 DEF Check, Refuses, Twin, Existing
    <3>2. ControlOK' /\ pc' = [pc EXCEPT ![r] = "answered"]
      BY <3>1, AnswersTyped
    <3> QED
      BY <2>1, <3>1, <3>2, EndsUnlocked DEF Parts
  <2>3. CASE Twin(r) = {} /\ ~TooMany(r)
    <3>1. pc' = [pc EXCEPT ![r] = "inserting"] /\ UNCHANGED <<answer, plan, holder>>
      BY <1>5, <2>3 DEF Check
    <3> QED
      BY <2>1, <3>1, MovesTyped, NoLockNeeded DEF Parts
  <2> QED
    BY <2>2, <2>3
<1>6. ASSUME NEW r \in Request, Insert(r) PROVE Parts'
  <2> DEFINE made == [status |-> "awaiting_dp", date |-> plan[r].date, cutoff |-> plan[r].cutoff]
  <2>1. RestOK' /\ pc[r] = "inserting" /\ Unlock(r)
    BY <1>6 DEF Insert, RestOK
  <2>2. Answers(r, "failed") \/ Answers(r, r)
    BY <1>6 DEF Insert
  <2>3. ControlOK' /\ pc' = [pc EXCEPT ![r] = "answered"]
    BY <2>2, AnswersTyped
  <2>4. order' = order \/ order' = [order EXCEPT ![r] = made]
    BY <1>6 DEF Insert
  <2>5. /\ order' = [q \in Request |-> order'[q]]
        /\ \A q \in Request : order'[q] = order[q] \/ order'[q] = made
    BY <2>4 DEF OrderOK
  <2>6. OrderOK'
    BY <2>5 DEF OrderOK
  <2> QED
    BY <2>1, <2>3, <2>6, EndsUnlocked DEF Parts
<1>7. ASSUME NEW r \in Request, Lose(r) PROVE Parts'
  <2>1. RestOK' /\ OrderOK' /\ pc' = [pc EXCEPT ![r] = "idle"]
    BY <1>7 DEF Lose, RestOK, OrderOK
  <2>2. /\ answer' = [answer EXCEPT ![r] = "none"]
        /\ plan' = [plan EXCEPT ![r] = NoPlan]
    BY <1>7 DEF Lose
  <2>3. ControlOK'
    BY <2>1, <2>2 DEF ControlOK
  <2>4. CASE pc[r] \in {"checking", "inserting"}
    <3>1. Unlock(r)
      BY <1>7, <2>4 DEF Lose
    <3> QED
      BY <2>1, <2>3, <2>4, <3>1, EndsUnlocked DEF Parts
  <2>5. CASE pc[r] \notin {"checking", "inserting"}
    <3>1. holder' = holder
      BY <1>7, <2>5 DEF Lose
    <3> QED
      BY <2>1, <2>3, <2>5, <3>1, NoLockNeeded DEF Parts
  <2> QED
    BY <2>4, <2>5
<1>8. ASSUME NEW p \in Request, Confirm(p) \/ Expire(p) \/ Cancel(p) PROVE Parts'
  <2>1. PICK to \in {"confirmed", "expired", "cancelled"} :
          /\ order' = [order EXCEPT ![p].status = to]
          /\ UNCHANGED <<clock, pc, tries, plan, answer, holder, batch>>
    BY <1>8 DEF Confirm, Expire, Cancel, Becomes
  <2>2. order[p] # NoOrder
    BY <1>8 DEF Confirm, Expire, Cancel, NoOrder
  <2>3. order'[p] = [status |-> to, date |-> order[p].date, cutoff |-> order[p].cutoff]
    BY <2>1, <2>2 DEF OrderOK
  <2>4. OrderOK'
    BY <2>1, <2>3 DEF OrderOK
  <2>5. RestOK' /\ ControlOK' /\ LockOK'
    BY <2>1 DEF RestOK, ControlOK, LockOK
  <2> QED
    BY <2>4, <2>5 DEF Parts
<1>9. ASSUME NEW d \in Dates, OpenBatch(d) \/ LockDue(d) PROVE Parts'
  <2>1. batch' \in [Dates -> {"none", "open", "locked"}]
    BY <1>9 DEF OpenBatch, LockDue, RestOK
  <2>2. UNCHANGED <<clock, pc, tries, plan, answer, order, holder>>
    BY <1>9 DEF OpenBatch, LockDue
  <2> QED
    BY <2>1, <2>2 DEF Parts, RestOK, ControlOK, OrderOK, LockOK
<1>10. CASE UNCHANGED vars
  BY <1>10 DEF vars, Parts, RestOK, ControlOK, OrderOK, LockOK
<1> QED
  BY <1>1, <1>2, <1>3, <1>4, <1>5, <1>6, <1>7, <1>8, <1>9, <1>10 DEF Next, Handle

\* What was seen under the lock stays true, and the limit with it.
LEMMA CheckedStep == IInv /\ [Next]_vars => CheckedHolds' /\ UnpaidLimit'
<1> SUFFICES ASSUME ControlOK, OrderOK, LockOK, CheckedHolds, UnpaidLimit, [Next]_vars
             PROVE  CheckedHolds' /\ UnpaidLimit'
  BY DEF IInv, Parts
\* A step that leaves the orders alone and lets nobody into Insert.
<1>1. ASSUME order' = order, \A r \in Request : pc'[r] = "inserting" => pc[r] = "inserting"
      PROVE  CheckedHolds' /\ UnpaidLimit'
  BY <1>1 DEF CheckedHolds, UnpaidLimit, Existing, Unpaid
\* A step that only takes orders from those that wait.
<1>2. ASSUME pc' = pc,
             \A p \in Request :
               /\ order'[p].status = "none" <=> order[p].status = "none"
               /\ order'[p].status = "awaiting_dp" => order[p].status = "awaiting_dp"
      PROVE  CheckedHolds' /\ UnpaidLimit'
  <2>1. ASSUME NEW c PROVE Cardinality(Unpaid(c)') <= Cardinality(Unpaid(c))
    <3>1. Unpaid(c)' \subseteq Unpaid(c)
      BY <1>2 DEF Unpaid
    <3> QED
      BY <3>1, FewerUnpaid
  <2>2. ASSUME NEW c PROVE Cardinality(Unpaid(c)) \in Nat /\ Cardinality(Unpaid(c)') \in Int
    <3>1. Unpaid(c)' \subseteq Unpaid(c)
      BY <1>2 DEF Unpaid
    <3> QED
      BY <3>1, UnpaidFinite, FS_Subset, FS_CardinalityType
  <2>3. \A r \in Request : Existing(r)' = Existing(r)
    BY <1>2 DEF Existing
  <2>4. ASSUME NEW r \in Request, pc'[r] = "inserting"
        PROVE  Existing(r)' = {} /\ Cardinality(Unpaid(Sent[r].customer)') < MaxUnpaid
    <3>1. Existing(r) = {} /\ Cardinality(Unpaid(Sent[r].customer)) < MaxUnpaid
      BY <1>2, <2>4 DEF CheckedHolds
    <3> QED
      BY <3>1, <2>1, <2>2, <2>3, CheckoutAssumption
  <2>5. ASSUME NEW c \in Customer PROVE Cardinality(Unpaid(c)') <= MaxUnpaid
    <3>1. Cardinality(Unpaid(c)) <= MaxUnpaid
      BY DEF UnpaidLimit
    <3> QED
      BY <3>1, <2>1, <2>2, CheckoutAssumption
  <2> QED
    BY <2>4, <2>5 DEF CheckedHolds, UnpaidLimit
<1>3. CASE Tick
  BY <1>1, <1>3 DEF Tick
<1>4. ASSUME NEW r \in Request, Send(r) PROVE CheckedHolds' /\ UnpaidLimit'
  <2>1. order' = order /\ pc' \in {[pc EXCEPT ![r] = "answered"], [pc EXCEPT ![r] = "quoting"]}
    BY <1>4 DEF Send, Answers
  <2> QED
    BY <1>1, <2>1 DEF ControlOK
<1>5. ASSUME NEW r \in Request, GetQuote(r) PROVE CheckedHolds' /\ UnpaidLimit'
  <2>1. order' = order /\ pc' \in {[pc EXCEPT ![r] = "answered"], [pc EXCEPT ![r] = "waiting"]}
    BY <1>5 DEF GetQuote, Answers
  <2> QED
    BY <1>1, <2>1 DEF ControlOK
<1>6. ASSUME NEW r \in Request, Lock(r) PROVE CheckedHolds' /\ UnpaidLimit'
  <2>1. order' = order /\ pc' = [pc EXCEPT ![r] = "checking"]
    BY <1>6 DEF Lock
  <2> QED
    BY <1>1, <2>1 DEF ControlOK
<1>7. ASSUME NEW r \in Request, Check(r) PROVE CheckedHolds' /\ UnpaidLimit'
  <2>1. CASE Twin(r) # {} \/ TooMany(r)
    <3>1. order' = order /\ pc' = [pc EXCEPT ![r] = "answered"]
      BY <1>7, <2>1 DEF Check, Refuses, Answers
    <3> QED
      BY <1>1, <3>1 DEF ControlOK
  <2>2. CASE Twin(r) = {} /\ ~TooMany(r)
    <3>1. order' = order /\ pc' = [pc EXCEPT ![r] = "inserting"]
      BY <1>7, <2>2 DEF Check
    <3>2. Existing(r) = {} /\ Cardinality(Unpaid(Sent[r].customer)) < MaxUnpaid
      BY <2>2, UnpaidFinite, CheckoutAssumption DEF Twin, TooMany
    <3>3. ASSUME NEW q \in Request, pc'[q] = "inserting"
          PROVE  Existing(q)' = {} /\ Cardinality(Unpaid(Sent[q].customer)') < MaxUnpaid
      <4>1. Existing(q)' = Existing(q) /\ Unpaid(Sent[q].customer)' = Unpaid(Sent[q].customer)
        BY <3>1 DEF Existing, Unpaid
      <4>2. CASE q = r
        BY <3>2, <4>1, <4>2
      <4>3. CASE q # r
        BY <3>1, <3>3, <4>1, <4>3 DEF CheckedHolds, ControlOK
      <4> QED
        BY <4>2, <4>3
    <3>4. UnpaidLimit'
      BY <3>1 DEF UnpaidLimit, Unpaid
    <3> QED
      BY <3>3, <3>4 DEF CheckedHolds
  <2> QED
    BY <2>1, <2>2
<1>8. ASSUME NEW r \in Request, Insert(r) PROVE CheckedHolds' /\ UnpaidLimit'
  <2> DEFINE mine == Sent[r].customer
  <2>1. /\ pc[r] = "inserting" /\ pc' = [pc EXCEPT ![r] = "answered"]
        /\ Existing(r) = {} /\ Cardinality(Unpaid(mine)) < MaxUnpaid
    BY <1>8 DEF Insert, Answers, CheckedHolds
  <2>2. order' = [order EXCEPT ![r] = [status |-> "awaiting_dp", date |-> plan[r].date,
                                       cutoff |-> plan[r].cutoff]]
    BY <1>8, <2>1 DEF Insert
  <2>3. \A p \in Request : p # r => order'[p] = order[p]
    BY <2>2 DEF OrderOK
  <2>4. order'[r].status = "awaiting_dp"
    BY <2>2 DEF OrderOK
  <2>5. Unpaid(mine)' = Unpaid(mine) \cup {r}
    BY <2>3, <2>4 DEF Unpaid
  <2>6. \A c : c # mine => Unpaid(c)' = Unpaid(c)
    BY <2>3 DEF Unpaid
  <2>7. ASSUME NEW c \in Customer PROVE Cardinality(Unpaid(c)') <= MaxUnpaid
    <3>1. CASE c = mine
      <4>1. Cardinality(Unpaid(mine)') <= Cardinality(Unpaid(mine)) + 1
        BY <2>5, OneMoreUnpaid
      <4>2. Cardinality(Unpaid(mine)) \in Nat /\ Cardinality(Unpaid(mine)') \in Int
        BY <2>5, UnpaidFinite, FS_AddElement
      <4> QED
        BY <2>1, <3>1, <4>1, <4>2, CheckoutAssumption
    <3>2. CASE c # mine
      BY <2>6, <3>2 DEF UnpaidLimit
    <3> QED
      BY <3>1, <3>2
  <2>8. ASSUME NEW q \in Request, pc'[q] = "inserting"
        PROVE  Existing(q)' = {} /\ Cardinality(Unpaid(Sent[q].customer)') < MaxUnpaid
    <3>1. q # r /\ pc[q] = "inserting"
      BY <2>1, <2>8 DEF ControlOK
    <3>2. Sent[q].customer # mine
      BY <2>1, <3>1, LockedAlone
    <3>3. Existing(q) = {} /\ Cardinality(Unpaid(Sent[q].customer)) < MaxUnpaid
      BY <3>1 DEF CheckedHolds
    <3>4. Existing(q)' = Existing(q)
      BY <2>3, <3>2 DEF Existing, SameKey
    <3> QED
      BY <2>6, <3>2, <3>3, <3>4
  <2> QED
    BY <2>7, <2>8 DEF CheckedHolds, UnpaidLimit
<1>9. ASSUME NEW r \in Request, Lose(r) PROVE CheckedHolds' /\ UnpaidLimit'
  <2>1. order' = order /\ pc' = [pc EXCEPT ![r] = "idle"]
    BY <1>9 DEF Lose
  <2> QED
    BY <1>1, <2>1 DEF ControlOK
<1>10. ASSUME NEW p \in Request, Confirm(p) \/ Expire(p) \/ Cancel(p)
       PROVE  CheckedHolds' /\ UnpaidLimit'
  <2>1. PICK to \in {"confirmed", "expired", "cancelled"} :
          pc' = pc /\ order' = [order EXCEPT ![p].status = to]
    BY <1>10 DEF Confirm, Expire, Cancel, Becomes
  <2>2. order[p].status # "none" /\ order[p] # NoOrder
    BY <1>10 DEF Confirm, Expire, Cancel, NoOrder
  <2>3. order'[p].status = to /\ \A q \in Request : q # p => order'[q] = order[q]
    BY <2>1, <2>2 DEF OrderOK
  <2> QED
    BY <1>2, <2>1, <2>2, <2>3
<1>11. ASSUME NEW d \in Dates, OpenBatch(d) \/ LockDue(d) PROVE CheckedHolds' /\ UnpaidLimit'
  BY <1>1, <1>11 DEF OpenBatch, LockDue
<1>12. CASE UNCHANGED vars
  BY <1>1, <1>12 DEF vars
<1> QED
  BY <1>3, <1>4, <1>5, <1>6, <1>7, <1>8, <1>9, <1>10, <1>11, <1>12 DEF Next, Handle

\* It starts so: nobody asked, nothing is held.
LEMMA Initially == Init => IInv
<1> SUFFICES ASSUME Init PROVE IInv
  OBVIOUS
<1> USE CheckoutAssumption
<1>1. RestOK /\ OrderOK
  BY DEF Init, RestOK, OrderOK, NoOrder
<1>2. ControlOK /\ LockOK
  BY DEF Init, ControlOK, LockOK, Customer
<1>3. CheckedHolds
  BY DEF Init, CheckedHolds
<1>4. UnpaidLimit
  <2>1. \A c : Unpaid(c) = {}
    BY DEF Init, Unpaid, NoOrder
  <2>2. Cardinality({}) = 0
    BY FS_EmptySet
  <2> QED
    BY <2>1, <2>2 DEF UnpaidLimit
<1> QED
  BY <1>1, <1>2, <1>3, <1>4 DEF IInv, Parts

-----------------------------------------------------------------------------
\* The inductive invariant: shapes, the lock, and what was checked under it.
THEOREM Safe == Spec => []IInv
<1>1. IInv /\ [Next]_vars => IInv'
  BY TypeStep, CheckedStep DEF IInv
<1> QED
  BY <1>1, Initially, PTL DEF Spec

\* Every variable keeps its shape, and a customer's lock is held by at most
\* one request, inside its transaction (LockCustomer).
THEOREM TypeCorrect == Spec => []TypeOK
<1>1. IInv => TypeOK
  BY TypedByParts DEF IInv
<1> QED
  BY <1>1, Safe, PTL

\* A customer never has more unpaid orders than the limit, however many
\* checkouts run at once and however often each is sent (Place).
THEOREM LimitHolds == Spec => []UnpaidLimit
<1>1. IInv => UnpaidLimit
  BY DEF IInv
<1> QED
  BY <1>1, Safe, PTL

\* Sending the same checkout twice returns the order placed the first time:
\* under the lock a request is told its key's order if there is one, and its
\* own insert never fails on the key.
THEOREM TwinsGetTheOrder == Spec => TwinGetsTheOrder
<1>1. IInv /\ [Next]_vars =>
        \A r \in Request :
          pc[r] \in {"checking", "inserting"} /\ pc'[r] = "answered" /\ Existing(r)' # {} =>
            answer'[r] \in Existing(r)'
  <2> SUFFICES ASSUME IInv, [Next]_vars, NEW r \in Request,
                      pc[r] \in {"checking", "inserting"}, pc'[r] = "answered", Existing(r)' # {}
               PROVE  answer'[r] \in Existing(r)'
    OBVIOUS
  <2>1. ControlOK /\ OrderOK /\ CheckedHolds
    BY DEF IInv, Parts
  <2>2. Check(r) \/ Insert(r)
    <3>1. ASSUME NEW q \in Request, q # r,
                 Send(q) \/ GetQuote(q) \/ Lock(q) \/ Check(q) \/ Insert(q) \/ Lose(q)
          PROVE  FALSE
      <4>1. pc'[r] = pc[r]
        BY <2>1, <3>1 DEF ControlOK, Send, GetQuote, Lock, Check, Refuses, Insert, Lose, Answers
      <4> QED
        BY <4>1
    <3>2. ~ (Send(r) \/ GetQuote(r) \/ Lock(r) \/ Lose(r))
      BY <2>1 DEF ControlOK, Send, GetQuote, Lock, Lose
    <3>3. pc' # pc
      OBVIOUS
    <3>4. ~ (Tick \/ UNCHANGED vars)
      BY <3>3 DEF Tick, vars
    <3>5. \A p \in Request : ~ (Confirm(p) \/ Expire(p) \/ Cancel(p))
      BY <3>3 DEF Confirm, Expire, Cancel, Becomes
    <3>6. \A d \in Dates : ~ (OpenBatch(d) \/ LockDue(d))
      BY <3>3 DEF OpenBatch, LockDue
    <3> QED
      BY <3>1, <3>2, <3>4, <3>5, <3>6 DEF Next, Handle
  <2>3. CASE Check(r)
    <3>1. order' = order /\ Existing(r)' = Existing(r)
      BY <2>3 DEF Check, Existing
    <3>2. PICK p \in Twin(r) : Answers(r, p)
      BY <2>3, <3>1 DEF Check, Twin
    <3> QED
      BY <2>1, <3>1, <3>2 DEF Answers, ControlOK, Twin
  <2>4. CASE Insert(r)
    <3>1. Existing(r) = {}
      BY <2>1, <2>4 DEF Insert, CheckedHolds
    <3>2. /\ answer'[r] = r
          /\ order' = [order EXCEPT ![r] = [status |-> "awaiting_dp", date |-> plan[r].date,
                                            cutoff |-> plan[r].cutoff]]
      BY <2>1, <2>4, <3>1 DEF Insert, Answers, ControlOK
    <3>3. order'[r].status = "awaiting_dp"
      BY <2>1, <3>2 DEF OrderOK
    <3> QED
      BY <3>2, <3>3 DEF Existing, SameKey
  <2> QED
    BY <2>2, <2>3, <2>4
<1> QED
  BY <1>1, Safe, PTL DEF TwinGetsTheOrder, Spec

=============================================================================
