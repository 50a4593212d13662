--------------------------- MODULE KitchenProofs ----------------------------
(***************************************************************************)
(* Proofs about Kitchen for any days, ingredients, purchases and runners:  *)
(* what the lists say is on order is what waits, nothing is bought beyond  *)
(* what a list lacks, and a batch only moves on.  The lock of a batch      *)
(* keeps its list still while a runner computes it, and the lock of a      *)
(* purchase what waits of it.  Where every day has its batch and is        *)
(* finished in time, all lists are right in the end.                       *)
(***************************************************************************)
EXTENDS Kitchen, Sums

-----------------------------------------------------------------------------
\* The invariant.

Stage == {"next", "stock", "claims", "save", "mark"}

Doing(t) == [at : Stage, task : {t}, todo : SUBSET Day, need : [Ingredient -> Nat],
             has : [Ingredient -> Int], again : BOOLEAN, refused : BOOLEAN]

Busy(r) == run[r].at # "idle"

Buys(r) == Busy(r) /\ run[r].task.kind = "buy"
Settles(r) == Busy(r) /\ run[r].task.kind \in {"receive", "cancel"}

TaskOK(t) ==
  \/ t \in Job \cup {[kind |-> "recompute"]}
  \/ t.kind \in {"buy", "receive", "cancel"} /\ t.purchase \in Purchase
TakesIn(t) == t.kind = "receive" => \A i \in DOMAIN t.got : i \in Ingredient /\ t.got[i] \in Nat

RunOK(r) ==
  /\ run[r] # Idle => run[r] \in Doing(run[r].task) /\ TaskOK(run[r].task) /\ TakesIn(run[r].task)
  /\ run[r].at \in Stage \ {"next"} => run[r].todo # {}
  /\ Buys(r) \/ Settles(r) => run[r].at # "mark" /\ \E d \in Day : run[r].todo \subseteq {d}

\* A purchase that is being made is not there yet; one that is settled is that
\* of the day, and what came still waits.
PurchaseOK(r) ==
  /\ Buys(r) /\ run[r].todo # {} => purchases[run[r].task.purchase] = NoPurchase
  /\ Settles(r) /\ run[r].todo # {} =>
       LET p == run[r].task.purchase
       IN  /\ run[r].todo = {purchases[p].day}
           /\ run[r].task.kind = "receive" => DOMAIN run[r].task.got \subseteq Waiting(p)

\* Each has its purchase to itself.
Apart(q, r) ==
  (Buys(q) /\ Buys(r)) \/ (Settles(q) /\ Settles(r)) => run[q].task.purchase # run[r].task.purchase

\* What is left to buy is what the list lacks.
ListOK(d, i) ==
  lines[d][i] # NoLine =>
    lines[d][i].toBuy = ToBuy(lines[d][i].needed, lines[d][i].usable, lines[d][i].ordered)

Typed ==
  /\ TypeOK
  /\ DOMAIN run = Runner /\ \A r \in Runner : RunOK(r)

IInv ==
  /\ Typed /\ OnOrderIsSum
  /\ \A r \in Runner : PurchaseOK(r)
  /\ \A q, r \in Runner : q # r => Apart(q, r)
  /\ \A d \in Day, i \in Ingredient : ListOK(d, i)

-----------------------------------------------------------------------------
\* The model's operators.

LEMMA FirstDay ==
  ASSUME NEW S, S \subseteq Day, S # {}
  PROVE  Min(S) \in S /\ \A d \in S : Min(S) <= d
BY KitchenAssumption, MinOfSome

LEMMA LastDay == Max(Day) \in Day /\ \A d \in Day : d <= Max(Day)
BY KitchenAssumption, MaxOfSome

LEMMA LineIs ==
  ASSUME TypeOK, NEW d \in Day, NEW i \in Ingredient
  PROVE  /\ Line(d, i) \in LineType
         /\ Line(d, i).needed \in Nat /\ Line(d, i).usable \in Nat
         /\ Line(d, i).ordered \in Int /\ Line(d, i).received \in Nat
         /\ Line(d, i).toBuy \in Nat
<1>1. Line(d, i) \in LineType
  <2>1. lines[d][i] \in LineType \cup {NoLine}
        BY DEF TypeOK
  <2>2. CASE lines[d][i] = NoLine
        BY <2>2 DEF Line, LineType
  <2>3. CASE lines[d][i] # NoLine
        BY <2>1, <2>3 DEF Line
  <2> QED BY <2>2, <2>3
<1> QED BY <1>1 DEF LineType

\* A list that is computed, and how it keeps what is on order.
LEMMA ShoppedIs ==
  ASSUME NEW need \in Nat, NEW has \in Int, NEW ordered \in Int, NEW received \in Nat,
         NEW line, line = Shopped(need, has, ordered, received)
  PROVE  /\ line \in LineType \cup {NoLine}
         /\ line = NoLine => ordered <= 0
         /\ line # NoLine => /\ line.ordered = ordered
                             /\ line.toBuy = ToBuy(line.needed, line.usable, line.ordered)
<1> DEFINE h == Max({has, 0})
           u == Min({h, need})
           b == ToBuy(need, u, ordered)
           s == line
<1>1. h \in Nat
      BY MaxOfTwo
<1>2. u \in Nat
  <2> HIDE DEF h
  <2> QED BY <1>1, MinOfTwo
<1>3. b \in Nat
  <2> HIDE DEF u
  <2> DEFINE a == need - u - ordered
  <2>1. a \in Int
        BY <1>2
  <2>2. b = Max({a, 0})
        BY DEF ToBuy
  <2> HIDE DEF a, b
  <2> QED BY <2>1, <2>2, MaxOfTwo
<1>4. CASE need = 0 /\ ordered <= 0 /\ received <= 0
  <2>1. s = NoLine
        BY <1>4 DEF Shopped
  <2> QED BY <1>4, <2>1
<1>5. CASE ~(need = 0 /\ ordered <= 0 /\ received <= 0)
  <2>1. s = [needed |-> need, usable |-> u, ordered |-> ordered, received |-> received, toBuy |-> b]
        BY <1>5 DEF Shopped
  <2> HIDE DEF u, s
  <2>2. s.ordered = ordered /\ s.toBuy = b /\ s.needed = need /\ s.usable = u
        BY <2>1
  <2>3. b = ToBuy(need, u, ordered)
        OBVIOUS
  <2> HIDE DEF b
  <2>4. s \in LineType
        BY <1>2, <1>3, <2>1 DEF LineType
  <2>5. s # NoLine
    <3>1. s.needed # -1
          BY <2>2
    <3> QED BY <3>1 DEF NoLine
  <2> QED BY <2>2, <2>3, <2>4, <2>5 DEF s
<1> QED BY <1>4, <1>5

\* A pack more is never needed.
LEMMA RoundedUpIs ==
  ASSUME NEW q \in Nat, NEW size \in Nat \ {0}
  PROVE  RoundedUp(q, size) \in Nat /\ q <= RoundedUp(q, size) /\ RoundedUp(q, size) < q + size
<1> DEFINE x == q + size - 1
           k == x \div size
<1>1. x \in Nat /\ x = q + size - 1
      OBVIOUS
<1>2. k \in Nat /\ size * k <= x /\ x < size * k + size
  <2> HIDE DEF x
  <2> QED BY <1>1
<1>3. RoundedUp(q, size) = k * size
      BY DEF RoundedUp
<1> HIDE DEF k, x
<1>4. k * size = size * k /\ size * k \in Nat
      BY <1>2
<1> DEFINE m == size * k
<1>5. m \in Nat /\ m <= x /\ x < m + size /\ RoundedUp(q, size) = m
      BY <1>2, <1>3, <1>4
<1> HIDE DEF m
<1> QED BY <1>1, <1>5

\* What waits of a purchase.
LEMMA WaitsIs ==
  ASSUME TypeOK, NEW p \in Purchase
  PROVE  /\ Waiting(p) \subseteq Ingredient
         /\ purchases[p] # NoPurchase => /\ purchases[p].day \in Day
                                         /\ \A i \in DOMAIN purchases[p].items : purchases[p].items[i] \in Item
         /\ \A i \in Waiting(p) : purchases[p].items[i].qty \in Nat
         /\ \A d \in Day, i \in Ingredient : WaitsFor(p, d, i) \in Nat
<1>1. purchases[p] # NoPurchase =>
        /\ DOMAIN purchases[p].items \subseteq Ingredient
        /\ purchases[p].day \in Day
        /\ \A i \in DOMAIN purchases[p].items : purchases[p].items[i] \in Item
      BY DEF TypeOK, IsPurchase
<1>2. \A i \in Waiting(p) : purchases[p] # NoPurchase /\ i \in DOMAIN purchases[p].items
      BY DEF Waiting
<1>3. \A i \in Waiting(p) : purchases[p].items[i].qty \in Nat
      BY <1>1, <1>2 DEF Item
<1>4. \A d \in Day, i \in Ingredient : WaitsFor(p, d, i) \in Nat
      BY <1>3 DEF WaitsFor
<1> QED BY <1>1, <1>2, <1>3, <1>4

WaitsOf(d, i) == [p \in Purchase |-> WaitsFor(p, d, i)]

LEMMA OnOrderIs ==
  ASSUME TypeOK, NEW d \in Day, NEW i \in Ingredient
  PROVE  /\ Adds(WaitsOf(d, i), Purchase)
         /\ OnOrder(d, i) = SumFunctionOnSet(WaitsOf(d, i), Purchase)
         /\ OnOrder(d, i) \in Nat
<1>1. \A p \in Purchase : WaitsOf(d, i)[p] \in Nat
      BY WaitsIs DEF WaitsOf
<1>2. OnOrder(d, i) = SumFunctionOnSet(WaitsOf(d, i), Purchase)
      BY DEF OnOrder, WaitsOf
<1> HIDE DEF WaitsOf
<1>3. Adds(WaitsOf(d, i), Purchase)
      BY <1>1, KitchenAssumption DEF Adds
<1>4. SumFunctionOnSet(WaitsOf(d, i), Purchase) \in Nat
      BY <1>1, KitchenAssumption, SumPositive
<1> QED BY <1>2, <1>3, <1>4

Orders ==
  \A d \in Day, i \in Ingredient :
    /\ Adds(WaitsOf(d, i), Purchase)
    /\ OnOrder(d, i) = SumFunctionOnSet(WaitsOf(d, i), Purchase)
    /\ OnOrder(d, i) \in Nat
    /\ \A p \in Purchase : WaitsFor(p, d, i) \in Nat

LEMMA OrdersNow == TypeOK => Orders
BY OnOrderIs, WaitsIs DEF Orders

LEMMA OrdersThen == TypeOK' => Orders'
BY OrdersNow, PTL

LEMMA OrdersNext ==
  ASSUME TypeOK', NEW d \in Day, NEW i \in Ingredient
  PROVE  /\ Adds(WaitsOf(d, i), Purchase)'
         /\ (OnOrder(d, i) = SumFunctionOnSet(WaitsOf(d, i), Purchase))'
         /\ (OnOrder(d, i) \in Nat)'
         /\ \A p \in Purchase : WaitsFor(p, d, i)' \in Nat
BY OrdersThen DEF Orders

\* When one purchase changes, what is on order changes by what waits of it.
LEMMA OnOrderMoves ==
  ASSUME TypeOK, TypeOK', NEW p \in Purchase,
         \A q \in Purchase \ {p} : purchases'[q] = purchases[q],
         NEW d \in Day, NEW i \in Ingredient
  PROVE  /\ WaitsFor(p, d, i) \in Nat /\ WaitsFor(p, d, i)' \in Nat
         /\ OnOrder(d, i) \in Nat /\ OnOrder(d, i)' \in Nat
         /\ OnOrder(d, i)' + WaitsFor(p, d, i) = OnOrder(d, i) + WaitsFor(p, d, i)'
<1> DEFINE f == WaitsOf(d, i)
           g == WaitsOf(d, i)'
           R == Purchase \ {p}
<1>1. /\ Adds(f, Purchase) /\ OnOrder(d, i) = SumFunctionOnSet(f, Purchase)
      /\ OnOrder(d, i) \in Nat
      BY OnOrderIs
<1>2. /\ Adds(g, Purchase) /\ OnOrder(d, i)' = SumFunctionOnSet(g, Purchase)
      /\ OnOrder(d, i)' \in Nat
  <2>1. /\ Adds(WaitsOf(d, i), Purchase)'
        /\ (OnOrder(d, i) = SumFunctionOnSet(WaitsOf(d, i), Purchase))'
        /\ (OnOrder(d, i) \in Nat)'
        BY OrdersNext
  <2> QED BY <2>1
<1>3. f[p] = WaitsFor(p, d, i) /\ g[p] = WaitsFor(p, d, i)'
      BY DEF WaitsOf
<1>4. f[p] \in Nat /\ g[p] \in Nat
  <2>1. WaitsFor(p, d, i) \in Nat
        BY WaitsIs
  <2>2. WaitsFor(p, d, i)' \in Nat
        BY OrdersNext
  <2> QED BY <1>3, <2>1, <2>2
<1>5. \A q \in R : f[q] = g[q]
      BY DEF WaitsOf, WaitsFor, Waiting
<1>6. p \in Purchase
      OBVIOUS
<1> HIDE DEF f, g
<1>7. /\ SumFunctionOnSet(f, Purchase) = f[p] + SumFunctionOnSet(f, R)
      /\ SumFunctionOnSet(g, Purchase) = g[p] + SumFunctionOnSet(g, R)
      BY <1>1, <1>2, <1>6, SumTake
<1>8. Adds(f, R) /\ SumFunctionOnSet(g, R) = SumFunctionOnSet(f, R)
  <2>1. Adds(f, R)
    <3>1. IsFiniteSet(R)
          BY KitchenAssumption, FS_RemoveElement
    <3> QED BY <1>1, <3>1 DEF Adds
  <2> HIDE DEF R
  <2>2. SumFunctionOnSet(g, R) = SumFunctionOnSet(f, R)
        BY <1>5, <2>1, SumSame
  <2> QED BY <2>1, <2>2
<1>9. SumFunctionOnSet(f, R) \in Int
      BY <1>8, SumType
<1> QED BY <1>1, <1>2, <1>3, <1>4, <1>7, <1>8, <1>9

-----------------------------------------------------------------------------
\* Runners.

\* Nobody computes a batch that another one computes.
OneHolder ==
  \A q, r \in Runner : q # r /\ run[r].at \in {"stock", "claims", "save"} => ~Computing(q, DayOf(r))

LEMMA RunIs ==
  ASSUME Typed, NEW r \in Runner, run[r] # Idle
  PROVE  /\ Busy(r) /\ run[r] \in Doing(run[r].task)
         /\ run[r].at \in Stage /\ run[r].todo \subseteq Day
         /\ run[r].need \in [Ingredient -> Nat] /\ run[r].has \in [Ingredient -> Int]
         /\ run[r].again \in BOOLEAN /\ run[r].refused \in BOOLEAN
         /\ TaskOK(run[r].task) /\ TakesIn(run[r].task)
<1>1. run[r] \in Doing(run[r].task) /\ TaskOK(run[r].task) /\ TakesIn(run[r].task)
      BY DEF Typed, RunOK
<1> DEFINE x == run[r]
           t == run[r].task
<1>2. x \in Doing(t)
      BY <1>1
<1> HIDE DEF x, t
<1>3. /\ x.at \in Stage /\ x.todo \subseteq Day
      /\ x.need \in [Ingredient -> Nat] /\ x.has \in [Ingredient -> Int]
      /\ x.again \in BOOLEAN /\ x.refused \in BOOLEAN
      BY <1>2 DEF Doing
<1> QED BY <1>1, <1>3 DEF Busy, Stage, x

LEMMA IdleIs == Idle.at = "idle" /\ \A r : run[r] = Idle => ~Busy(r)
BY DEF Idle, Busy

\* At a stage there is a day that is computed.
LEMMA AtWork ==
  ASSUME Typed, NEW r \in Runner, run[r].at \in Stage, run[r].at # "next" \/ run[r].todo # {}
  PROVE  /\ run[r] # Idle /\ run[r].todo # {}
         /\ DayOf(r) \in run[r].todo /\ DayOf(r) \in Day
<1>1. run[r] # Idle
      BY IdleIs DEF Stage, Busy
<1>2. run[r].todo # {} /\ run[r].todo \subseteq Day
      BY <1>1, RunIs DEF Typed, RunOK
<1> QED BY <1>1, <1>2, FirstDay DEF DayOf

\* Nothing happens to lists and purchases in a step that leaves them alone.
LEMMA ListsStay ==
  ASSUME IInv, lines' = lines, purchases' = purchases
  PROVE  /\ OnOrderIsSum'
         /\ \A d \in Day, i \in Ingredient : ListOK(d, i)'
<1>1. ASSUME NEW d \in Day, NEW i \in Ingredient
      PROVE  OnOrder(d, i)' = OnOrder(d, i) /\ Line(d, i)' = Line(d, i)
      BY DEF OnOrder, WaitsFor, Waiting, Line
<1>2. OnOrderIsSum'
      BY <1>1 DEF IInv, OnOrderIsSum
<1>3. \A d \in Day, i \in Ingredient : ListOK(d, i)'
      BY DEF IInv, ListOK
<1> QED BY <1>2, <1>3

\* The others stay as they are while runner r does something that fits.
LEMMA OthersStay ==
  ASSUME IInv, NEW r \in Runner, DOMAIN run' = Runner,
         \A q \in Runner \ {r} : run'[q] = run[q],
         purchases' = purchases,
         RunOK(r)', PurchaseOK(r)', \A q \in Runner \ {r} : Apart(q, r)'
  PROVE  /\ \A q \in Runner : RunOK(q)'
         /\ \A q \in Runner : PurchaseOK(q)'
         /\ \A q, s \in Runner : q # s => Apart(q, s)'
<1>1. ASSUME NEW q \in Runner \ {r}
      PROVE  RunOK(q)' /\ PurchaseOK(q)'
  <2>1. RunOK(q) /\ PurchaseOK(q) /\ run'[q] = run[q]
        BY DEF IInv, Typed
  <2>2. RunOK(q)'
        BY <2>1 DEF RunOK, Buys, Settles, Busy
  <2>3. PurchaseOK(q)'
        BY <2>1 DEF PurchaseOK, Buys, Settles, Busy, Waiting
  <2> QED BY <2>2, <2>3
<1>2. ASSUME NEW q \in Runner, NEW s \in Runner, q # s
      PROVE  Apart(q, s)'
  <2>1. CASE s = r
        BY <1>2, <2>1
  <2>2. CASE q = r
    <3>1. Apart(s, r)'
          BY <1>2, <2>2
    <3> QED BY <2>2, <3>1 DEF Apart, Buys, Settles, Busy
  <2>3. CASE q # r /\ s # r
        BY <1>2, <2>3 DEF IInv, Apart, Buys, Settles, Busy
  <2> QED BY <2>1, <2>2, <2>3
<1> QED BY <1>1, <1>2

\* A runner that goes on with its task, or is done with it.
LEMMA GoesOn ==
  ASSUME IInv, NEW r \in Runner, NEW x, run' = [run EXCEPT ![r] = x],
         purchases' = purchases,
         x # Idle =>
           /\ run[r] # Idle /\ x \in Doing(run[r].task) /\ x.todo \subseteq run[r].todo
           /\ x.at # "next" => x.todo # {}
           /\ x.at = "mark" => ~(Buys(r) \/ Settles(r))
  PROVE  /\ DOMAIN run' = Runner
         /\ \A q \in Runner : RunOK(q)'
         /\ \A q \in Runner : PurchaseOK(q)'
         /\ \A q, s \in Runner : q # s => Apart(q, s)'
<1>1. DOMAIN run' = Runner /\ run'[r] = x /\ \A q \in Runner \ {r} : run'[q] = run[q]
      BY DEF IInv, Typed
<1>2. CASE x = Idle
  <2>1. ~Busy(r)' /\ ~(x.at \in Stage \ {"next"}) /\ run'[r] = Idle
        BY <1>1, <1>2, IdleIs DEF Busy, Stage
  <2>2. RunOK(r)'
        BY <1>1, <2>1 DEF RunOK, Buys, Settles
  <2>3. PurchaseOK(r)'
        BY <2>1 DEF PurchaseOK, Buys, Settles
  <2>4. \A q \in Runner \ {r} : Apart(q, r)'
        BY <2>1 DEF Apart, Buys, Settles
  <2> QED BY <1>1, <2>2, <2>3, <2>4, OthersStay
<1>3. CASE x # Idle
  <2> DEFINE t == run[r].task
  <2>1. /\ Busy(r) /\ run[r].todo \subseteq Day /\ TaskOK(t) /\ TakesIn(t)
        BY <1>3, RunIs DEF IInv
  <2>2. x.task = t /\ x.at \in Stage /\ x \in Doing(t)
    <3>1. x \in Doing(t)
          BY <1>3
    <3> HIDE DEF t
    <3> QED BY <3>1 DEF Doing
  <2>3. /\ Busy(r)' /\ run'[r].task = t /\ run'[r].todo = x.todo
        /\ Buys(r)' = Buys(r) /\ Settles(r)' = Settles(r)
        BY <1>1, <2>1, <2>2 DEF Busy, Buys, Settles, Stage
  <2>4. RunOK(r) /\ PurchaseOK(r)
        BY DEF IInv, Typed
  <2>5. RunOK(r)'
    <3>1. Buys(r) \/ Settles(r) => x.at # "mark" /\ \E d \in Day : x.todo \subseteq {d}
          BY <1>3, <2>4 DEF RunOK
    <3> QED BY <1>1, <1>3, <2>1, <2>2, <2>3, <3>1 DEF RunOK
  <2>6. PurchaseOK(r)'
    <3>1. ASSUME Settles(r), x.todo # {} PROVE x.todo = run[r].todo /\ run[r].todo # {}
          BY <1>3, <3>1, <2>4 DEF PurchaseOK
    <3>2. Buys(r) /\ x.todo # {} => run[r].todo # {}
          BY <1>3
    <3> QED BY <1>1, <2>3, <2>4, <3>1, <3>2 DEF PurchaseOK, Waiting
  <2>7. \A q \in Runner \ {r} : Apart(q, r)'
        BY <1>1, <2>3 DEF IInv, Apart, Buys, Settles, Busy
  <2> QED BY <1>1, <2>5, <2>6, <2>7, OthersStay
<1> QED BY <1>2, <1>3

\* A runner that starts a task, which no purchase stands against.
LEMMA StartsWell ==
  ASSUME IInv, NEW r \in Runner, NEW t, NEW days \in SUBSET Day, run[r] = Idle,
         run' = [run EXCEPT ![r] = Starts(t, days)], purchases' = purchases,
         TaskOK(t), TakesIn(t),
         t.kind \in {"buy", "receive", "cancel"} => \E d \in Day : days = {d},
         t.kind = "buy" => /\ purchases[t.purchase] = NoPurchase
                           /\ \A q \in Runner : Buys(q) => run[q].task.purchase # t.purchase,
         t.kind \in {"receive", "cancel"} =>
                           /\ days = {purchases[t.purchase].day}
                           /\ \A q \in Runner : Settles(q) => run[q].task.purchase # t.purchase,
         t.kind = "receive" => DOMAIN t.got \subseteq Waiting(t.purchase)
  PROVE  /\ DOMAIN run' = Runner
         /\ \A q \in Runner : RunOK(q)'
         /\ \A q \in Runner : PurchaseOK(q)'
         /\ \A q, s \in Runner : q # s => Apart(q, s)'
         /\ OneHolder'
<1> DEFINE x == Starts(t, days)
<1>1. DOMAIN run' = Runner /\ run'[r] = x /\ \A q \in Runner \ {r} : run'[q] = run[q]
      BY DEF IInv, Typed
<1>2. /\ x.at = "next" /\ x.task = t /\ x.todo = days /\ x # Idle
      BY DEF Starts, Idle
<1>3. x \in Doing(t)
  <2>1. Nothing \in [Ingredient -> Nat] /\ Nothing \in [Ingredient -> Int]
        BY DEF Nothing
  <2> QED BY <2>1 DEF Starts, Doing, Stage
<1> HIDE DEF x
<1>4. Busy(r)' /\ Buys(r)' = (t.kind = "buy") /\ Settles(r)' = (t.kind \in {"receive", "cancel"})
      BY <1>1, <1>2 DEF Busy, Buys, Settles
<1>5. RunOK(r)'
      BY <1>1, <1>2, <1>3, <1>4 DEF RunOK
<1>6. PurchaseOK(r)'
  <2>1. \A p : Waiting(p)' = Waiting(p)
        BY DEF Waiting
  <2>2. run'[r].task = t /\ run'[r].todo = days
        BY <1>1, <1>2
  <2>3. ASSUME Buys(r)' PROVE purchases'[t.purchase] = NoPurchase
        BY <1>4, <2>3
  <2>4. ASSUME Settles(r)'
        PROVE  /\ days = {purchases'[t.purchase].day}
               /\ t.kind = "receive" => DOMAIN t.got \subseteq Waiting(t.purchase)'
        BY <1>4, <2>1, <2>4
  <2> QED BY <2>1, <2>2, <2>3, <2>4 DEF PurchaseOK
<1>7. \A q \in Runner \ {r} : Apart(q, r)'
      BY <1>1, <1>2, <1>4 DEF Apart, Buys, Settles, Busy
<1>8. OneHolder'
  <2>1. OneHolder
        BY DEF IInv, Typed, TypeOK, OneHolder
  <2>2. run'[r].at = "next"
        BY <1>1, <1>2
  <2> QED BY <1>1, <2>1, <2>2 DEF OneHolder, Computing, DayOf
<1> QED BY <1>1, <1>5, <1>6, <1>7, <1>8, OthersStay

\* The lock of a batch passes on only when it is free.
LEMMA LocksKept ==
  ASSUME IInv, NEW r \in Runner, \A q \in Runner \ {r} : run'[q] = run[q],
         run'[r].at \in {"stock", "claims", "save"} =>
           /\ run'[r].todo = run[r].todo
           /\ run[r].at \in {"stock", "claims", "save"} \/ LockFree(DayOf(r))
  PROVE  OneHolder'
<1>1. OneHolder
      BY DEF IInv, Typed, TypeOK, OneHolder
<1>2. SUFFICES ASSUME NEW q \in Runner, NEW s \in Runner, q # s,
                      run'[s].at \in {"stock", "claims", "save"}, Computing(q, DayOf(s))'
               PROVE  FALSE
      BY DEF OneHolder
<1>3. CASE q # r /\ s # r
      BY <1>1, <1>2, <1>3 DEF OneHolder, Computing, DayOf
<1>4. CASE s = r
  <2>1. DayOf(r)' = DayOf(r) /\ Computing(q, DayOf(r))
        BY <1>2, <1>4 DEF Computing, DayOf
  <2> QED BY <1>1, <1>2, <1>4, <2>1 DEF OneHolder, LockFree
<1>5. CASE q = r
  <2>1. DayOf(r)' = DayOf(r) /\ DayOf(s)' = DayOf(s) /\ DayOf(s) = DayOf(r)
        BY <1>2, <1>5 DEF Computing, DayOf
  <2>2. run[s].at \in {"stock", "claims", "save"} /\ Computing(s, DayOf(r))
        BY <1>2, <1>5, <2>1 DEF Computing
  <2>3. ~LockFree(DayOf(r))
        BY <2>2 DEF LockFree
  <2>4. Computing(r, DayOf(s))
        BY <1>2, <1>5, <2>1, <2>3 DEF Computing
  <2> QED BY <1>1, <1>2, <1>5, <2>2, <2>4 DEF OneHolder
<1> QED BY <1>3, <1>4, <1>5

-----------------------------------------------------------------------------
\* Steps that leave lists and purchases alone.

Shapes ==
  /\ today \in Day
  /\ needs \in [Day -> [Ingredient -> Qty]] /\ broken \in [Day -> BOOLEAN]
  /\ stock \in [Ingredient -> Nat]
  /\ batch \in [Day -> Status] /\ failed \in [Day -> BOOLEAN]
  /\ jobs \in [Job -> Nat]

ListShapes ==
  /\ lines \in [Day -> [Ingredient -> LineType \cup {NoLine}]]
  /\ DOMAIN purchases = Purchase
  /\ \A p \in Purchase : purchases[p] # NoPurchase => IsPurchase(purchases[p])

RunsOK ==
  /\ DOMAIN run = Runner
  /\ \A q \in Runner : RunOK(q) /\ PurchaseOK(q)
  /\ \A q, s \in Runner : q # s => Apart(q, s)
  /\ OneHolder

ListsOK == OnOrderIsSum /\ \A d \in Day, i \in Ingredient : ListOK(d, i)

LEMMA Parts == IInv <=> Shapes /\ ListShapes /\ RunsOK /\ ListsOK
BY DEF IInv, Typed, TypeOK, Shapes, ListShapes, RunsOK, ListsOK, OneHolder

LEMMA PartsNext == IInv' <=> Shapes' /\ ListShapes' /\ RunsOK' /\ ListsOK'
BY Parts, PTL

LEMMA ListsQuiet ==
  ASSUME IInv, lines' = lines, purchases' = purchases
  PROVE  ListShapes' /\ ListsOK'
<1>1. ListShapes'
      BY Parts DEF ListShapes, IsPurchase
<1> QED BY <1>1, ListsStay DEF ListsOK

LEMMA RunsQuiet ==
  ASSUME IInv, run' = run, purchases' = purchases
  PROVE  RunsOK'
BY Parts DEF RunsOK, RunOK, PurchaseOK, Apart, OneHolder, Computing, DayOf, Buys, Settles, Busy, Waiting

LEMMA OneMoreJob ==
  ASSUME Shapes, NEW j \in Job
  PROVE  Enqueued(j) \in [Job -> Nat]
BY DEF Shapes, Enqueued

LEMMA WorldKeeps ==
  ASSUME IInv, World
  PROVE  IInv'
<1> USE Parts, PartsNext DEF vars, shop
<1>1. ASSUME NEW d \in Day, NEW i \in Ingredient, NEW q \in Qty, OrdersChange(d, i, q)
      PROVE  IInv'
  <2>1. lines' = lines /\ purchases' = purchases /\ run' = run
        BY <1>1 DEF OrdersChange
  <2>2. From(d) \in Job
        BY DEF Job
  <2>3. Shapes'
    <3>1. jobs' \in [Job -> Nat]
          BY <1>1, <2>2, OneMoreJob DEF OrdersChange
    <3>2. needs' \in [Day -> [Ingredient -> Qty]]
          BY <1>1 DEF OrdersChange, Shapes
    <3> QED BY <1>1, <3>1, <3>2 DEF OrdersChange, Shapes
  <2> QED BY <2>1, <2>3, ListsQuiet, RunsQuiet
<1>2. ASSUME NEW d \in Day, RecipeChanges(d)
      PROVE  IInv'
  <2>1. lines' = lines /\ purchases' = purchases /\ run' = run
        BY <1>2 DEF RecipeChanges
  <2>2. Shapes'
    <3>1. jobs' \in [Job -> Nat]
          BY <1>2, OneMoreJob DEF RecipeChanges, Job
    <3> QED BY <1>2, <3>1 DEF RecipeChanges, Shapes
  <2> QED BY <2>1, <2>2, ListsQuiet, RunsQuiet
<1>3. ASSUME NEW i \in Ingredient, NEW q \in Qty, StockChanges(i, q)
      PROVE  IInv'
  <2>1. lines' = lines /\ purchases' = purchases /\ run' = run
        BY <1>3 DEF StockChanges
  <2>2. Shapes'
    <3>1. jobs' \in [Job -> Nat]
          BY <1>3, OneMoreJob DEF StockChanges, Job
    <3>2. q \in Nat
          BY KitchenAssumption DEF Qty
    <3> QED BY <1>3, <3>1, <3>2 DEF StockChanges, Shapes
  <2> QED BY <2>1, <2>2, ListsQuiet, RunsQuiet
<1>4. ASSUME NextDay
      PROVE  IInv'
  <2>1. lines' = lines /\ purchases' = purchases /\ run' = run
        BY <1>4 DEF NextDay
  <2>2. Shapes'
    <3> DEFINE Later == {d \in Day : d > today}
    <3>1. Max(Day) \in Later
          BY <1>4, LastDay DEF NextDay
    <3>2. today' \in Later
          BY <1>4, <3>1, FirstDay DEF NextDay
    <3> QED BY <1>4, <3>2 DEF NextDay, Shapes
  <2> QED BY <2>1, <2>2, ListsQuiet, RunsQuiet
<1> QED BY <1>1, <1>2, <1>3, <1>4 DEF World

\* What is left after something is taken.
LEMMA TakenAway ==
  ASSUME NEW a \in Nat, NEW b \in Nat
  PROVE  Max({a - b, 0}) \in Nat
<1> DEFINE c == a - b
<1>1. c \in Int
      OBVIOUS
<1> HIDE DEF c
<1>2. Max({c, 0}) \in Nat
      BY <1>1, MaxOfTwo
<1> QED BY <1>2 DEF c

LEMMA StatusKeeps ==
  ASSUME IInv, NEW d \in Day, LockDue(d) \/ MarkInProduction(d) \/ Complete(d)
  PROVE  IInv'
<1> USE Parts, PartsNext
<1>1. lines' = lines /\ purchases' = purchases /\ run' = run
      BY DEF LockDue, MarkInProduction, Complete
<1>2. ASSUME NEW s \in Status, NEW from, Becomes(d, from, s)
      PROVE  batch' \in [Day -> Status]
      BY <1>2 DEF Becomes, Shapes
<1>3. Shapes'
  <2>1. CASE LockDue(d) \/ MarkInProduction(d)
    <3>1. batch' \in [Day -> Status]
          BY <1>2, <2>1 DEF LockDue, MarkInProduction, Status
    <3> QED BY <2>1, <3>1 DEF LockDue, MarkInProduction, Shapes
  <2>2. CASE Complete(d)
    <3>1. batch' \in [Day -> Status]
          BY <1>2, <2>2 DEF Complete, Status
    <3>2. jobs' \in [Job -> Nat]
          BY <2>2, OneMoreJob DEF Complete, Job, Shapes
    <3>3. ASSUME NEW i \in Ingredient PROVE Max({stock[i] - Line(d, i).needed, 0}) \in Nat
      <4>1. stock[i] \in Nat /\ Line(d, i).needed \in Nat
            BY LineIs DEF IInv, Typed, Shapes
      <4> QED BY <4>1, TakenAway
    <3>4. stock' \in [Ingredient -> Nat]
          BY <2>2, <3>3 DEF Complete
    <3> QED BY <2>2, <3>1, <3>2, <3>4 DEF Complete, Shapes
  <2> QED BY <2>1, <2>2
<1> QED BY <1>1, <1>3, ListsQuiet, RunsQuiet

LEMMA StutterKeeps ==
  ASSUME IInv, UNCHANGED vars
  PROVE  IInv'
<1>1. lines' = lines /\ purchases' = purchases /\ run' = run
      BY DEF vars, shop
<1>2. Shapes'
      BY Parts DEF vars, shop, Shapes
<1> QED BY <1>1, <1>2, ListsQuiet, RunsQuiet, PartsNext

\* Jobs, and what staff ask for.
LEMMA StartKeeps ==
  ASSUME IInv, NEW r \in Runner, NEW j \in Job, StartJob(r, j)
  PROVE  IInv'
<1> USE Parts, PartsNext
<1> DEFINE days == IF j = Upcoming THEN UpcomingDates(today) ELSE {j.day} \cup UpcomingDates(j.day)
<1>1. days \in SUBSET Day
      BY DEF Job, From, UpcomingDates
<1>2. lines' = lines /\ purchases' = purchases
      BY DEF StartJob, shop
<1>3. j.kind \notin {"buy", "receive", "cancel"} /\ TaskOK(j) /\ TakesIn(j)
      BY DEF Job, From, Upcoming, TaskOK, TakesIn
<1>4. run[r] = Idle /\ run' = [run EXCEPT ![r] = Starts(j, days)]
      BY DEF StartJob
<1>5. RunsOK'
  <2> HIDE DEF days
  <2> QED BY <1>1, <1>2, <1>3, <1>4, StartsWell DEF RunsOK
<1>6. Shapes'
  <2>1. jobs' \in [Job -> Nat]
        BY DEF StartJob, Shapes
  <2> QED BY <2>1 DEF StartJob, shop, Shapes
<1> QED BY <1>2, <1>5, <1>6, ListsQuiet

LEMMA RequestKeeps ==
  ASSUME IInv, NEW r \in Runner, Staff(r)
  PROVE  IInv'
<1> USE Parts, PartsNext
<1>1. ASSUME NEW t, NEW d \in Day, Request(r, t, d),
             TaskOK(t), TakesIn(t),
             t.kind = "buy" => /\ purchases[t.purchase] = NoPurchase
                               /\ \A q \in Runner : Buys(q) => run[q].task.purchase # t.purchase,
             t.kind \in {"receive", "cancel"} =>
                               /\ d = purchases[t.purchase].day
                               /\ \A q \in Runner : Settles(q) => run[q].task.purchase # t.purchase,
             t.kind = "receive" => DOMAIN t.got \subseteq Waiting(t.purchase)
      PROVE  IInv'
  <2> DEFINE days == {d}
  <2>1. /\ days \in SUBSET Day /\ run[r] = Idle /\ run' = [run EXCEPT ![r] = Starts(t, days)]
        /\ lines' = lines /\ purchases' = purchases
        BY <1>1 DEF Request, shop
  <2>2. /\ \E e \in Day : days = {e}
        /\ t.kind \in {"receive", "cancel"} => days = {purchases[t.purchase].day}
        BY <1>1
  <2>3. RunsOK'
    <3> HIDE DEF days
    <3> QED BY <1>1, <2>1, <2>2, StartsWell DEF RunsOK
  <2>4. Shapes'
        BY <1>1 DEF Request, shop, Shapes
  <2> QED BY <2>1, <2>3, <2>4, ListsQuiet
<1>2. ASSUME NEW d \in Day, Recompute(r, d)
      PROVE  IInv'
  <2> DEFINE t == [kind |-> "recompute"]
  <2>1. TaskOK(t) /\ TakesIn(t) /\ t.kind \notin {"buy", "receive", "cancel"} /\ Request(r, t, d)
        BY <1>2 DEF Recompute, TaskOK, TakesIn
  <2> HIDE DEF t
  <2> QED BY <1>1, <2>1
<1>3. ASSUME NEW d \in Day, NEW i \in Ingredient, NEW p \in Purchase, Create(r, d, Supplier[i], p)
      PROVE  IInv'
  <2> DEFINE t == [kind |-> "buy", supplier |-> Supplier[i], purchase |-> p]
  <2>1. t.kind = "buy" /\ t.purchase = p /\ TaskOK(t) /\ TakesIn(t) /\ Request(r, t, d)
        BY <1>3 DEF Create, TaskOK, TakesIn
  <2> HIDE DEF t
  <2>2. \A q \in Runner : Buys(q) => run[q].task.purchase # p
        BY <1>3 DEF Create, Buys, Busy
  <2>3. purchases[p] = NoPurchase
        BY <1>3 DEF Create
  <2> QED BY <1>1, <2>1, <2>2, <2>3
<1>4. ASSUME NEW p \in Purchase, NEW t, t.purchase = p, t.kind \in {"receive", "cancel"},
             ~Held(p), Waiting(p) # {}
      PROVE  /\ purchases[p].day \in Day
             /\ \A q \in Runner : Settles(q) => run[q].task.purchase # t.purchase
  <2>1. purchases[p] # NoPurchase
        BY <1>4 DEF Waiting
  <2>2. purchases[p].day \in Day
        BY <2>1, WaitsIs DEF IInv, Typed
  <2> QED BY <1>4, <2>2 DEF Held, Settles, Busy
<1>5. ASSUME NEW p \in Purchase, NEW I \in SUBSET Waiting(p), NEW got \in [I -> Qty], Receive(r, p, got)
      PROVE  IInv'
  <2> DEFINE t == [kind |-> "receive", purchase |-> p, got |-> got]
  <2>1. /\ t.kind = "receive" /\ t.purchase = p /\ t.got = got /\ TaskOK(t)
        /\ Request(r, t, purchases[p].day)
        BY <1>5 DEF Receive, TaskOK
  <2> HIDE DEF t
  <2>2. ~Held(p) /\ Waiting(p) # {} /\ DOMAIN got = I
        BY <1>5 DEF Receive
  <2>3. TakesIn(t)
    <3>1. Waiting(p) \subseteq Ingredient /\ Qty \subseteq Nat
          BY WaitsIs, KitchenAssumption DEF IInv, Typed, Qty
    <3> QED BY <2>1, <3>1 DEF TakesIn
  <2>4. purchases[p].day \in Day /\ \A q \in Runner : Settles(q) => run[q].task.purchase # t.purchase
        BY <1>4, <2>1, <2>2
  <2> QED BY <1>1, <2>1, <2>2, <2>3, <2>4
<1>6. ASSUME NEW p \in Purchase, Cancel(r, p)
      PROVE  IInv'
  <2> DEFINE t == [kind |-> "cancel", purchase |-> p]
  <2>1. /\ t.kind = "cancel" /\ t.purchase = p /\ TaskOK(t) /\ TakesIn(t)
        /\ Request(r, t, purchases[p].day)
        BY <1>6 DEF Cancel, TaskOK, TakesIn
  <2> HIDE DEF t
  <2>2. ~Held(p) /\ Waiting(p) # {}
        BY <1>6 DEF Cancel, Open
  <2>3. purchases[p].day \in Day /\ \A q \in Runner : Settles(q) => run[q].task.purchase # t.purchase
        BY <1>4, <2>1, <2>2
  <2> QED BY <1>1, <2>1, <2>2, <2>3
<1> QED BY <1>2, <1>3, <1>5, <1>6 DEF Staff

\* A runner that goes on with what it had in hand, but for what changes.
LEMMA WorkKeeps ==
  ASSUME IInv, NEW r \in Runner, run[r] # Idle, NEW x, run' = [run EXCEPT ![r] = x],
         lines' = lines, purchases' = purchases, Shapes',
         \/ x = Idle
         \/ /\ x \in Doing(run[r].task) /\ x.todo \subseteq run[r].todo
            /\ x.at # "next" => x.todo # {}
            /\ x.at = "mark" => ~(Buys(r) \/ Settles(r))
            /\ x.at \in {"stock", "claims", "save"} =>
                 /\ x.todo = run[r].todo
                 /\ run[r].at \in {"stock", "claims", "save"} \/ LockFree(DayOf(r))
  PROVE  IInv'
<1>1. run'[r] = x /\ \A q \in Runner \ {r} : run'[q] = run[q]
      BY DEF IInv, Typed
<1>2. OneHolder'
  <2>1. x = Idle => x.at \notin {"stock", "claims", "save"}
        BY IdleIs
  <2> QED BY <1>1, <2>1, LocksKept
<1>3. RunsOK'
      BY <1>2, GoesOn DEF RunsOK
<1> QED BY <1>3, ListsQuiet, PartsNext

\* What a task brings, and what the batches before a day count on.
LEMMA ArrivedIs ==
  ASSUME IInv, NEW r \in Runner, NEW i \in Ingredient
  PROVE  Arrived(r, i) \in Nat
<1>1. CASE run[r] # Idle /\ run[r].task.kind = "receive" /\ i \in DOMAIN run[r].task.got
  <2>1. TakesIn(run[r].task)
        BY <1>1, RunIs DEF IInv
  <2> QED BY <1>1, <2>1 DEF Arrived, TakesIn
<1>2. CASE ~(run[r] # Idle /\ run[r].task.kind = "receive" /\ i \in DOMAIN run[r].task.got)
      BY <1>2 DEF Arrived
<1> QED BY <1>1, <1>2

LEMMA ClaimsAre ==
  ASSUME TypeOK, NEW d \in Day, NEW i \in Ingredient
  PROVE  ClaimedBefore(d, i) \in Nat
<1> DEFINE f == [e \in Day |-> Line(e, i).usable]
           S == {e \in Day : e < d /\ batch[e] # "done"}
<1>1. IsFiniteSet(S)
      BY KitchenAssumption, FS_Subset
<1>2. \A e \in S : f[e] \in Nat
      BY LineIs
<1>3. ClaimedBefore(d, i) = SumFunctionOnSet(f, S)
      BY DEF ClaimedBefore
<1> HIDE DEF f, S
<1> QED BY <1>1, <1>2, <1>3, SumPositive

LEMMA LockBatchKeeps ==
  ASSUME IInv, NEW r \in Runner, LockBatch(r)
  PROVE  IInv'
<1> DEFINE y == run[r]
           t == run[r].task
           n == needs[DayOf(r)]
           z == [y EXCEPT !.at = "stock", !.need = n]
           x == IF Refused(r) THEN Idle ELSE z
<1>1. /\ run[r].at = "next" /\ run[r].todo # {} /\ LockFree(DayOf(r))
      /\ run' = [run EXCEPT ![r] = x]
      /\ lines' = lines /\ purchases' = purchases
      BY DEF LockBatch, shop
<1>2. run[r] # Idle /\ DayOf(r) \in Day
      BY <1>1, AtWork DEF IInv, Stage
<1>3. Shapes'
      BY Parts DEF LockBatch, shop, Shapes
<1>4. n \in [Ingredient -> Nat]
  <2>1. Qty \subseteq Nat
        BY KitchenAssumption DEF Qty
  <2>2. \A d \in Day : needs[d] \in [Ingredient -> Qty]
        BY Parts DEF Shapes
  <2> QED BY <1>2, <2>1, <2>2
<1>5. z \in Doing(t) /\ z.at = "stock" /\ z.todo = y.todo
  <2> DEFINE N == [Ingredient -> Nat]
             Z == [Ingredient -> Int]
             D == SUBSET Day
  <2>1. y \in Doing(t) /\ "stock" \in Stage /\ n \in N
        BY <1>2, <1>4, RunIs DEF IInv, Stage
  <2>2. y \in [at : Stage, task : {t}, todo : D, need : N, has : Z, again : BOOLEAN, refused : BOOLEAN]
        BY <2>1 DEF Doing
  <2> HIDE DEF y, t, n, N, Z, D
  <2>3. /\ z \in [at : Stage, task : {t}, todo : D, need : N, has : Z, again : BOOLEAN, refused : BOOLEAN]
        /\ z.at = "stock" /\ z.todo = y.todo
        BY <2>1, <2>2
  <2> QED BY <2>3 DEF Doing, N, Z, D
<1> HIDE DEF z
<1>6. x = Idle \/ x = z
      OBVIOUS
<1> HIDE DEF x
<1> QED BY <1>1, <1>2, <1>3, <1>5, <1>6, WorkKeeps

LEMMA ReadStockKeeps ==
  ASSUME IInv, NEW r \in Runner, ReadStock(r)
  PROVE  IInv'
<1> DEFINE y == run[r]
           t == run[r].task
           h == [i \in Ingredient |-> stock[i] + Arrived(r, i)]
           x == [y EXCEPT !.at = "claims", !.has = h]
<1>1. /\ run[r].at = "stock" /\ run' = [run EXCEPT ![r] = x]
      /\ lines' = lines /\ purchases' = purchases
      BY DEF ReadStock, shop, IInv, Typed
<1>2. run[r] # Idle /\ run[r].todo # {}
      BY <1>1, AtWork DEF IInv, Stage
<1>3. Shapes'
      BY Parts DEF ReadStock, shop, Shapes
<1>4. h \in [Ingredient -> Int]
      BY ArrivedIs, Parts DEF Shapes
<1>5. x \in Doing(t) /\ x.at = "claims" /\ x.todo = y.todo
  <2> DEFINE N == [Ingredient -> Nat]
             Z == [Ingredient -> Int]
             D == SUBSET Day
  <2>1. y \in Doing(t) /\ "claims" \in Stage /\ h \in Z
        BY <1>2, <1>4, RunIs DEF IInv, Stage
  <2>2. y \in [at : Stage, task : {t}, todo : D, need : N, has : Z, again : BOOLEAN, refused : BOOLEAN]
        BY <2>1 DEF Doing
  <2> HIDE DEF y, t, h, N, Z, D
  <2>3. /\ x \in [at : Stage, task : {t}, todo : D, need : N, has : Z, again : BOOLEAN, refused : BOOLEAN]
        /\ x.at = "claims" /\ x.todo = y.todo
        BY <2>1, <2>2
  <2> QED BY <2>3 DEF Doing, N, Z, D
<1> HIDE DEF x
<1> QED BY <1>1, <1>2, <1>3, <1>5, WorkKeeps

LEMMA ReadClaimsKeeps ==
  ASSUME IInv, NEW r \in Runner, ReadClaims(r)
  PROVE  IInv'
<1> DEFINE y == run[r]
           t == run[r].task
           h == [i \in Ingredient |-> Available(r, DayOf(r), i)]
           x == [y EXCEPT !.at = "save", !.has = h]
<1>1. /\ run[r].at = "claims" /\ run' = [run EXCEPT ![r] = x]
      /\ lines' = lines /\ purchases' = purchases
      BY DEF ReadClaims, shop, IInv, Typed
<1>2. run[r] # Idle /\ run[r].todo # {} /\ DayOf(r) \in Day
      BY <1>1, AtWork DEF IInv, Stage
<1>3. Shapes'
      BY Parts DEF ReadClaims, shop, Shapes
<1>4. h \in [Ingredient -> Int]
  <2>1. ASSUME NEW i \in Ingredient PROVE Available(r, DayOf(r), i) \in Int
    <3>1. run[r].has[i] \in Int
          BY <1>2, RunIs DEF IInv
    <3>2. ClaimedBefore(DayOf(r), i) \in Nat
          BY <1>2, ClaimsAre DEF IInv, Typed
    <3> QED BY <3>1, <3>2 DEF Available
  <2> QED BY <2>1
<1>5. x \in Doing(t) /\ x.at = "save" /\ x.todo = y.todo
  <2> DEFINE N == [Ingredient -> Nat]
             Z == [Ingredient -> Int]
             D == SUBSET Day
  <2>1. y \in Doing(t) /\ "save" \in Stage /\ h \in Z
        BY <1>2, <1>4, RunIs DEF IInv, Stage
  <2>2. y \in [at : Stage, task : {t}, todo : D, need : N, has : Z, again : BOOLEAN, refused : BOOLEAN]
        BY <2>1 DEF Doing
  <2> HIDE DEF y, t, h, N, Z, D
  <2>3. /\ x \in [at : Stage, task : {t}, todo : D, need : N, has : Z, again : BOOLEAN, refused : BOOLEAN]
        /\ x.at = "save" /\ x.todo = y.todo
        BY <2>1, <2>2
  <2> QED BY <2>3 DEF Doing, N, Z, D
<1> HIDE DEF x
<1> QED BY <1>1, <1>2, <1>3, <1>5, WorkKeeps

LEMMA RecipeFailsKeeps ==
  ASSUME IInv, NEW r \in Runner, RecipeFails(r)
  PROVE  IInv'
<1> DEFINE y == run[r]
           t == run[r].task
           bought == t.kind \in {"buy", "receive", "cancel"}
           at == IF bought THEN "next" ELSE "mark"
           todo == IF bought THEN {} ELSE y.todo
           x == [y EXCEPT !.at = at, !.todo = todo, !.refused = TRUE]
<1>1. /\ run[r].at = "next" /\ run[r].todo # {}
      /\ run' = [run EXCEPT ![r] = x]
      /\ lines' = lines /\ purchases' = purchases
      BY DEF RecipeFails, shop, IInv, Typed
<1>2. run[r] # Idle
      BY <1>1, AtWork DEF IInv, Stage
<1>3. Shapes'
      BY Parts DEF RecipeFails, shop, Shapes
<1>4. at \in Stage /\ todo \in SUBSET Day
      BY <1>2, RunIs DEF IInv, Stage
<1>5. x \in Doing(t) /\ x.at = at /\ x.todo = todo
  <2> DEFINE N == [Ingredient -> Nat]
             Z == [Ingredient -> Int]
             D == SUBSET Day
  <2>1. y \in Doing(t) /\ at \in Stage /\ todo \in D
        BY <1>2, <1>4, RunIs DEF IInv
  <2>2. y \in [at : Stage, task : {t}, todo : D, need : N, has : Z, again : BOOLEAN, refused : BOOLEAN]
        BY <2>1 DEF Doing
  <2> HIDE DEF y, t, at, todo, N, Z, D
  <2>3. /\ x \in [at : Stage, task : {t}, todo : D, need : N, has : Z, again : BOOLEAN, refused : BOOLEAN]
        /\ x.at = at /\ x.todo = todo
        BY <2>1, <2>2
  <2> QED BY <2>3 DEF Doing, N, Z, D
<1>6. /\ todo \subseteq run[r].todo
      /\ at # "next" => todo # {}
      /\ at = "mark" => ~(Buys(r) \/ Settles(r))
      /\ at \notin {"stock", "claims", "save"}
      BY <1>1 DEF Buys, Settles
<1> HIDE DEF x, at, todo
<1> QED BY <1>1, <1>2, <1>3, <1>5, <1>6, WorkKeeps

LEMMA MarkFailedKeeps ==
  ASSUME IInv, NEW r \in Runner, MarkFailed(r)
  PROVE  IInv'
<1> DEFINE y == run[r]
           t == run[r].task
           todo == y.todo \ {DayOf(r)}
           x == [y EXCEPT !.at = "next", !.todo = todo]
<1>1. /\ run[r].at = "mark" /\ run' = [run EXCEPT ![r] = x]
      /\ lines' = lines /\ purchases' = purchases
      BY DEF MarkFailed, shop, IInv, Typed
<1>2. run[r] # Idle
      BY <1>1, AtWork DEF IInv, Stage
<1>3. Shapes'
  <2>1. batch' \in [Day -> Status] /\ failed' \in [Day -> BOOLEAN]
        BY Parts DEF MarkFailed, Shapes, Status
  <2> QED BY <2>1, Parts DEF MarkFailed, Shapes
<1>4. x \in Doing(t) /\ x.at = "next" /\ x.todo = todo
  <2> DEFINE N == [Ingredient -> Nat]
             Z == [Ingredient -> Int]
             D == SUBSET Day
  <2>1. y \in Doing(t) /\ "next" \in Stage /\ todo \in D
        BY <1>2, RunIs DEF IInv, Stage
  <2>2. y \in [at : Stage, task : {t}, todo : D, need : N, has : Z, again : BOOLEAN, refused : BOOLEAN]
        BY <2>1 DEF Doing
  <2> HIDE DEF y, t, todo, N, Z, D
  <2>3. /\ x \in [at : Stage, task : {t}, todo : D, need : N, has : Z, again : BOOLEAN, refused : BOOLEAN]
        /\ x.at = "next" /\ x.todo = todo
        BY <2>1, <2>2
  <2> QED BY <2>3 DEF Doing, N, Z, D
<1>5. todo \subseteq run[r].todo
      OBVIOUS
<1> HIDE DEF x, todo
<1> QED BY <1>1, <1>2, <1>3, <1>4, <1>5, WorkKeeps

LEMMA FailKeeps ==
  ASSUME IInv, NEW r \in Runner, Fail(r)
  PROVE  IInv'
<1> DEFINE y == run[r]
           t == run[r].task
<1>1. /\ run[r].at # "idle" /\ run[r].todo # {}
      /\ lines' = lines /\ purchases' = purchases
      /\ GivesUp(r, run[r].todo \ {DayOf(r)}, run[r].refused) \/ GivesUp(r, {}, FALSE)
      BY DEF Fail, shop
<1>2. run[r] # Idle
      BY <1>1, IdleIs DEF Busy
<1>3. Shapes'
      BY Parts DEF Fail, shop, Shapes
<1>4. /\ run[r].todo \subseteq Day /\ run[r].refused \in BOOLEAN
      BY <1>2, RunIs DEF IInv
<1>5. ASSUME NEW todo \in SUBSET run[r].todo, NEW refused \in BOOLEAN, GivesUp(r, todo, refused)
      PROVE  IInv'
  <2> DEFINE nothing == Nothing
             x == [y EXCEPT !.at = "next", !.todo = todo, !.again = TRUE,
                            !.refused = refused, !.need = nothing, !.has = nothing]
  <2>1. run' = [run EXCEPT ![r] = x]
        BY <1>5 DEF GivesUp, IInv, Typed
  <2>2. x \in Doing(t) /\ x.at = "next" /\ x.todo = todo
    <3> DEFINE N == [Ingredient -> Nat]
               Z == [Ingredient -> Int]
               D == SUBSET Day
    <3>1. /\ y \in Doing(t) /\ "next" \in Stage /\ todo \in D
          /\ nothing \in N /\ nothing \in Z
          BY <1>2, <1>4, RunIs DEF IInv, Stage, Nothing
    <3>2. y \in [at : Stage, task : {t}, todo : D, need : N, has : Z, again : BOOLEAN, refused : BOOLEAN]
          BY <3>1 DEF Doing
    <3> HIDE DEF y, t, nothing, N, Z, D
    <3>3. /\ x \in [at : Stage, task : {t}, todo : D, need : N, has : Z, again : BOOLEAN, refused : BOOLEAN]
          /\ x.at = "next" /\ x.todo = todo
          BY <3>1, <3>2
    <3> QED BY <3>3 DEF Doing, N, Z, D
  <2> HIDE DEF x
  <2> QED BY <1>1, <1>2, <1>3, <2>1, <2>2, WorkKeeps
<1> DEFINE rest == run[r].todo \ {DayOf(r)}
<1>6. rest \in SUBSET run[r].todo /\ {} \in SUBSET run[r].todo /\ FALSE \in BOOLEAN
      OBVIOUS
<1>7. CASE GivesUp(r, rest, run[r].refused)
  <2> HIDE DEF rest
  <2> QED BY <1>4, <1>5, <1>6, <1>7
<1>8. CASE GivesUp(r, {}, FALSE)
      BY <1>5, <1>6, <1>8
<1> QED BY <1>1, <1>7, <1>8

LEMMA FinishKeeps ==
  ASSUME IInv, NEW r \in Runner, Finish(r)
  PROVE  IInv'
<1>1. /\ run[r].at = "next" /\ run' = [run EXCEPT ![r] = Idle]
      /\ lines' = lines /\ purchases' = purchases
      BY DEF Finish, shop
<1>2. run[r] # Idle
      BY <1>1, IdleIs
<1>3. Shapes'
  <2>1. jobs' \in [Job -> Nat]
    <3>1. run[r].task \in Job => Enqueued(run[r].task) \in [Job -> Nat]
          BY Parts, OneMoreJob
    <3> QED BY <3>1, Parts DEF Finish, Shapes
  <2> QED BY <2>1, Parts DEF Finish, shop, Shapes
<1> QED BY <1>1, <1>2, <1>3, WorkKeeps

-----------------------------------------------------------------------------
\* A list is saved.

LEMMA Negative ==
  ASSUME NEW x \in Nat
  PROVE  -x \in Int /\ x + (-x) = 0 /\ ~(-x > 0)
OBVIOUS

LEMMA SaveIs ==
  ASSUME IInv, NEW r \in Runner, SaveResult(r)
  PROVE  /\ run[r] # Idle /\ Busy(r) /\ DayOf(r) \in Day /\ DayOf(r) \in run[r].todo
         /\ TaskOK(run[r].task) /\ TakesIn(run[r].task) /\ RunOK(r) /\ PurchaseOK(r)
         /\ run[r].need \in [Ingredient -> Nat] /\ run[r].has \in [Ingredient -> Int]
         /\ purchases' = Closed(r)
<1>1. run[r].at = "save" /\ purchases' = Closed(r)
      BY DEF SaveResult
<1>2. run[r] # Idle /\ DayOf(r) \in Day /\ DayOf(r) \in run[r].todo
      BY <1>1, AtWork DEF IInv, Stage
<1> QED BY <1>1, <1>2, RunIs DEF IInv, Typed

\* What a task does to purchase p: what waits of it for the day d that is saved
\* changes by what the list is told.
Moved(r, p, d) ==
  /\ DOMAIN purchases' = Purchase
  /\ \A q \in Purchase \ {p} : purchases'[q] = purchases[q]
  /\ IsPurchase(purchases'[p])
  /\ \A i \in Ingredient :
       /\ Ordered(r, i) \in Int
       /\ WaitsFor(p, d, i)' = WaitsFor(p, d, i) + Ordered(r, i)
       /\ \A e \in Day \ {d} : WaitsFor(p, e, i)' = WaitsFor(p, e, i)
       /\ Ordered(r, i) > 0 => /\ Line(d, i).toBuy > 0
                               /\ Ordered(r, i) = RoundedUp(Line(d, i).toBuy, Pack[i])

LEMMA BuySaved ==
  ASSUME IInv, NEW r \in Runner, SaveResult(r), run[r].task.kind = "buy",
         NEW p, p = run[r].task.purchase, NEW d, d = DayOf(r)
  PROVE  p \in Purchase /\ Moved(r, p, d)
<1> DEFINE s == run[r].task.supplier
           items == Items(d, s)
           J == {j \in Ingredient : Supplier[j] = s /\ Line(d, j).toBuy > 0}
           b == [day |-> d, items |-> items]
<1>1. p \in Purchase /\ d \in Day
      BY SaveIs DEF TaskOK, Job, Upcoming, From
<1>2. purchases[p] = NoPurchase
      BY SaveIs DEF PurchaseOK, Buys
<1>3. /\ DOMAIN purchases = Purchase
      /\ purchases' = [purchases EXCEPT ![p] = b]
      BY SaveIs, Parts DEF Closed, ListShapes
<1>4. ASSUME NEW i \in J
      PROVE  /\ items[i] \in Item /\ items[i].status = "ordered"
             /\ items[i].qty = RoundedUp(Line(d, i).toBuy, Pack[i]) /\ items[i].qty \in Nat
             /\ Line(d, i).toBuy > 0
  <2>1. RoundedUp(Line(d, i).toBuy, Pack[i]) \in Nat
        BY <1>1, LineIs, RoundedUpIs, KitchenAssumption DEF IInv, Typed
  <2>2. items[i] = [qty |-> RoundedUp(Line(d, i).toBuy, Pack[i]), status |-> "ordered", got |-> 0]
        BY DEF Items
  <2> QED BY <2>1, <2>2 DEF Item
<1>5. DOMAIN items = J /\ J \subseteq Ingredient /\ items \in [J -> Item]
      BY <1>4 DEF Items
<1>6. b.day = d /\ b.items = items /\ b # NoPurchase
  <2>1. b.day # -1
        BY <1>1, KitchenAssumption
  <2> QED BY <2>1 DEF NoPurchase
<1>7. IsPurchase(b)
  <2> HIDE DEF items, J
  <2> QED BY <1>1, <1>5, <1>6 DEF IsPurchase
<1>8. purchases'[p] = b /\ \A q \in Purchase \ {p} : purchases'[q] = purchases[q]
      BY <1>1, <1>3
<1>9. Waiting(p) = {} /\ Waiting(p)' = J
  <2>1. Waiting(p) = {}
        BY <1>2 DEF Waiting
  <2>2. Waiting(p)' = {i \in DOMAIN items : items[i].status = "ordered"}
        BY <1>6, <1>8 DEF Waiting
  <2> HIDE DEF items, J
  <2>3. {i \in DOMAIN items : items[i].status = "ordered"} = J
        BY <1>4, <1>5
  <2> QED BY <2>1, <2>2, <2>3
<1>10. ASSUME NEW i \in Ingredient
       PROVE  /\ Ordered(r, i) = IF i \in J THEN items[i].qty ELSE 0
              /\ Ordered(r, i) \in Int
              /\ WaitsFor(p, d, i) = 0 /\ WaitsFor(p, d, i)' = Ordered(r, i)
              /\ \A e \in Day \ {d} : WaitsFor(p, e, i)' = 0 /\ WaitsFor(p, e, i) = 0
              /\ Ordered(r, i) > 0 => /\ Line(d, i).toBuy > 0
                                      /\ Ordered(r, i) = RoundedUp(Line(d, i).toBuy, Pack[i])
  <2>1. Ordered(r, i) = IF i \in J THEN items[i].qty ELSE 0
        BY <1>5 DEF Ordered
  <2> HIDE DEF items, J, b
  <2>2. Ordered(r, i) \in Int
        BY <1>4, <2>1
  <2>3. \A e \in Day : WaitsFor(p, e, i) = 0
        BY <1>9 DEF WaitsFor
  <2>4. \A e \in Day : WaitsFor(p, e, i)' = IF i \in J /\ d = e THEN items[i].qty ELSE 0
        BY <1>6, <1>8, <1>9 DEF WaitsFor
  <2> QED BY <1>1, <1>4, <2>1, <2>2, <2>3, <2>4
<1> QED BY <1>1, <1>3, <1>7, <1>8, <1>10 DEF Moved

\* What a settled item becomes.
Settling(t, p, i) ==
  IF t.kind = "receive" /\ i \in DOMAIN t.got
  THEN [purchases[p].items[i] EXCEPT !.status = "received", !.got = t.got[i]]
  ELSE IF t.kind = "cancel" /\ i \in Waiting(p)
  THEN [purchases[p].items[i] EXCEPT !.status = "cancelled"]
  ELSE purchases[p].items[i]

LEMMA SettleSaved ==
  ASSUME IInv, NEW r \in Runner, SaveResult(r), run[r].task.kind \in {"receive", "cancel"},
         NEW p, p = run[r].task.purchase, NEW d, d = DayOf(r)
  PROVE  p \in Purchase /\ Moved(r, p, d)
<1> DEFINE t == run[r].task
           b == purchases[p]
           I == DOMAIN b.items
           g == [i \in I |-> Settling(t, p, i)]
           c == [b EXCEPT !.items = g]
           Off == IF t.kind = "receive" THEN DOMAIN t.got ELSE Waiting(p)
<1>1. p \in Purchase /\ d \in Day
      BY SaveIs DEF TaskOK, Job, Upcoming, From
<1>2. /\ b.day = d /\ b # NoPurchase /\ Off \subseteq Waiting(p)
  <2>1. PurchaseOK(r) /\ Settles(r) /\ run[r].todo # {} /\ DayOf(r) \in run[r].todo
        BY SaveIs DEF Settles
  <2>2. run[r].todo = {b.day} /\ Off \subseteq Waiting(p)
        BY <2>1 DEF PurchaseOK
  <2>3. b.day = d
        BY <2>1, <2>2
  <2>4. b # NoPurchase
        BY <1>1, <2>3, KitchenAssumption DEF NoPurchase
  <2> QED BY <2>2, <2>3, <2>4
<1>3. /\ I \subseteq Ingredient /\ b \in [day : Day, items : [I -> Item]]
      /\ DOMAIN purchases = Purchase
      BY <1>1, <1>2, Parts DEF ListShapes, IsPurchase
<1>4. purchases' = [purchases EXCEPT ![p] = c]
  <2>1. purchases' = [purchases EXCEPT ![p].items = g]
        BY SaveIs DEF Closed, Settling
  <2> QED BY <2>1
<1>5. \A i \in I : b.items[i] \in Item
      BY <1>3
<1>6. Waiting(p) = {i \in I : b.items[i].status = "ordered"}
      BY <1>2 DEF Waiting
<1>7. ASSUME NEW i \in I
      PROVE  /\ g[i] \in Item /\ g[i].qty = b.items[i].qty
             /\ i \in Off => g[i].status # "ordered"
             /\ i \notin Off => g[i] = b.items[i]
  <2> DEFINE y == b.items[i]
  <2>1. y \in Item
        BY <1>5
  <2>2. CASE i \in Off /\ t.kind = "receive"
    <3> DEFINE q == t.got[i]
    <3>1. q \in Nat
          BY <2>2, SaveIs DEF TakesIn
    <3>2. g[i] = [y EXCEPT !.status = "received", !.got = q]
          BY <2>2 DEF Settling
    <3> HIDE DEF y, q, g
    <3>3. g[i] \in Item /\ g[i].qty = y.qty /\ g[i].status = "received"
          BY <2>1, <3>1, <3>2 DEF Item
    <3> QED BY <2>2, <3>3 DEF y
  <2>3. CASE i \in Off /\ t.kind # "receive"
    <3>1. g[i] = [y EXCEPT !.status = "cancelled"]
          BY <2>3 DEF Settling
    <3> HIDE DEF y, g
    <3>2. g[i] \in Item /\ g[i].qty = y.qty /\ g[i].status = "cancelled"
          BY <2>1, <3>1 DEF Item
    <3> QED BY <2>3, <3>2 DEF y
  <2>4. CASE i \notin Off
    <3>1. g[i] = y
          BY <2>4 DEF Settling
    <3> HIDE DEF g
    <3> QED BY <2>1, <2>4, <3>1
  <2> QED BY <2>2, <2>3, <2>4
<1>8. c.day = d /\ c.items = g /\ DOMAIN g = I /\ g \in [I -> Item]
  <2>1. DOMAIN g = I /\ g \in [I -> Item]
        BY <1>7
  <2> DEFINE F == [I -> Item]
  <2>2. b \in [day : Day, items : F]
        BY <1>3
  <2> HIDE DEF b, g, F
  <2>3. c.day = b.day /\ c.items = g
        BY <2>2
  <2> QED BY <1>2, <2>1, <2>3
<1>9. IsPurchase(c) /\ c # NoPurchase
  <2> DEFINE F == [I -> Item]
  <2>1. b \in [day : Day, items : F] /\ g \in F
        BY <1>3, <1>8
  <2>2. c \in [day : Day, items : F]
    <3> HIDE DEF b, g, F
    <3> QED BY <2>1
  <2>3. c.day # -1
        BY <1>1, <1>8, KitchenAssumption
  <2>4. c # NoPurchase
    <3> HIDE DEF c
    <3> QED BY <2>3 DEF NoPurchase
  <2>5. DOMAIN c.items = I
        BY <1>8
  <2> HIDE DEF c, g, I
  <2>6. IsPurchase(c)
        BY <1>3, <2>2, <2>5 DEF IsPurchase
  <2> QED BY <2>4, <2>6
<1>10. purchases'[p] = c /\ \A q \in Purchase \ {p} : purchases'[q] = purchases[q]
       BY <1>1, <1>3, <1>4
<1>11. Waiting(p)' = Waiting(p) \ Off
  <2>1. Waiting(p)' = {i \in I : g[i].status = "ordered"}
        BY <1>8, <1>9, <1>10 DEF Waiting
  <2> HIDE DEF g, I, Off, b
  <2> QED BY <1>6, <1>7, <2>1
<1>12. \A i \in Ingredient : Ordered(r, i) = IF i \in Off THEN -b.items[i].qty ELSE 0
  <2>1. \A i : Taken(r, i) = b.items[i].qty
        BY DEF Taken
  <2> QED BY <2>1 DEF Ordered
<1>13. ASSUME NEW i \in Ingredient
       PROVE  /\ Ordered(r, i) \in Int
              /\ WaitsFor(p, d, i)' = WaitsFor(p, d, i) + Ordered(r, i)
              /\ \A e \in Day \ {d} : WaitsFor(p, e, i)' = WaitsFor(p, e, i)
              /\ ~(Ordered(r, i) > 0)
  <2>1. \A e \in Day : WaitsFor(p, e, i) = IF i \in Waiting(p) /\ d = e THEN b.items[i].qty ELSE 0
        BY <1>2 DEF WaitsFor
  <2>2. \A e \in Day : WaitsFor(p, e, i)' = IF i \in Waiting(p) \ Off /\ d = e THEN g[i].qty ELSE 0
    <3> HIDE DEF Off, g, b, c
    <3> QED BY <1>8, <1>10, <1>11 DEF WaitsFor
  <2>3. i \in Waiting(p) => i \in I /\ g[i].qty = b.items[i].qty /\ b.items[i].qty \in Nat
        BY <1>5, <1>6, <1>7 DEF Item
  <2> DEFINE q == b.items[i].qty
             n == g[i].qty
  <2>4. /\ Ordered(r, i) = IF i \in Off THEN -q ELSE 0
        /\ i \in Off => i \in Waiting(p)
        /\ i \in Waiting(p) => n = q /\ q \in Nat
        /\ \A e \in Day : WaitsFor(p, e, i) = IF i \in Waiting(p) /\ d = e THEN q ELSE 0
        /\ \A e \in Day : WaitsFor(p, e, i)' = IF i \in Waiting(p) \ Off /\ d = e THEN n ELSE 0
        BY <1>2, <1>12, <2>1, <2>2, <2>3
  <2> HIDE DEF q, n, Off, b, g
  <2>5. CASE i \in Off
    <3>1. q \in Nat /\ Ordered(r, i) = -q /\ i \in Waiting(p)
          BY <2>4, <2>5
    <3>2. -q \in Int /\ q + (-q) = 0 /\ ~(-q > 0)
          BY <3>1, Negative
    <3>3. WaitsFor(p, d, i) = q /\ WaitsFor(p, d, i)' = 0
          BY <1>1, <2>4, <2>5, <3>1
    <3>4. \A e \in Day \ {d} : WaitsFor(p, e, i) = 0 /\ WaitsFor(p, e, i)' = 0
          BY <2>4
    <3> QED BY <3>1, <3>2, <3>3, <3>4
  <2>6. CASE i \notin Off
    <3>1. Ordered(r, i) = 0 /\ \A e \in Day : WaitsFor(p, e, i)' = WaitsFor(p, e, i)
          BY <2>4, <2>6
    <3>2. WaitsFor(p, d, i) \in Nat
          BY <1>1, WaitsIs DEF IInv, Typed
    <3> QED BY <1>1, <3>1, <3>2
  <2> QED BY <2>5, <2>6
<1> HIDE DEF c
<1> QED BY <1>1, <1>3, <1>4, <1>9, <1>10, <1>13 DEF Moved

\* A task that is about no purchase.
LEMMA ListSaved ==
  ASSUME IInv, NEW r \in Runner, SaveResult(r), run[r].task.kind \notin {"buy", "receive", "cancel"}
  PROVE  purchases' = purchases /\ \A i \in Ingredient : Ordered(r, i) = 0
BY SaveIs DEF Closed, Ordered

LEMMA SavedOne ==
  ASSUME IInv, NEW r \in Runner, SaveResult(r), run[r].task.kind \in {"buy", "receive", "cancel"},
         NEW d, d = DayOf(r)
  PROVE  \E p \in Purchase : p = run[r].task.purchase /\ Moved(r, p, d)
<1>1. PICK p : p = run[r].task.purchase
      OBVIOUS
<1>2. p \in Purchase /\ Moved(r, p, d)
      BY <1>1, BuySaved, SettleSaved
<1> QED BY <1>1, <1>2

LEMMA SavedPurchases ==
  ASSUME IInv, NEW r \in Runner, SaveResult(r)
  PROVE  /\ DOMAIN purchases' = Purchase
         /\ \A p \in Purchase : purchases'[p] # NoPurchase => IsPurchase(purchases'[p])
         /\ \A i \in Ingredient : Ordered(r, i) \in Int
<1> DEFINE t == run[r].task
<1>1. ListShapes
      BY Parts
<1>2. CASE t.kind \notin {"buy", "receive", "cancel"}
      BY <1>1, <1>2, ListSaved DEF ListShapes
<1>3. CASE t.kind \in {"buy", "receive", "cancel"}
  <2>1. PICK d : d = DayOf(r)
        OBVIOUS
  <2>2. PICK p \in Purchase : Moved(r, p, d)
        BY <1>3, <2>1, SavedOne
  <2> QED BY <1>1, <2>2 DEF Moved, ListShapes
<1> QED BY <1>2, <1>3

\* What is on order for the day changes by what its list is told.
LEMMA SavedOrders ==
  ASSUME IInv, TypeOK', NEW r \in Runner, SaveResult(r), NEW d, d = DayOf(r), NEW i \in Ingredient
  PROVE  /\ Ordered(r, i) \in Int
         /\ OnOrder(d, i) \in Nat /\ OnOrder(d, i)' \in Nat
         /\ OnOrder(d, i)' = OnOrder(d, i) + Ordered(r, i)
         /\ \A e \in Day \ {d} : OnOrder(e, i)' = OnOrder(e, i)
         /\ Ordered(r, i) > 0 => /\ Line(d, i).toBuy > 0
                                 /\ Ordered(r, i) = RoundedUp(Line(d, i).toBuy, Pack[i])
<1> DEFINE t == run[r].task
<1>1. TypeOK /\ d \in Day /\ Ordered(r, i) \in Int
      BY SaveIs, SavedPurchases DEF IInv, Typed
<1>2. CASE t.kind \notin {"buy", "receive", "cancel"}
  <2>1. Ordered(r, i) = 0 /\ \A e \in Day : OnOrder(e, i)' = OnOrder(e, i)
        BY <1>2, ListSaved DEF OnOrder, WaitsFor, Waiting
  <2>2. OnOrder(d, i) \in Nat
        BY <1>1, OnOrderIs
  <2> QED BY <1>1, <2>1, <2>2
<1>3. CASE t.kind \in {"buy", "receive", "cancel"}
  <2>1. PICK p \in Purchase : Moved(r, p, d)
        BY <1>3, SavedOne
  <2>2. ASSUME NEW e \in Day
        PROVE  /\ WaitsFor(p, e, i) \in Nat /\ WaitsFor(p, e, i)' \in Nat
               /\ OnOrder(e, i) \in Nat /\ OnOrder(e, i)' \in Nat
               /\ OnOrder(e, i)' + WaitsFor(p, e, i) = OnOrder(e, i) + WaitsFor(p, e, i)'
        BY <1>1, <2>1, OnOrderMoves DEF Moved
  <2>3. WaitsFor(p, d, i)' = WaitsFor(p, d, i) + Ordered(r, i)
        BY <2>1 DEF Moved
  <2>4. OnOrder(d, i)' = OnOrder(d, i) + Ordered(r, i)
    <3> DEFINE w == WaitsFor(p, d, i)
               v == WaitsFor(p, d, i)'
               n == OnOrder(d, i)
               m == OnOrder(d, i)'
               k == Ordered(r, i)
    <3>1. /\ w \in Nat /\ v \in Nat /\ n \in Nat /\ m \in Nat /\ k \in Int
          /\ m + w = n + v /\ v = w + k
          BY <1>1, <2>2, <2>3
    <3> HIDE DEF w, v, n, m, k
    <3>2. m = n + k
          BY <3>1
    <3> QED BY <3>2 DEF n, m, k
  <2>5. ASSUME NEW e \in Day \ {d} PROVE OnOrder(e, i)' = OnOrder(e, i)
    <3>1. WaitsFor(p, e, i)' = WaitsFor(p, e, i)
          BY <2>1 DEF Moved
    <3> QED BY <2>2, <3>1
  <2> QED BY <1>1, <2>1, <2>2, <2>4, <2>5 DEF Moved
<1> QED BY <1>2, <1>3

\* The row of the batch is free again, and each purchase still has its runner.
LEMMA SavedRuns ==
  ASSUME IInv, NEW r \in Runner, SaveResult(r)
  PROVE  RunsOK'
<1> DEFINE y == run[r]
           t == run[r].task
           d == DayOf(r)
           todo == y.todo \ {d}
           nothing == Nothing
           x == [y EXCEPT !.at = "next", !.todo = todo, !.need = nothing, !.has = nothing]
<1>1. /\ run' = [run EXCEPT ![r] = x] /\ DOMAIN run = Runner
      BY DEF SaveResult, IInv, Typed
<1>2. /\ run[r] # Idle /\ Busy(r) /\ d \in y.todo /\ y \in Doing(t)
      /\ y.todo \subseteq Day /\ TaskOK(t) /\ TakesIn(t) /\ RunOK(r) /\ PurchaseOK(r)
      BY SaveIs, RunIs DEF IInv
<1>3. x \in Doing(t) /\ x.at = "next" /\ x.todo = todo /\ x.task = t
  <2> DEFINE N == [Ingredient -> Nat]
             Z == [Ingredient -> Int]
             D == SUBSET Day
  <2>1. /\ y \in Doing(t) /\ "next" \in Stage /\ todo \in D
        /\ nothing \in N /\ nothing \in Z
        BY <1>2 DEF Stage, Nothing
  <2>2. y \in [at : Stage, task : {t}, todo : D, need : N, has : Z, again : BOOLEAN, refused : BOOLEAN]
        BY <2>1 DEF Doing
  <2> HIDE DEF y, t, todo, nothing, N, Z, D
  <2>3. /\ x \in [at : Stage, task : {t}, todo : D, need : N, has : Z, again : BOOLEAN, refused : BOOLEAN]
        /\ x.at = "next" /\ x.todo = todo /\ x.task = t
        BY <2>1, <2>2
  <2> QED BY <2>3 DEF Doing, N, Z, D
<1>4. run'[r] = x /\ DOMAIN run' = Runner /\ \A q \in Runner \ {r} : run'[q] = run[q]
      BY <1>1
<1> HIDE DEF x
<1>5. Busy(r)' /\ Buys(r)' = Buys(r) /\ Settles(r)' = Settles(r)
      BY <1>2, <1>3, <1>4 DEF Busy, Buys, Settles
<1>6. Buys(r) \/ Settles(r) => todo = {}
      BY <1>2 DEF RunOK
<1>7. RunOK(r)' /\ PurchaseOK(r)'
  <2>1. RunOK(r)'
    <3>1. Buys(r) \/ Settles(r) => \E e \in Day : todo \subseteq {e}
          BY <1>2 DEF RunOK
    <3> QED BY <1>2, <1>3, <1>4, <1>5, <3>1 DEF RunOK, Stage
  <2>2. PurchaseOK(r)'
        BY <1>3, <1>4, <1>5, <1>6 DEF PurchaseOK
  <2> QED BY <2>1, <2>2
<1>8. ASSUME NEW q \in Runner \ {r}
      PROVE  RunOK(q)' /\ PurchaseOK(q)'
  <2>1. RunOK(q) /\ PurchaseOK(q) /\ run'[q] = run[q]
        BY <1>4 DEF IInv, Typed
  <2>2. RunOK(q)'
        BY <2>1 DEF RunOK, Buys, Settles, Busy
  <2> DEFINE p == run[q].task.purchase
  <2>3. ASSUME Buys(q) \/ Settles(q), run[q].todo # {}
        PROVE  purchases'[p] = purchases[p]
    <3>1. CASE t.kind \notin {"buy", "receive", "cancel"}
          BY <3>1, ListSaved
    <3>2. CASE t.kind \in {"buy", "receive", "cancel"}
      <4>0. PICK f : f = d
            OBVIOUS
      <4>1. PICK s \in Purchase : s = t.purchase /\ Moved(r, s, f)
            BY <3>2, <4>0, SavedOne
      <4>2. run[q] # Idle /\ TaskOK(run[q].task)
            BY <2>3, IdleIs, RunIs DEF IInv, Buys, Settles
      <4>3. p \in Purchase
            BY <2>3, <4>2 DEF TaskOK, Buys, Settles, Job, Upcoming, From
      <4>4. Apart(q, r)
            BY DEF IInv
      <4>5. p # s
        <5>1. CASE (Buys(q) /\ Buys(r)) \/ (Settles(q) /\ Settles(r))
              BY <4>1, <4>4, <5>1 DEF Apart
        <5>2. CASE Buys(q) /\ Settles(r)
          <6>1. purchases[p] = NoPurchase /\ d = purchases[s].day
                BY <1>2, <2>1, <2>3, <4>1, <5>2 DEF PurchaseOK
          <6>2. d # -1
                BY <1>2, KitchenAssumption
          <6> QED BY <6>1, <6>2 DEF NoPurchase
        <5>3. CASE Settles(q) /\ Buys(r)
          <6>1. purchases[s] = NoPurchase /\ run[q].todo = {purchases[p].day}
                BY <1>2, <2>1, <2>3, <4>1, <5>3 DEF PurchaseOK
          <6>2. run[q].todo \subseteq Day
                BY <4>2, RunIs DEF IInv
          <6>3. purchases[p].day # -1
                BY <6>1, <6>2, KitchenAssumption
          <6> QED BY <6>1, <6>3 DEF NoPurchase
        <5> QED BY <1>2, <2>3, <3>2, <5>1, <5>2, <5>3 DEF Buys, Settles
      <4> QED BY <4>1, <4>3, <4>5 DEF Moved
    <3> QED BY <3>1, <3>2
  <2>4. PurchaseOK(q)'
        BY <2>1, <2>3 DEF PurchaseOK, Buys, Settles, Busy, Waiting
  <2> QED BY <2>2, <2>4
<1>9. ASSUME NEW q \in Runner, NEW s \in Runner, q # s
      PROVE  Apart(q, s)'
  <2>1. Apart(q, s)
        BY <1>9 DEF IInv
  <2>2. \A u \in Runner : /\ Buys(u)' = Buys(u) /\ Settles(u)' = Settles(u)
                          /\ run'[u].task.purchase = run[u].task.purchase
        BY <1>3, <1>4, <1>5 DEF Buys, Settles, Busy
  <2> QED BY <2>1, <2>2 DEF Apart
<1>10. OneHolder'
  <2>1. run'[r].at = "next"
        BY <1>3, <1>4
  <2> QED BY <1>4, <2>1, LocksKept
<1> QED BY <1>4, <1>7, <1>8, <1>9, <1>10 DEF RunsOK

\* A line is dropped only when nothing of it is on order.
LEMMA DroppedIs ==
  ASSUME NEW need \in Nat, NEW has \in Int, NEW ordered \in Int, NEW received \in Nat,
         NEW line, line = Shopped(need, has, ordered, received), line = NoLine
  PROVE  ordered <= 0
<1>1. CASE need = 0 /\ ordered <= 0 /\ received <= 0
      BY <1>1
<1>2. CASE ~(need = 0 /\ ordered <= 0 /\ received <= 0)
  <2>1. line.needed = need
        BY <1>2 DEF Shopped
  <2>2. need # -1
        OBVIOUS
  <2> QED BY <2>1, <2>2 DEF NoLine
<1> QED BY <1>1, <1>2

LEMMA SavedLines ==
  ASSUME IInv, NEW r \in Runner, SaveResult(r), NEW d, d = DayOf(r)
  PROVE  /\ d \in Day
         /\ lines' \in [Day -> [Ingredient -> LineType \cup {NoLine}]]
         /\ \A e \in Day \ {d} : lines'[e] = lines[e]
         /\ \A i \in Ingredient :
              LET s == lines'[d][i]
                  ordered == Line(d, i).ordered + Ordered(r, i)
              IN  /\ s = NoLine => ordered <= 0
                  /\ s # NoLine => /\ s.ordered = ordered
                                   /\ s.toBuy = ToBuy(s.needed, s.usable, s.ordered)
<1> DEFINE New(i) == Shopped(run[r].need[i], run[r].has[i],
                             Line(d, i).ordered + Ordered(r, i), Line(d, i).received + Arrived(r, i))
           list == [i \in Ingredient |-> New(i)]
           L == [Ingredient -> LineType \cup {NoLine}]
<1>1. d \in Day /\ TypeOK
      BY SaveIs DEF IInv, Typed
<1>2. lines \in [Day -> L] /\ lines' = [lines EXCEPT ![d] = list]
      BY <1>1 DEF TypeOK, SaveResult
<1>3. ASSUME NEW i \in Ingredient
      PROVE  LET s == New(i)
                 ordered == Line(d, i).ordered + Ordered(r, i)
             IN  /\ s \in LineType \cup {NoLine}
                 /\ s = NoLine => ordered <= 0
                 /\ s # NoLine => /\ s.ordered = ordered
                                  /\ s.toBuy = ToBuy(s.needed, s.usable, s.ordered)
  <2> DEFINE need == run[r].need[i]
             has == run[r].has[i]
             ordered == Line(d, i).ordered + Ordered(r, i)
             received == Line(d, i).received + Arrived(r, i)
  <2>1. need \in Nat /\ has \in Int
        BY SaveIs
  <2>2. ordered \in Int /\ received \in Nat
        BY <1>1, LineIs, SavedPurchases, ArrivedIs
  <2>3. New(i) = Shopped(need, has, ordered, received)
        OBVIOUS
  <2> HIDE DEF need, has, ordered, received, New
  <2> DEFINE line == New(i)
  <2>4. /\ line \in LineType \cup {NoLine}
        /\ line = NoLine => ordered <= 0
        /\ line # NoLine => /\ line.ordered = ordered
                            /\ line.toBuy = ToBuy(line.needed, line.usable, line.ordered)
    <3>1. line = Shopped(need, has, ordered, received)
          BY <2>3
    <3> HIDE DEF line
    <3>2. line \in LineType \cup {NoLine}
          BY <2>1, <2>2, <3>1, ShoppedIs
    <3>3. ASSUME line = NoLine PROVE ordered <= 0
          BY <2>1, <2>2, <3>1, <3>3, DroppedIs
    <3>4. line # NoLine => line.ordered = ordered
          BY <2>1, <2>2, <3>1, ShoppedIs
    <3>5. line # NoLine => line.toBuy = ToBuy(line.needed, line.usable, line.ordered)
          BY <2>1, <2>2, <3>1, ShoppedIs
    <3> QED BY <3>2, <3>3, <3>4, <3>5
  <2> QED BY <2>4 DEF ordered
<1>4. list \in L /\ \A i \in Ingredient : list[i] = New(i)
      BY <1>3
<1> HIDE DEF New, list
<1>5. lines'[d] = list /\ lines' \in [Day -> L] /\ \A e \in Day \ {d} : lines'[e] = lines[e]
  <2> HIDE DEF L
  <2> QED BY <1>1, <1>2, <1>4
<1>6. \A i \in Ingredient : lines'[d][i] = New(i)
      BY <1>4, <1>5
<1> QED BY <1>1, <1>3, <1>5, <1>6

LEMMA SaveKeeps ==
  ASSUME IInv, NEW r \in Runner, SaveResult(r)
  PROVE  IInv'
<1> USE Parts, PartsNext
<1>1. PICK d : d = DayOf(r)
      OBVIOUS
<1>2. Shapes'
  <2>1. jobs' \in [Job -> Nat]
    <3>1. Enqueued(Upcoming) \in [Job -> Nat]
          BY OneMoreJob DEF Job
    <3> QED BY <3>1 DEF SaveResult, Shapes
  <2>2. batch' \in [Day -> Status] /\ failed' \in [Day -> BOOLEAN]
        BY DEF SaveResult, Shapes, Status
  <2>3. stock' \in [Ingredient -> Nat]
    <3>1. \A i \in Ingredient : stock[i] + Arrived(r, i) \in Nat
          BY ArrivedIs DEF Shapes
    <3> QED BY <3>1 DEF SaveResult
  <2> QED BY <2>1, <2>2, <2>3 DEF SaveResult, Shapes
<1>3. ListShapes'
      BY <1>1, SavedLines, SavedPurchases DEF ListShapes
<1>4. RunsOK'
      BY SavedRuns
<1>5. TypeOK'
      BY <1>2, <1>3, <1>4 DEF TypeOK, Shapes, ListShapes, RunsOK, OneHolder
<1>6. ASSUME NEW e \in Day, NEW i \in Ingredient
      PROVE  Line(e, i)'.ordered = OnOrder(e, i)' /\ ListOK(e, i)'
  <2>1. Line(e, i).ordered = OnOrder(e, i) /\ ListOK(e, i)
        BY DEF IInv, OnOrderIsSum
  <2>2. CASE e = d
    <3> DEFINE s == lines'[d][i]
               ordered == Line(d, i).ordered + Ordered(r, i)
    <3>1. OnOrder(d, i)' = ordered /\ ordered \in Nat
          BY <1>1, <1>5, <2>1, <2>2, SavedOrders
    <3>2. /\ s = NoLine => ordered <= 0
          /\ s # NoLine => /\ s.ordered = ordered
                           /\ s.toBuy = ToBuy(s.needed, s.usable, s.ordered)
          BY <1>1, SavedLines
    <3>3. ListOK(e, i)'
          BY <2>2, <3>2 DEF ListOK, ToBuy
    <3>4. CASE s = NoLine
      <4>1. Line(d, i)'.ordered = 0
            BY <3>4 DEF Line
      <4>2. ordered = 0
        <5> HIDE DEF ordered, s
        <5> QED BY <3>1, <3>2, <3>4
      <4> QED BY <2>2, <3>1, <3>3, <4>1, <4>2
    <3>5. CASE s # NoLine
      <4>1. Line(d, i)' = s
            BY <3>5 DEF Line
      <4> QED BY <2>2, <3>1, <3>2, <3>3, <3>5, <4>1
    <3> QED BY <3>4, <3>5
  <2>3. CASE e # d
    <3>1. lines'[e] = lines[e]
          BY <1>1, <2>3, SavedLines
    <3>2. Line(e, i)' = Line(e, i) /\ ListOK(e, i)'
          BY <2>1, <3>1 DEF Line, ListOK, ToBuy
    <3>3. OnOrder(e, i)' = OnOrder(e, i)
          BY <1>1, <1>5, <2>3, SavedOrders
    <3> QED BY <2>1, <3>2, <3>3
  <2> QED BY <2>2, <2>3
<1>7. ListsOK'
      BY <1>6 DEF ListsOK, OnOrderIsSum
<1> QED BY <1>2, <1>3, <1>4, <1>7

-----------------------------------------------------------------------------
\* The theorems.

\* At the start nothing is computed and nothing is on order.
LEMMA InitKeeps ==
  ASSUME Init
  PROVE  IInv
<1> USE Parts
<1>1. Shapes
  <2>1. Min(Day) \in Day
        BY KitchenAssumption, FirstDay
  <2>2. Nothing \in [Ingredient -> Nat] /\ Nothing \in [Ingredient -> Qty]
        BY KitchenAssumption DEF Nothing, Qty
  <2>3. batch \in [Day -> Status]
        BY KitchenAssumption DEF Init
  <2> QED BY <2>1, <2>2, <2>3 DEF Init, Shapes
<1>2. ListShapes
  <2>1. lines \in [Day -> [Ingredient -> LineType \cup {NoLine}]]
        BY DEF Init
  <2>2. PICK b \in Beginning : purchases = b.purchases
        BY DEF Init
  <2> QED BY <2>1, <2>2, KitchenAssumption DEF ListShapes
<1>3. RunsOK
  <2>1. DOMAIN run = Runner /\ \A r \in Runner : run[r] = Idle /\ ~Busy(r) /\ run[r].at = "idle"
        BY IdleIs DEF Init
  <2>2. \A r \in Runner : RunOK(r) /\ PurchaseOK(r)
        BY <2>1 DEF RunOK, PurchaseOK, Buys, Settles, Stage
  <2>3. \A q, r \in Runner : Apart(q, r)
        BY <2>1 DEF Apart, Buys, Settles
  <2>4. OneHolder
        BY <2>1 DEF OneHolder
  <2> QED BY <2>1, <2>2, <2>3, <2>4 DEF RunsOK
<1>4. ListsOK
  <2>1. ASSUME NEW d \in Day, NEW i \in Ingredient
        PROVE  Line(d, i).ordered = OnOrder(d, i) /\ ListOK(d, i)
    <3>1. lines[d][i] = NoLine
          BY DEF Init
    <3>2. Line(d, i).ordered = 0 /\ ListOK(d, i)
          BY <3>1 DEF Line, ListOK
    <3>3. ASSUME NEW p \in Purchase PROVE WaitsOf(d, i)[p] = 0
      <4>1. Waiting(p) = {}
        <5>1. PICK b \in Beginning : purchases = b.purchases
              BY DEF Init
        <5> QED BY <5>1, KitchenAssumption DEF Waiting
      <4> QED BY <4>1 DEF WaitsOf, WaitsFor
    <3>4. OnOrder(d, i) = SumFunctionOnSet(WaitsOf(d, i), Purchase)
          BY DEF OnOrder, WaitsOf
    <3> HIDE DEF WaitsOf
    <3>5. OnOrder(d, i) = 0
          BY <3>3, <3>4, KitchenAssumption, SumZero
    <3> QED BY <3>2, <3>5
  <2> QED BY <2>1 DEF ListsOK, OnOrderIsSum
<1> QED BY <1>1, <1>2, <1>3, <1>4

LEMMA NextKeeps ==
  ASSUME IInv, [Next]_vars
  PROVE  IInv'
<1>1. ASSUME NEW r \in Runner, Worker(r)
      PROVE  IInv'
  <2>1. CASE \E j \in Job : StartJob(r, j)
        BY <2>1, StartKeeps
  <2>2. CASE LockBatch(r) \/ ReadStock(r) \/ ReadClaims(r) \/ SaveResult(r)
        BY <2>2, LockBatchKeeps, ReadStockKeeps, ReadClaimsKeeps, SaveKeeps
  <2>3. CASE RecipeFails(r) \/ MarkFailed(r) \/ Fail(r) \/ Finish(r)
        BY <2>3, RecipeFailsKeeps, MarkFailedKeeps, FailKeeps, FinishKeeps
  <2> QED BY <1>1, <2>1, <2>2, <2>3 DEF Worker
<1> QED BY <1>1, RequestKeeps, WorldKeeps, StatusKeeps, StutterKeeps DEF Next

\* In every state each batch and each purchase has one runner at a time, what
\* a list lacks is left to buy, and what is on order is what waits
\* (LockShoppingList and the purchases' FOR UPDATE).
THEOREM Invariance == Spec => []IInv
<1>1. Init => IInv
      BY InitKeeps
<1>2. IInv /\ [Next]_vars => IInv'
      BY NextKeeps
<1> QED BY <1>1, <1>2, PTL DEF Spec

\* Every variable keeps its shape, and no two computations have the same
\* batch's row (Shop and Recompute lock it first).
THEOREM TypeCorrect == Spec => []TypeOK
<1>1. IInv => TypeOK
      BY DEF IInv, Typed
<1> QED BY <1>1, Invariance, PTL

\* What a list says is on order is what waits in the purchases for its day
\* (Shop, AddProcured): no computation, delivery or cancellation loses or
\* doubles an order.
THEOREM OrdersAlwaysSum == Spec => []OnOrderIsSum
<1>1. IInv => OnOrderIsSum
      BY DEF IInv
<1> QED BY <1>1, Invariance, PTL

\* Only the computation that a purchase is part of changes purchases.
LEMMA OnlySaves ==
  ASSUME [Next]_vars, purchases' # purchases
  PROVE  \E r \in Runner : SaveResult(r)
<1> USE DEF vars, shop
<1>1. ASSUME NEW r \in Runner, Worker(r)
      PROVE  SaveResult(r)
      BY <1>1 DEF Worker, StartJob, LockBatch, ReadStock, ReadClaims, RecipeFails, MarkFailed, Fail, Finish
<1>2. ASSUME NEW r \in Runner, Staff(r)
      PROVE  FALSE
      BY <1>2 DEF Staff, Recompute, Create, Receive, Cancel, Request
<1>3. ~World
      BY DEF World, OrdersChange, RecipeChanges, StockChanges, NextDay
<1>4. ASSUME NEW d \in Day, LockDue(d) \/ MarkInProduction(d) \/ Complete(d)
      PROVE  FALSE
      BY <1>4 DEF LockDue, MarkInProduction, Complete
<1> QED BY <1>1, <1>2, <1>3, <1>4 DEF Next

\* What is bought fills what the list lacks, and the rest of a pack.
LEMMA PackFits ==
  ASSUME NEW needed \in Nat, NEW usable \in Nat, NEW ordered \in Nat, NEW toBuy, toBuy > 0,
         toBuy = ToBuy(needed, usable, ordered), NEW size \in Nat \ {0}
  PROVE  ordered + RoundedUp(toBuy, size) < needed - usable + size
<1> DEFINE a == needed - usable - ordered
           m == RoundedUp(toBuy, size)
<1>1. a \in Int /\ toBuy = Max({a, 0})
      BY DEF ToBuy
<1>2. a = needed - usable - ordered
      OBVIOUS
<1> HIDE DEF a
<1>3. toBuy = a /\ toBuy \in Nat
      BY <1>1, MaxOfTwo
<1>4. m \in Nat /\ m < toBuy + size
      BY <1>3, RoundedUpIs
<1> HIDE DEF m
<1>5. ordered + m < needed - usable + size
      BY <1>2, <1>3, <1>4
<1> QED BY <1>5 DEF m

\* Two purchases made at once never order the same line twice
\* (LockShoppingList): what is on order grows only up to what the list lacked,
\* and the rest of a pack.
THEOREM AlwaysOrderedOnce == Spec => OrderedOnce
<1>1. IInv /\ IInv' /\ [Next]_vars => [BoughtOnce]_vars
  <2> SUFFICES ASSUME IInv, IInv', [Next]_vars,
                      NEW d \in Day, NEW i \in Ingredient, OnOrder(d, i)' > OnOrder(d, i)
               PROVE  OnOrder(d, i)' < Line(d, i).needed - Line(d, i).usable + Pack[i]
      BY DEF BoughtOnce
  <2>1. TypeOK /\ TypeOK' /\ OnOrderIsSum /\ ListOK(d, i)
        BY DEF IInv, Typed
  <2>2. OnOrder(d, i) \in Nat /\ OnOrder(d, i)' # OnOrder(d, i)
        BY <2>1, OnOrderIs
  <2>3. purchases' # purchases
        BY <2>2 DEF OnOrder, WaitsFor, Waiting
  <2>4. PICK r \in Runner : SaveResult(r)
        BY <2>3, OnlySaves
  <2>5. PICK e : e = DayOf(r)
        OBVIOUS
  <2>6. e = d
        BY <2>1, <2>2, <2>4, <2>5, SavedOrders
  <2> DEFINE n == OnOrder(d, i)
             m == OnOrder(d, i)'
             k == Ordered(r, i)
  <2>7. /\ n \in Nat /\ m \in Nat /\ k \in Int /\ m = n + k /\ m > n
        /\ k > 0 => Line(d, i).toBuy > 0 /\ k = RoundedUp(Line(d, i).toBuy, Pack[i])
        BY <2>1, <2>4, <2>5, <2>6, SavedOrders
  <2>8. m = n + RoundedUp(Line(d, i).toBuy, Pack[i]) /\ Line(d, i).toBuy > 0
    <3> HIDE DEF n, m, k
    <3> QED BY <2>7
  <2>9. /\ Line(d, i).toBuy = ToBuy(Line(d, i).needed, Line(d, i).usable, n)
        /\ Line(d, i).needed \in Nat /\ Line(d, i).usable \in Nat
    <3>1. lines[d][i] # NoLine
          BY <2>8 DEF Line
    <3>2. Line(d, i) = lines[d][i] /\ Line(d, i).ordered = n
          BY <2>1, <3>1 DEF Line, OnOrderIsSum
    <3> QED BY <2>1, <3>1, <3>2, LineIs DEF ListOK
  <2>10. Pack[i] \in Nat \ {0}
        BY KitchenAssumption
  <2> HIDE DEF n
  <2>11. n + RoundedUp(Line(d, i).toBuy, Pack[i]) < Line(d, i).needed - Line(d, i).usable + Pack[i]
        BY <2>7, <2>8, <2>9, <2>10, PackFits
  <2> QED BY <2>8, <2>11
<1> QED BY <1>1, Invariance, PTL DEF Spec, OrderedOnce

\* The statuses in their order.
LEMMA RankIs ==
  /\ Rank("none") = 1 /\ Rank("open") = 2 /\ Rank("locked") = 3
  /\ Rank("in_production") = 4 /\ Rank("done") = 5
BY DEF Rank, Step

\* A batch is opened, locked, put into production and done, and never goes
\* back, whoever takes the step (EnsureBatch, LockDue, MarkInProduction,
\* Complete): a late job does not reopen it.
THEOREM AlwaysMovesOn == Spec => StatusMovesOn
<1>1. IInv /\ [Next]_vars => [MovesOn]_vars
  <2> SUFFICES ASSUME IInv, [Next]_vars, NEW d \in Day
               PROVE  Rank(batch[d]) <= Rank(batch'[d])
      BY DEF MovesOn
  <2>1. batch \in [Day -> Status]
        BY DEF IInv, Typed, TypeOK
  <2>2. ASSUME batch' = batch \/ \E e \in Day, s \in Status :
                 /\ batch' = [batch EXCEPT ![e] = s]
                 /\ Rank(batch[e]) <= Rank(s)
        PROVE  Rank(batch[d]) <= Rank(batch'[d])
    <3>1. Rank(batch[d]) <= Rank(batch[d])
          BY <2>1, RankIs DEF Status
    <3> QED BY <2>1, <2>2, <3>1
  <2>3. ASSUME NEW r \in Runner, SaveResult(r) \/ MarkFailed(r)
        PROVE  Rank(batch[d]) <= Rank(batch'[d])
    <3>1. DayOf(r) \in Day
          BY <2>3, AtWork DEF SaveResult, MarkFailed, Stage, IInv
    <3> QED BY <2>1, <2>2, <2>3, <3>1, RankIs DEF SaveResult, MarkFailed, Status
  <2>4. ASSUME NEW e \in Day, LockDue(e) \/ MarkInProduction(e) \/ Complete(e)
        PROVE  Rank(batch[d]) <= Rank(batch'[d])
        BY <2>1, <2>2, <2>4, RankIs DEF LockDue, MarkInProduction, Complete, Becomes, MayBecome, Status
  <2>5. ASSUME NEW r \in Runner, Worker(r)
        PROVE  Rank(batch[d]) <= Rank(batch'[d])
    <3>1. CASE SaveResult(r) \/ MarkFailed(r)
          BY <2>3, <3>1
    <3>2. CASE ~(SaveResult(r) \/ MarkFailed(r))
      <4>1. batch' = batch
            BY <2>5, <3>2 DEF Worker, StartJob, LockBatch, ReadStock, ReadClaims, RecipeFails, Fail, Finish, shop
      <4> QED BY <2>2, <4>1
    <3> QED BY <3>1, <3>2
  <2>6. ASSUME NEW r \in Runner, Staff(r)
        PROVE  Rank(batch[d]) <= Rank(batch'[d])
        BY <2>2, <2>6 DEF Staff, Recompute, Create, Receive, Cancel, Request, shop
  <2>7. ASSUME World \/ UNCHANGED vars
        PROVE  Rank(batch[d]) <= Rank(batch'[d])
        BY <2>2, <2>7 DEF World, OrdersChange, RecipeChanges, StockChanges, NextDay, vars, shop
  <2> QED BY <2>4, <2>5, <2>6, <2>7 DEF Next
<1> QED BY <1>1, Invariance, PTL DEF Spec, StatusMovesOn

-----------------------------------------------------------------------------
\* Every list is right in the end.  A list that is not is still to be computed:
\* by a job that waits, by a runner that has the day ahead of it or will be
\* retried, or by one that has it in hand and read what is true.

\* There is a batch for every day, and none is done after its day.
AllPlanned == \A d \in Day : batch[d] # "none"
InTime == \A d \in Day : d < today => batch[d] \in {"none", "done"}

AnyBroken == \E d \in Day : broken[d]

\* Failures beside a broken recipe are not retried (cancelIfRecipe).
Excused == failures > 0 /\ AnyBroken

\* A job of kind j computes day d, if it is one of those to come.
Reaches(j, d) == IF j = Upcoming THEN d >= today ELSE d >= j.day

Works(r) == run[r] # Idle /\ run[r].task \in Job
Counts(r) == AnyBroken \/ ~run[r].refused
Unread(r, d) == d \in run[r].todo /\ (run[r].at = "next" \/ DayOf(r) # d)
Retries(r, d) == run[r].again /\ ~run[r].refused /\ Reaches(run[r].task, d)

JobAhead(d) == \E j \in Job : jobs[j] > 0 /\ Reaches(j, d)
RunnerAhead(r, d) == Works(r) /\ ((Unread(r, d) /\ Counts(r)) \/ Retries(r, d))
Ahead(d) == JobAhead(d) \/ \E r \in Runner : RunnerAhead(r, d)

\* The recipe of the day cannot be evaluated, and the batch shows it, or will.
Marks(r, d) == run[r].at = "mark" /\ DayOf(r) = d
Stuck(d) ==
  /\ broken[d] /\ needs[d] # Nothing /\ LockFree(d)
  /\ failed[d] \/ \E r \in Runner : Marks(r, d)

\* What is there, and nothing if less than that.
AtLeastNone(n) == Max({n, 0})

\* What runner r has read is still true.
UpToDate(r, d) ==
  /\ run[r].need = needs[d]
  /\ run[r].at = "claims" => \A i \in Ingredient : run[r].has[i] = stock[i] + Arrived(r, i)
  /\ run[r].at = "save" =>
       \A i \in Ingredient :
         AtLeastNone(run[r].has[i]) = AtLeastNone(stock[i] + Arrived(r, i) - ClaimedBefore(d, i))

RightList(d) ==
  \A i \in Ingredient :
    lines[d][i] = Shopped(needs[d][i], stock[i] - ClaimedBefore(d, i),
                          Line(d, i).ordered, Line(d, i).received)

OnIt(r, d) == Works(r) /\ Counts(r) /\ Computing(r, d)

InHand(d) ==
  /\ \A r \in Runner : Computing(r, d) => UpToDate(r, d)
  /\ RightList(d) \/ \E r \in Runner : OnIt(r, d)

Sure(d) == Ahead(d) \/ Stuck(d) \/ InHand(d)

\* A runner of a job has all that is to come after a day, and fails only when
\* failures are counted.
Orderly(r) ==
  Works(r) =>
    /\ \A d \in run[r].todo : d >= today => Reaches(run[r].task, d)
    /\ \A d \in run[r].todo, e \in UpcomingDates(today) : e >= d => e \in run[r].todo
    /\ run[r].again => failures > 0

\* No batch counts on more than it needs.
CountsOnNeeded == \A d \in Day, i \in Ingredient : Line(d, i).usable <= Line(d, i).needed

AllSure == Excused \/ \A d \in UpcomingDates(today) : Sure(d)

SettlesInv ==
  AllPlanned /\ failures \in Nat /\ (\A r \in Runner : Orderly(r)) /\ CountsOnNeeded /\ AllSure

-----------------------------------------------------------------------------

LEMMA AtLeastNoneIs ==
  ASSUME NEW n \in Int
  PROVE  AtLeastNone(n) \in Nat /\ AtLeastNone(n) = IF n >= 0 THEN n ELSE 0
BY MaxOfTwo DEF AtLeastNone

\* A list depends on what is there only as far as there is something.
LEMMA ShoppedSame ==
  ASSUME NEW need, NEW a, NEW b, AtLeastNone(a) = AtLeastNone(b), NEW ordered, NEW received
  PROVE  Shopped(need, a, ordered, received) = Shopped(need, b, ordered, received)
BY DEF Shopped, AtLeastNone

\* What a line made by Shopped says, or what one that is not there says.
Read(line) ==
  IF line = NoLine
  THEN [needed |-> 0, usable |-> 0, ordered |-> 0, received |-> 0, toBuy |-> 0]
  ELSE line

LEMMA ReadIs ==
  ASSUME NEW need \in Nat, NEW has \in Int, NEW ordered \in Int, NEW received \in Nat,
         NEW line, line = Shopped(need, has, ordered, received)
  PROVE  LET l == Read(line)
             h == AtLeastNone(has)
         IN  /\ l.needed = need /\ l.usable = (IF h <= need THEN h ELSE need)
             /\ l.usable \in Nat /\ l.usable <= l.needed
             /\ line = NoLine => \A x \in Int : Shopped(need, x, l.ordered, l.received) = NoLine
             /\ line # NoLine => l.ordered = ordered /\ l.received = received
<1> DEFINE h == AtLeastNone(has)
           u == Min({h, need})
           b == ToBuy(need, u, ordered)
           r == [needed |-> need, usable |-> u, ordered |-> ordered, received |-> received, toBuy |-> b]
<1>1. h \in Nat
      BY AtLeastNoneIs
<1>2. u = IF h <= need THEN h ELSE need
  <2> HIDE DEF h
  <2> QED BY <1>1, MinOfTwo
<1>3. u \in Nat /\ u <= need
  <2> HIDE DEF h, u
  <2> QED BY <1>1, <1>2
<1>4. CASE need = 0 /\ ordered <= 0 /\ received <= 0
  <2>1. line = NoLine
        BY <1>4 DEF Shopped
  <2>2. Read(line) = [needed |-> 0, usable |-> 0, ordered |-> 0, received |-> 0, toBuy |-> 0]
        BY <2>1 DEF Read
  <2>3. \A x \in Int : Shopped(need, x, Read(line).ordered, Read(line).received) = NoLine
    <3>1. Read(line).ordered = 0 /\ Read(line).received = 0
          BY <2>2
    <3> HIDE DEF Read
    <3> QED BY <1>4, <3>1 DEF Shopped
  <2>4. u = 0
    <3> HIDE DEF h, u
    <3> QED BY <1>1, <1>2, <1>4
  <2>5. (IF h <= need THEN h ELSE need) = 0
    <3> HIDE DEF h, u
    <3> QED BY <1>2, <2>4
  <2> HIDE DEF h, u
  <2> QED BY <1>4, <2>1, <2>2, <2>3, <2>5 DEF h
<1>5. CASE ~(need = 0 /\ ordered <= 0 /\ received <= 0)
  <2>1. line = r
        BY <1>5 DEF Shopped, AtLeastNone
  <2>2. r.needed = need /\ r.usable = u /\ r.ordered = ordered /\ r.received = received
        OBVIOUS
  <2> HIDE DEF r
  <2>3. line # NoLine
    <3>1. line.needed # -1
          BY <2>1, <2>2
    <3> QED BY <3>1 DEF NoLine
  <2>4. Read(line) = line
        BY <2>3 DEF Read
  <2> HIDE DEF h, u
  <2> QED BY <1>2, <1>3, <2>1, <2>2, <2>3, <2>4 DEF h
<1> QED BY <1>4, <1>5

\* What a batch counts on until it is done.
Claim(e, i) == IF batch[e] = "done" THEN 0 ELSE Line(e, i).usable
DaysBefore(d) == {e \in Day : e < d}
ClaimsOf(i) == [e \in Day |-> Claim(e, i)]

ClaimsAdd ==
  \A d \in Day, i \in Ingredient :
    /\ ClaimedBefore(d, i) = SumFunctionOnSet(ClaimsOf(i), DaysBefore(d))
    /\ ClaimedBefore(d, i) \in Nat
    /\ Adds(ClaimsOf(i), DaysBefore(d))

LEMMA ClaimsAddUp == TypeOK => ClaimsAdd
<1> SUFFICES ASSUME TypeOK, NEW d \in Day, NEW i \in Ingredient
             PROVE  /\ ClaimedBefore(d, i) = SumFunctionOnSet(ClaimsOf(i), DaysBefore(d))
                    /\ ClaimedBefore(d, i) \in Nat
                    /\ Adds(ClaimsOf(i), DaysBefore(d))
    BY DEF ClaimsAdd
<1> DEFINE f == [e \in Day |-> Line(e, i).usable]
           g == ClaimsOf(i)
           S == {e \in Day : e < d /\ batch[e] # "done"}
           D == {e \in Day : e < d /\ batch[e] = "done"}
<1>1. /\ S \cup D = DaysBefore(d) /\ S \cap D = {} /\ IsFiniteSet(DaysBefore(d))
      /\ IsFiniteSet(S) /\ IsFiniteSet(D)
      BY KitchenAssumption, FS_Subset DEF DaysBefore
<1>2. /\ \A e \in DaysBefore(d) : g[e] \in Int
      /\ \A e \in S : g[e] = f[e] /\ g[e] \in Int
      /\ \A e \in D : g[e] = 0
  <2>1. \A e \in Day : g[e] = Claim(e, i) /\ f[e] = Line(e, i).usable /\ Line(e, i).usable \in Nat
        BY LineIs DEF ClaimsOf
  <2> HIDE DEF f, g
  <2> QED BY <2>1 DEF DaysBefore, Claim
<1>3. ClaimedBefore(d, i) = SumFunctionOnSet(f, S) /\ ClaimedBefore(d, i) \in Nat
      BY ClaimsAre DEF ClaimedBefore
<1> HIDE DEF f, g, S, D
<1>4. Adds(g, DaysBefore(d)) /\ Adds(g, S)
      BY <1>1, <1>2 DEF Adds
<1>5. SumFunctionOnSet(g, DaysBefore(d)) = SumFunctionOnSet(g, S) + SumFunctionOnSet(g, D)
      BY <1>1, <1>4, SumParts
<1>6. SumFunctionOnSet(g, D) = 0
      BY <1>1, <1>2, SumZero
<1>7. SumFunctionOnSet(f, S) = SumFunctionOnSet(g, S)
      BY <1>2, <1>4, SumSame
<1>8. SumFunctionOnSet(g, S) \in Int
      BY <1>4, SumType
<1> QED BY <1>3, <1>4, <1>5, <1>6, <1>7, <1>8 DEF g

LEMMA ClaimsAddUpThen == TypeOK' => ClaimsAdd'
BY ClaimsAddUp, PTL

\* What the batches before a day count on is the same if each counts on the same.
LEMMA ClaimsSame ==
  ASSUME TypeOK, TypeOK', NEW d \in Day, NEW i \in Ingredient,
         \A e \in DaysBefore(d) : Claim(e, i)' = Claim(e, i)
  PROVE  ClaimedBefore(d, i)' = ClaimedBefore(d, i)
<1> DEFINE f == ClaimsOf(i)
           g == ClaimsOf(i)'
           S == DaysBefore(d)
<1>1. ClaimedBefore(d, i) = SumFunctionOnSet(f, S) /\ Adds(f, S)
      BY ClaimsAddUp DEF ClaimsAdd
<1>2. ClaimedBefore(d, i)' = SumFunctionOnSet(g, S)
      BY ClaimsAddUpThen DEF ClaimsAdd, DaysBefore
<1>3. \A e \in S : f[e] = g[e]
  <2> SUFFICES ASSUME NEW e \in S PROVE f[e] = g[e]
      OBVIOUS
  <2>1. e \in Day
        BY DEF DaysBefore
  <2> QED BY <2>1 DEF ClaimsOf
<1> HIDE DEF f, g, S
<1> QED BY <1>1, <1>2, <1>3, SumSame

\* A step after which day d may still count on what it could.
Steady(d) ==
  /\ stock' = stock
  /\ \A i \in Ingredient :
       \/ ClaimedBefore(d, i)' = ClaimedBefore(d, i)
       \/ stock[i] = 0 /\ StockFree(i)

LEMMA NothingThere ==
  ASSUME NEW n \in Nat
  PROVE  AtLeastNone(0 - n) = 0
BY AtLeastNoneIs

LEMMA FreeSame ==
  ASSUME IInv, IInv', NEW d \in Day, Steady(d), NEW i \in Ingredient
  PROVE  /\ AtLeastNone(stock'[i] - ClaimedBefore(d, i)') = AtLeastNone(stock[i] - ClaimedBefore(d, i))
         /\ \A r \in Runner :
              AtLeastNone(stock'[i] + Arrived(r, i) - ClaimedBefore(d, i)')
                = AtLeastNone(stock[i] + Arrived(r, i) - ClaimedBefore(d, i))
<1>1. ClaimedBefore(d, i) \in Nat /\ ClaimedBefore(d, i)' \in Nat
      BY ClaimsAddUp, ClaimsAddUpThen DEF ClaimsAdd, IInv, Typed
<1>2. stock'[i] = stock[i]
      BY DEF Steady
<1>3. CASE ClaimedBefore(d, i)' = ClaimedBefore(d, i)
      BY <1>2, <1>3
<1>4. CASE stock[i] = 0 /\ StockFree(i)
  <2>1. \A r \in Runner : Arrived(r, i) = 0
        BY <1>4 DEF StockFree
  <2> DEFINE a == ClaimedBefore(d, i)
             b == ClaimedBefore(d, i)'
  <2>2. \A r \in Runner : /\ stock[i] + Arrived(r, i) - a = 0 - a
                          /\ stock[i] + Arrived(r, i) - b = 0 - b
    <3>1. a \in Nat /\ b \in Nat
          BY <1>1
    <3> HIDE DEF a, b
    <3> QED BY <1>4, <2>1, <3>1
  <2>3. AtLeastNone(0 - a) = 0 /\ AtLeastNone(0 - b) = 0
    <3>1. a \in Nat /\ b \in Nat
          BY <1>1
    <3> HIDE DEF a, b
    <3> QED BY <3>1, NothingThere
  <2> HIDE DEF a, b
  <2>4. /\ AtLeastNone(stock[i] - b) = AtLeastNone(stock[i] - a)
        /\ \A r \in Runner : AtLeastNone(stock[i] + Arrived(r, i) - b) = AtLeastNone(stock[i] + Arrived(r, i) - a)
        BY <1>4, <2>2, <2>3
  <2> QED BY <1>2, <2>4 DEF a, b
<1> QED BY <1>3, <1>4 DEF Steady

LEMMA StillUpToDate ==
  ASSUME IInv, IInv', NEW d \in Day, Steady(d), needs'[d] = needs[d],
         NEW r \in Runner, run'[r] = run[r], UpToDate(r, d)
  PROVE  UpToDate(r, d)'
<1>1. \A i \in Ingredient : Arrived(r, i)' = Arrived(r, i)
      BY DEF Arrived
<1>2. stock' = stock
      BY DEF Steady
<1>3. run'[r].at = "save" =>
        \A i \in Ingredient :
          AtLeastNone(run'[r].has[i]) = AtLeastNone(stock'[i] + Arrived(r, i)' - ClaimedBefore(d, i)')
      BY <1>1, FreeSame DEF UpToDate
<1>4. run'[r].at = "claims" => \A i \in Ingredient : run'[r].has[i] = stock'[i] + Arrived(r, i)'
      BY <1>1, <1>2 DEF UpToDate
<1>5. run'[r].need = needs'[d]
      BY DEF UpToDate
<1> QED BY <1>3, <1>4, <1>5 DEF UpToDate

LEMMA StillRight ==
  ASSUME IInv, IInv', NEW d \in Day, Steady(d), needs'[d] = needs[d], lines'[d] = lines[d],
         RightList(d)
  PROVE  RightList(d)'
<1> SUFFICES ASSUME NEW i \in Ingredient
             PROVE  lines'[d][i] = Shopped(needs'[d][i], stock'[i] - ClaimedBefore(d, i)',
                                           Line(d, i)'.ordered, Line(d, i)'.received)
    BY DEF RightList
<1>1. Line(d, i)' = Line(d, i)
      BY DEF Line
<1>2. Shopped(needs[d][i], stock[i] - ClaimedBefore(d, i), Line(d, i).ordered, Line(d, i).received)
        = Shopped(needs[d][i], stock'[i] - ClaimedBefore(d, i)', Line(d, i).ordered, Line(d, i).received)
      BY FreeSame, ShoppedSame
<1> QED BY <1>1, <1>2 DEF RightList

\* What a runner's step does to a day so that the day stays in good hands.
Passes(r, d) ==
  /\ RunnerAhead(r, d) => Ahead(d)'
  /\ Marks(r, d) /\ broken[d] => failed'[d] \/ Marks(r, d)'
  /\ Computing(r, d)' => Computing(r, d)
  /\ Computing(r, d)' /\ UpToDate(r, d) => UpToDate(r, d)'
  /\ OnIt(r, d) => Ahead(d)' \/ OnIt(r, d)'

LEMMA AheadSame ==
  ASSUME NEW d \in Day, d >= today', broken' = broken,
         NEW r \in Runner, run'[r] = run[r], RunnerAhead(r, d)
  PROVE  RunnerAhead(r, d)'
BY DEF RunnerAhead, Works, Unread, Counts, Retries, Reaches, AnyBroken, DayOf

LEMMA SureKept ==
  ASSUME IInv, IInv', NEW d \in Day, d >= today', Sure(d),
         broken' = broken, needs'[d] = needs[d], lines'[d] = lines[d], Steady(d),
         failed[d] => failed'[d], JobAhead(d) => Ahead(d)',
         \A r \in Runner : run'[r] = run[r] \/ Passes(r, d)
  PROVE  Sure(d)'
<1>1. \A r \in Runner : Computing(r, d)' => Computing(r, d)
      BY DEF Passes, Computing, DayOf
<1>2. CASE Ahead(d)
  <2>1. CASE \E r \in Runner : RunnerAhead(r, d)
    <3>1. PICK r \in Runner : RunnerAhead(r, d)
          BY <2>1
    <3>2. CASE run'[r] = run[r]
          BY <3>1, <3>2, AheadSame DEF Ahead, Sure
    <3>3. CASE Passes(r, d)
          BY <3>1, <3>3 DEF Passes, Sure
    <3> QED BY <3>2, <3>3
  <2> QED BY <1>2, <2>1 DEF Ahead, Sure
<1>3. CASE Stuck(d)
  <2>1. LockFree(d)'
        BY <1>1, <1>3 DEF Stuck, LockFree
  <2>2. ASSUME NEW r \in Runner, Marks(r, d)
        PROVE  failed'[d] \/ Marks(r, d)'
        BY <1>3, <2>2 DEF Passes, Marks, DayOf, Stuck
  <2> QED BY <1>3, <2>1, <2>2 DEF Stuck, Sure
<1>4. CASE InHand(d) /\ ~Ahead(d)'
  <2>1. ASSUME NEW r \in Runner, Computing(r, d)'
        PROVE  UpToDate(r, d)'
    <3>1. UpToDate(r, d)
          BY <1>1, <1>4, <2>1 DEF InHand
    <3>2. CASE run'[r] = run[r]
          BY <3>1, <3>2, StillUpToDate
    <3>3. CASE Passes(r, d)
          BY <2>1, <3>1, <3>3 DEF Passes
    <3> QED BY <3>2, <3>3
  <2>2. RightList(d) => RightList(d)'
        BY StillRight
  <2>3. ASSUME NEW r \in Runner, OnIt(r, d)
        PROVE  OnIt(r, d)'
    <3>1. CASE run'[r] = run[r]
          BY <2>3, <3>1 DEF OnIt, Works, Counts, AnyBroken, Computing, DayOf
    <3>2. CASE Passes(r, d)
          BY <1>4, <2>3, <3>2 DEF Passes
    <3> QED BY <3>1, <3>2
  <2>4. InHand(d)'
        BY <1>4, <2>1, <2>2, <2>3 DEF InHand
  <2> QED BY <2>4 DEF Sure
<1> QED BY <1>2, <1>3, <1>4 DEF Sure

-----------------------------------------------------------------------------
\* Steps of the world, and of a batch's status.

LEMMA JobComes ==
  ASSUME IInv, NEW j \in Job, jobs' = Enqueued(j), NEW d \in Day, Reaches(j, d)'
  PROVE  Ahead(d)'
<1>1. jobs'[j] > 0
  <2>1. jobs \in [Job -> Nat]
        BY DEF IInv, Typed, TypeOK
  <2> QED BY <2>1 DEF Enqueued
<1> QED BY <1>1 DEF Ahead, JobAhead

LEMMA AllComes ==
  ASSUME IInv, jobs' = Enqueued(Upcoming)
  PROVE  \A d \in UpcomingDates(today)' : Ahead(d)'
<1> SUFFICES ASSUME NEW d \in UpcomingDates(today)' PROVE Ahead(d)'
    OBVIOUS
<1>1. d \in Day /\ d >= today' /\ Upcoming \in Job
      BY DEF UpcomingDates, Job
<1> QED BY <1>1, JobComes DEF Reaches

LEMMA JobsStay ==
  ASSUME IInv, jobs' = jobs \/ \E j \in Job : jobs' = Enqueued(j),
         NEW d \in Day, d >= today', JobAhead(d)
  PROVE  Ahead(d)'
<1>1. PICK j \in Job : jobs[j] > 0 /\ Reaches(j, d)
      BY DEF JobAhead
<1>2. jobs'[j] > 0
  <2>1. jobs \in [Job -> Nat]
        BY DEF IInv, Typed, TypeOK
  <2> QED BY <1>1, <2>1 DEF Enqueued
<1>3. Reaches(j, d)'
      BY <1>1 DEF Reaches
<1> QED BY <1>2, <1>3 DEF Ahead, JobAhead

LEMMA ClaimsStay ==
  ASSUME IInv, IInv', lines' = lines, NEW d \in Day,
         \A e \in Day : e < d => (batch'[e] = "done" <=> batch[e] = "done")
  PROVE  \A i \in Ingredient : ClaimedBefore(d, i)' = ClaimedBefore(d, i)
<1> SUFFICES ASSUME NEW i \in Ingredient
             PROVE  ClaimedBefore(d, i)' = ClaimedBefore(d, i)
    OBVIOUS
<1>1. \A e \in DaysBefore(d) : Claim(e, i)' = Claim(e, i)
      BY DEF DaysBefore, Claim, Line
<1> QED BY <1>1, ClaimsSame DEF IInv, Typed

\* Days to come become fewer.
FewerToCome ==
  /\ today' \in Day /\ today' >= today
  /\ \A d \in Day : batch[d] = "done" => batch'[d] = "done"

LEMMA LaterToo ==
  ASSUME FewerToCome, IInv, NEW d \in Day, d >= today'
  PROVE  d >= today
<1>1. d \in Nat /\ today \in Nat /\ today' \in Nat /\ today' >= today
      BY KitchenAssumption DEF IInv, Typed, TypeOK, FewerToCome
<1> QED BY <1>1

LEMMA ToComeIs ==
  ASSUME AllPlanned, FewerToCome, IInv
  PROVE  UpcomingDates(today)' \subseteq UpcomingDates(today)
<1>1. ASSUME NEW d \in Day, d >= today'
      PROVE  d >= today
      BY <1>1, LaterToo
<1>2. \A d \in Day : batch'[d] \notin {"none", "done"} => batch[d] \notin {"none", "done"}
      BY DEF AllPlanned, FewerToCome
<1> QED BY <1>1, <1>2 DEF UpcomingDates

LEMMA OrderlySame ==
  ASSUME AllPlanned, FewerToCome, IInv, NEW r \in Runner, Orderly(r), run'[r] = run[r],
         failures > 0 => failures' > 0
  PROVE  Orderly(r)'
<1> SUFFICES ASSUME Works(r)'
             PROVE  /\ \A d \in run[r].todo : d >= today' => Reaches(run[r].task, d)'
                    /\ \A d \in run[r].todo, e \in UpcomingDates(today)' : e >= d => e \in run[r].todo
                    /\ run[r].again => failures' > 0
    BY DEF Orderly
<1>1. Works(r)
      BY DEF Works
<1>2. run[r].todo \subseteq Day /\ today \in Day /\ Day \subseteq Nat
      BY <1>1, RunIs, KitchenAssumption DEF IInv, Typed, TypeOK, Works
<1>3. ASSUME NEW d \in run[r].todo, d >= today'
      PROVE  Reaches(run[r].task, d)'
  <2>1. d >= today
        BY <1>2, <1>3, LaterToo
  <2>2. Reaches(run[r].task, d)
        BY <1>1, <2>1 DEF Orderly
  <2> QED BY <1>3, <2>2 DEF Reaches
<1> QED BY <1>1, <1>3, ToComeIs DEF Orderly

LEMMA NeededSame ==
  ASSUME CountsOnNeeded, lines' = lines
  PROVE  CountsOnNeeded'
BY DEF CountsOnNeeded, Line

LEMMA StillExcused ==
  ASSUME Excused, broken' = broken, failures > 0 => failures' > 0
  PROVE  Excused'
BY DEF Excused, AnyBroken

\* A step that no runner takes.
LEMMA QuietSettles ==
  ASSUME IInv, IInv', SettlesInv, FewerToCome, run' = run, lines' = lines, failures' = failures,
         \A d \in Day : batch'[d] # "none", AllSure'
  PROVE  SettlesInv'
<1>1. \A r \in Runner : Orderly(r)'
      BY OrderlySame DEF SettlesInv
<1> QED BY <1>1, NeededSame DEF SettlesInv, AllPlanned

LEMMA WorldSettles ==
  ASSUME IInv, IInv', SettlesInv, World
  PROVE  SettlesInv'
<1> DEFINE Goal == SettlesInv'
<1>0. today \in Day /\ Day \subseteq Nat
      BY KitchenAssumption DEF IInv, Typed, TypeOK
<1>1. ASSUME NEW c \in Day, NEW i \in Ingredient, NEW q \in Qty, OrdersChange(c, i, q)
      PROVE  Goal
  <2>1. /\ run' = run /\ lines' = lines /\ failures' = failures /\ batch' = batch /\ today' = today
        /\ broken' = broken /\ stock' = stock /\ failed' = failed /\ jobs' = Enqueued(From(c))
        /\ needs' = [needs EXCEPT ![c][i] = q]
        BY <1>1 DEF OrdersChange, shop
  <2>2. FewerToCome
        BY <1>0, <2>1 DEF FewerToCome
  <2>3. ASSUME NEW d \in UpcomingDates(today), Sure(d)
        PROVE  Sure(d)'
    <3>1. d \in Day /\ d >= today' /\ From(c) \in Job
          BY <2>1 DEF UpcomingDates, Job
    <3>2. CASE d >= c
      <4>1. Reaches(From(c), d)'
            BY <3>2, <2>1, <3>1 DEF Reaches, From, Upcoming
      <4> QED BY <2>1, <3>1, <4>1, JobComes DEF Sure
    <3>3. CASE ~(d >= c)
      <4>1. needs'[d] = needs[d]
        <5>1. d # c
              BY <1>0, <3>1, <3>3
        <5> QED BY <2>1, <3>1, <5>1 DEF IInv, Typed, TypeOK
      <4>2. Steady(d)
            BY <2>1, <3>1, ClaimsStay DEF Steady
      <4> QED BY <2>1, <2>3, <3>1, <4>1, <4>2, JobsStay, SureKept
    <3> QED BY <3>2, <3>3
  <2>4. AllSure'
    <3>1. UpcomingDates(today)' = UpcomingDates(today)
          BY <2>1 DEF UpcomingDates
    <3> QED BY <2>1, <2>3, <3>1, StillExcused DEF SettlesInv, AllSure
  <2> QED BY <2>1, <2>2, <2>4, QuietSettles DEF SettlesInv, AllPlanned
<1>2. ASSUME NEW c \in Day, RecipeChanges(c)
      PROVE  Goal
  <2>1. /\ run' = run /\ lines' = lines /\ failures' = failures /\ batch' = batch /\ today' = today
        /\ jobs' = Enqueued(Upcoming)
        BY <1>2 DEF RecipeChanges, shop
  <2>2. FewerToCome
        BY <1>0, <2>1 DEF FewerToCome
  <2>3. AllSure'
        BY <2>1, AllComes DEF AllSure, Sure
  <2> QED BY <2>1, <2>2, <2>3, QuietSettles DEF SettlesInv, AllPlanned
<1>3. ASSUME NEW i \in Ingredient, NEW q \in Qty, StockChanges(i, q)
      PROVE  Goal
  <2>1. /\ run' = run /\ lines' = lines /\ failures' = failures /\ batch' = batch /\ today' = today
        /\ jobs' = Enqueued(Upcoming)
        BY <1>3 DEF StockChanges
  <2>2. FewerToCome
        BY <1>0, <2>1 DEF FewerToCome
  <2>3. AllSure'
        BY <2>1, AllComes DEF AllSure, Sure
  <2> QED BY <2>1, <2>2, <2>3, QuietSettles DEF SettlesInv, AllPlanned
<1>4. CASE NextDay
  <2>1. /\ run' = run /\ lines' = lines /\ failures' = failures /\ batch' = batch
        /\ broken' = broken /\ stock' = stock /\ failed' = failed /\ jobs' = jobs /\ needs' = needs
        BY <1>4 DEF NextDay, shop
  <2>2. FewerToCome
    <3> DEFINE Later == {d \in Day : d > today}
    <3>1. Max(Day) \in Later
          BY <1>4, LastDay DEF NextDay
    <3>2. today' \in Later
          BY <1>4, <3>1, FirstDay DEF NextDay
    <3> QED BY <1>0, <2>1, <3>2 DEF FewerToCome
  <2>3. ASSUME NEW d \in UpcomingDates(today)', Sure(d)
        PROVE  Sure(d)'
    <3>1. d \in Day /\ d >= today'
          BY DEF UpcomingDates
    <3>2. Steady(d)
          BY <2>1, <3>1, ClaimsStay DEF Steady
    <3> QED BY <2>1, <2>3, <3>1, <3>2, JobsStay, SureKept
  <2>4. AllSure'
    <3>1. UpcomingDates(today)' \subseteq UpcomingDates(today)
          BY <2>2, ToComeIs DEF SettlesInv
    <3> QED BY <2>1, <2>3, <3>1, StillExcused DEF SettlesInv, AllSure
  <2> QED BY <2>1, <2>2, <2>4, QuietSettles DEF SettlesInv, AllPlanned
<1> QED BY <1>1, <1>2, <1>3, <1>4 DEF World

\* What is finished and takes nothing leaves to the others what they had.
LEMMA TakesNothing ==
  ASSUME NEW a \in Nat, NEW n \in Nat, Max({a - n, 0}) = a, n # 0
  PROVE  a = 0
<1> DEFINE c == a - n
<1>1. c \in Int /\ c < a
      OBVIOUS
<1>2. Max({c, 0}) = IF c >= 0 THEN c ELSE 0
  <2> HIDE DEF c
  <2> QED BY <1>1, MaxOfTwo
<1> HIDE DEF c
<1>3. Max({c, 0}) = a
      BY DEF c
<1> QED BY <1>1, <1>2, <1>3

LEMMA CompleteSteady ==
  ASSUME IInv, IInv', SettlesInv, NEW c \in Day, Complete(c), stock' = stock, NEW d \in Day
  PROVE  Steady(d)
<1> SUFFICES ASSUME NEW i \in Ingredient, ClaimedBefore(d, i)' # ClaimedBefore(d, i)
             PROVE  stock[i] = 0 /\ StockFree(i)
    BY DEF Steady
<1>1. /\ lines' = lines /\ batch' = [batch EXCEPT ![c] = "done"] /\ batch \in [Day -> Status]
      /\ stock' = [j \in Ingredient |-> Max({stock[j] - Line(c, j).needed, 0})]
      /\ \A j \in Ingredient : Line(c, j).needed > 0 => StockFree(j)
      BY DEF Complete, Becomes, IInv, Typed, TypeOK
<1>2. stock[i] \in Nat /\ Line(c, i).needed \in Nat /\ Line(c, i).usable \in Nat
      BY LineIs DEF IInv, Typed, TypeOK
<1>3. Line(c, i).needed # 0
  <2> SUFFICES ASSUME Line(c, i).needed = 0 PROVE FALSE
      OBVIOUS
  <2>1. Line(c, i).usable = 0
        BY <1>2 DEF SettlesInv, CountsOnNeeded
  <2>2. \A e \in DaysBefore(d) : Claim(e, i)' = Claim(e, i)
    <3> SUFFICES ASSUME NEW e \in DaysBefore(d) PROVE Claim(e, i)' = Claim(e, i)
        OBVIOUS
    <3>1. e \in Day /\ Line(e, i)' = Line(e, i)
          BY <1>1 DEF DaysBefore, Line
    <3>2. CASE e = c
          BY <1>1, <2>1, <3>1, <3>2 DEF Claim
    <3>3. CASE e # c
          BY <1>1, <3>1, <3>3 DEF Claim
    <3> QED BY <3>2, <3>3
  <2> QED BY <2>2, ClaimsSame DEF IInv, Typed
<1>4. StockFree(i)
      BY <1>1, <1>2, <1>3
<1>5. stock[i] = 0
      BY <1>1, <1>2, <1>3, TakesNothing
<1> QED BY <1>4, <1>5

LEMMA StatusSettles ==
  ASSUME IInv, IInv', SettlesInv, NEW c \in Day, LockDue(c) \/ MarkInProduction(c) \/ Complete(c)
  PROVE  SettlesInv'
<1>0. today \in Day /\ Day \subseteq Nat /\ batch \in [Day -> Status]
      BY KitchenAssumption DEF IInv, Typed, TypeOK
<1>1. /\ run' = run /\ lines' = lines /\ failures' = failures /\ today' = today
      /\ broken' = broken /\ failed' = failed /\ needs' = needs
      BY DEF LockDue, MarkInProduction, Complete
<1>2. \E s \in {"locked", "in_production", "done"} : batch' = [batch EXCEPT ![c] = s] /\ batch[c] # "done"
      BY DEF LockDue, MarkInProduction, Complete, Becomes, MayBecome
<1>3. FewerToCome /\ \A d \in Day : batch'[d] # "none"
      BY <1>0, <1>1, <1>2 DEF FewerToCome, SettlesInv, AllPlanned
<1>4. (stock' = stock /\ jobs' = jobs) \/ jobs' = Enqueued(Upcoming)
      BY DEF LockDue, MarkInProduction, Complete
<1>5. ASSUME NEW d \in Day, stock' = stock
      PROVE  Steady(d)
  <2>1. CASE Complete(c)
        BY <1>5, <2>1, CompleteSteady
  <2>2. CASE LockDue(c) \/ MarkInProduction(c)
    <3>1. \A e \in Day : batch'[e] = "done" <=> batch[e] = "done"
      <4>1. \E s \in {"locked", "in_production"} : batch' = [batch EXCEPT ![c] = s] /\ batch[c] # "done"
            BY <2>2 DEF LockDue, MarkInProduction, Becomes, MayBecome
      <4> QED BY <1>0, <4>1
    <3> QED BY <1>1, <1>5, <3>1, ClaimsStay DEF Steady
  <2> QED BY <2>1, <2>2
<1>6. ASSUME NEW d \in UpcomingDates(today)', Sure(d), stock' = stock /\ jobs' = jobs
      PROVE  Sure(d)'
  <2>1. d \in Day /\ d >= today'
        BY DEF UpcomingDates
  <2> QED BY <1>1, <1>5, <1>6, <2>1, JobsStay, SureKept
<1>7. AllSure'
  <2>1. UpcomingDates(today)' \subseteq UpcomingDates(today)
        BY <1>3, ToComeIs DEF SettlesInv
  <2>2. CASE stock' = stock /\ jobs' = jobs
        BY <1>1, <1>6, <2>1, <2>2, StillExcused DEF SettlesInv, AllSure
  <2>3. CASE jobs' = Enqueued(Upcoming)
        BY <2>3, AllComes DEF AllSure, Sure
  <2> QED BY <1>4, <2>2, <2>3
<1> QED BY <1>1, <1>3, <1>7, QuietSettles

-----------------------------------------------------------------------------
\* Steps of runners that leave the lists alone.

RunnerMoves(r) ==
  /\ \A q \in Runner \ {r} : run'[q] = run[q]
  /\ lines' = lines /\ stock' = stock /\ needs' = needs /\ broken' = broken
  /\ today' = today /\ batch' = batch
  /\ \A d \in Day : failed[d] => failed'[d]
  /\ failures' \in Nat /\ (failures > 0 => failures' > 0)

LEMMA PassesSure ==
  ASSUME IInv, IInv', NEW r \in Runner, RunnerMoves(r), NEW d \in UpcomingDates(today), Sure(d),
         JobAhead(d) => Ahead(d)', Passes(r, d)
  PROVE  Sure(d)'
<1>1. d \in Day /\ d >= today'
      BY DEF RunnerMoves, UpcomingDates
<1>2. Steady(d)
      BY <1>1, ClaimsStay DEF RunnerMoves, Steady
<1> QED BY <1>1, <1>2, SureKept DEF RunnerMoves

LEMMA RunnerSettles ==
  ASSUME IInv, IInv', SettlesInv, NEW r \in Runner, RunnerMoves(r), Orderly(r)',
         Excused' \/ \A d \in UpcomingDates(today) : Sure(d) => Sure(d)'
  PROVE  SettlesInv'
<1>1. FewerToCome
      BY KitchenAssumption DEF FewerToCome, RunnerMoves, IInv, Typed, TypeOK
<1>2. \A q \in Runner : Orderly(q)'
      BY <1>1, OrderlySame DEF RunnerMoves, SettlesInv
<1>3. UpcomingDates(today)' = UpcomingDates(today)
      BY DEF RunnerMoves, UpcomingDates
<1>4. AllSure'
      BY <1>3, StillExcused DEF RunnerMoves, SettlesInv, AllSure
<1> QED BY <1>2, <1>4, NeededSame DEF RunnerMoves, SettlesInv, AllPlanned

\* What runner r's step leaves of its task and days.
LEMMA OrderlyLess ==
  ASSUME IInv, AllPlanned, FewerToCome, today' = today, NEW r \in Runner, run[r] # Idle, Orderly(r),
         run'[r].task = run[r].task,
         run'[r].todo \in {run[r].todo, run[r].todo \ {DayOf(r)}, {}},
         run'[r].again = run[r].again \/ failures' > 0,
         failures > 0 => failures' > 0
  PROVE  Orderly(r)'
<1> SUFFICES ASSUME Works(r)'
             PROVE  /\ \A d \in run'[r].todo : d >= today' => Reaches(run[r].task, d)'
                    /\ \A d \in run'[r].todo, e \in UpcomingDates(today)' : e >= d => e \in run'[r].todo
                    /\ run'[r].again => failures' > 0
    BY DEF Orderly
<1>1. Works(r)
      BY DEF Works
<1>2. run[r].todo \subseteq Day
      BY RunIs DEF IInv
<1>3. run'[r].todo \subseteq run[r].todo
      OBVIOUS
<1>4. \A d \in run'[r].todo : d >= today' => Reaches(run[r].task, d)'
      BY <1>1, <1>3 DEF Orderly, Reaches
<1>5. ASSUME NEW d \in run'[r].todo, NEW e \in UpcomingDates(today)', e >= d
      PROVE  e \in run'[r].todo
  <2>1. e \in run[r].todo /\ d \in Day /\ e \in Day /\ d \in run[r].todo
        BY <1>1, <1>2, <1>3, <1>5, ToComeIs DEF Orderly, UpcomingDates
  <2>2. CASE run'[r].todo = run[r].todo
        BY <2>1, <2>2
  <2>3. CASE run'[r].todo = run[r].todo \ {DayOf(r)}
    <3> DEFINE m == DayOf(r)
    <3>1. m \in run[r].todo /\ m <= d /\ d # m /\ m \in Day
          BY <1>2, <1>5, <2>1, <2>3, FirstDay DEF DayOf
    <3> HIDE DEF m
    <3>2. m \in Nat /\ d \in Nat /\ e \in Nat
          BY <2>1, <3>1, KitchenAssumption
    <3>3. e # m
          BY <1>5, <3>1, <3>2
    <3> QED BY <2>1, <2>3, <3>3 DEF m
  <2> QED BY <1>5, <2>2, <2>3
<1>6. run'[r].again => failures' > 0
      BY <1>1 DEF Orderly
<1> QED BY <1>4, <1>5, <1>6

LEMMA StartSettles ==
  ASSUME IInv, IInv', SettlesInv, NEW r \in Runner, NEW j \in Job, StartJob(r, j)
  PROVE  SettlesInv'
<1> DEFINE days == IF j = Upcoming THEN UpcomingDates(today) ELSE {j.day} \cup UpcomingDates(j.day)
<1>1. /\ run[r] = Idle /\ jobs[j] > 0 /\ jobs' = [jobs EXCEPT ![j] = @ - 1]
      /\ run' = [run EXCEPT ![r] = Starts(j, days)]
      BY DEF StartJob
<1>2. RunnerMoves(r)
      BY DEF StartJob, shop, RunnerMoves, SettlesInv
<1>3. /\ run'[r].at = "next" /\ run'[r].task = j /\ run'[r].todo = days
      /\ run'[r].again = FALSE /\ run'[r].refused = FALSE /\ run'[r] # Idle
  <2>1. run'[r] = Starts(j, days)
        BY <1>1 DEF IInv, Typed
  <2> HIDE DEF days
  <2>2. /\ run'[r].at = "next" /\ run'[r].task = j /\ run'[r].todo = days
        /\ run'[r].again = FALSE /\ run'[r].refused = FALSE
        BY <2>1 DEF Starts
  <2> QED BY <2>2 DEF Idle
<1>4. /\ j # Upcoming => j.day \in Day
      /\ \A d \in days : d >= today => Reaches(j, d)
      /\ \A d \in UpcomingDates(today) : Reaches(j, d) => d \in days
      /\ \A d \in days, e \in UpcomingDates(today) : e >= d => e \in days
  <2>1. Day \subseteq Nat /\ today \in Nat
        BY KitchenAssumption DEF IInv, Typed, TypeOK
  <2>2. CASE j = Upcoming
        BY <2>1, <2>2 DEF Reaches, UpcomingDates
  <2>3. CASE j # Upcoming
    <3>1. j.day \in Day /\ j.day \in Nat
          BY <2>1, <2>3 DEF Job, From
    <3>2. days = {j.day} \cup UpcomingDates(j.day)
          BY <2>3
    <3>3. \A d \in days : d \in Nat /\ d >= j.day
          BY <2>1, <3>1, <3>2 DEF UpcomingDates
    <3>4. \A e \in UpcomingDates(today) : e \in Nat /\ (e >= j.day => e \in days)
          BY <2>1, <3>2 DEF UpcomingDates
    <3> HIDE DEF days
    <3>5. ASSUME NEW d \in days, NEW e \in UpcomingDates(today), e >= d
          PROVE  e \in days
      <4>1. d \in Nat /\ d >= j.day /\ e \in Nat
            BY <3>3, <3>4
      <4>2. e >= j.day
            BY <3>1, <3>5, <4>1
      <4> QED BY <3>4, <4>2
    <3> QED BY <2>3, <3>1, <3>3, <3>4, <3>5 DEF Reaches
  <2> QED BY <2>2, <2>3
<1> HIDE DEF days
<1>5. UpcomingDates(today)' = UpcomingDates(today)
      BY <1>2 DEF RunnerMoves, UpcomingDates
<1>6. Orderly(r)'
      BY <1>2, <1>3, <1>4, <1>5 DEF Orderly, Reaches, RunnerMoves
<1>7. ASSUME NEW d \in UpcomingDates(today), Sure(d)
      PROVE  Sure(d)'
  <2>1. ~Works(r) /\ ~Marks(r, d) /\ ~Computing(r, d)'
        BY <1>1, <1>3 DEF Works, Marks, Computing, Idle
  <2>2. Passes(r, d)
        BY <2>1 DEF Passes, RunnerAhead, OnIt
  <2>3. ASSUME JobAhead(d) PROVE Ahead(d)'
    <3>1. PICK k \in Job : jobs[k] > 0 /\ Reaches(k, d)
          BY <2>3 DEF JobAhead
    <3>2. CASE k = j
      <4>1. d \in days
            BY <1>4, <3>1, <3>2
      <4>2. RunnerAhead(r, d)'
            BY <1>3, <4>1 DEF RunnerAhead, Works, Unread, Counts
      <4> QED BY <4>2 DEF Ahead
    <3>3. CASE k # j
      <4>1. jobs'[k] > 0
            BY <1>1, <3>1, <3>3 DEF IInv, Typed, TypeOK
      <4>2. Reaches(k, d)'
            BY <1>2, <3>1 DEF Reaches, RunnerMoves
      <4> QED BY <4>1, <4>2 DEF Ahead, JobAhead
    <3> QED BY <3>2, <3>3
  <2> QED BY <1>2, <1>7, <2>2, <2>3, PassesSure
<1> QED BY <1>2, <1>6, <1>7, RunnerSettles

\* What staff ask for is not a job.
LEMMA RequestSettles ==
  ASSUME IInv, IInv', SettlesInv, NEW r \in Runner, NEW t, NEW c \in Day, Request(r, t, c), t \notin Job
  PROVE  SettlesInv'
<1>1. run[r] = Idle /\ run' = [run EXCEPT ![r] = Starts(t, {c})] /\ jobs' = jobs
      BY DEF Request
<1>2. RunnerMoves(r)
      BY DEF Request, shop, RunnerMoves, SettlesInv
<1>3. run'[r].at = "next" /\ run'[r].task = t
  <2>1. run'[r] = Starts(t, {c})
        BY <1>1 DEF IInv, Typed
  <2> QED BY <2>1 DEF Starts
<1>4. Orderly(r)'
      BY <1>3 DEF Orderly, Works
<1>5. ASSUME NEW d \in UpcomingDates(today), Sure(d)
      PROVE  Sure(d)'
  <2>1. ~Works(r) /\ ~Marks(r, d) /\ ~Computing(r, d)'
        BY <1>1, <1>3 DEF Works, Marks, Computing, Idle
  <2>2. Passes(r, d)
        BY <2>1 DEF Passes, RunnerAhead, OnIt
  <2>3. JobAhead(d) => Ahead(d)'
        BY <1>1, <1>2, JobsStay DEF RunnerMoves, UpcomingDates
  <2> QED BY <1>2, <1>5, <2>2, <2>3, PassesSure
<1> QED BY <1>2, <1>4, <1>5, RunnerSettles

LEMMA StaffSettles ==
  ASSUME IInv, IInv', SettlesInv, NEW r \in Runner, Staff(r)
  PROVE  SettlesInv'
<1>1. \A j \in Job : j.kind \in {"upcoming", "from"}
      BY DEF Job, Upcoming, From
<1>2. ASSUME NEW d \in Day, Recompute(r, d) PROVE SettlesInv'
  <2> DEFINE t == [kind |-> "recompute"]
  <2>1. t \notin Job
        BY <1>1
  <2> QED BY <1>2, <2>1, RequestSettles DEF Recompute
<1>3. ASSUME NEW d \in Day, NEW s, NEW p, Create(r, d, s, p) PROVE SettlesInv'
  <2> DEFINE t == [kind |-> "buy", supplier |-> s, purchase |-> p]
  <2>1. t.kind = "buy"
        OBVIOUS
  <2>2. t \notin Job
        BY <1>1, <2>1
  <2> QED BY <1>3, <2>2, RequestSettles DEF Create
<1>4. ASSUME NEW p \in Purchase, Waiting(p) # {}
      PROVE  purchases[p].day \in Day
      BY <1>4, WaitsIs DEF Waiting, IInv, Typed
<1>5. ASSUME NEW p \in Purchase, NEW I \in SUBSET Waiting(p), NEW got \in [I -> Qty], Receive(r, p, got)
      PROVE  SettlesInv'
  <2> DEFINE t == [kind |-> "receive", purchase |-> p, got |-> got]
  <2>1. t.kind = "receive"
        OBVIOUS
  <2>2. t \notin Job
        BY <1>1, <2>1
  <2>3. purchases[p].day \in Day
        BY <1>4, <1>5 DEF Receive
  <2> QED BY <1>5, <2>2, <2>3, RequestSettles DEF Receive
<1>6. ASSUME NEW p \in Purchase, Cancel(r, p) PROVE SettlesInv'
  <2> DEFINE t == [kind |-> "cancel", purchase |-> p]
  <2>1. t.kind = "cancel"
        OBVIOUS
  <2>2. t \notin Job
        BY <1>1, <2>1
  <2>3. purchases[p].day \in Day
        BY <1>4, <1>6 DEF Cancel, Open
  <2> QED BY <1>6, <2>2, <2>3, RequestSettles DEF Cancel
<1> QED BY <1>2, <1>3, <1>5, <1>6 DEF Staff

-----------------------------------------------------------------------------
\* A runner's steps before it saves.

\* The fields of a runner that one changes.
LEMMA FieldsAre ==
  ASSUME NEW t, NEW y \in Doing(t), NEW at, NEW todo, NEW need, NEW has, NEW again, NEW refused
  PROVE  /\ LET x == [y EXCEPT !.at = at, !.need = need]
            IN  /\ x.at = at /\ x.need = need /\ x.task = y.task /\ x.todo = y.todo
                /\ x.has = y.has /\ x.again = y.again /\ x.refused = y.refused
         /\ LET x == [y EXCEPT !.at = at, !.has = has]
            IN  /\ x.at = at /\ x.has = has /\ x.task = y.task /\ x.todo = y.todo
                /\ x.need = y.need /\ x.again = y.again /\ x.refused = y.refused
         /\ LET x == [y EXCEPT !.at = at, !.todo = todo, !.refused = refused]
            IN  /\ x.at = at /\ x.todo = todo /\ x.refused = refused /\ x.task = y.task
                /\ x.again = y.again
         /\ LET x == [y EXCEPT !.at = at, !.todo = todo]
            IN  /\ x.at = at /\ x.todo = todo /\ x.refused = y.refused /\ x.task = y.task
                /\ x.again = y.again
         /\ LET x == [y EXCEPT !.at = at, !.todo = todo, !.need = need, !.has = has]
            IN  /\ x.at = at /\ x.todo = todo /\ x.refused = y.refused /\ x.task = y.task
                /\ x.again = y.again
         /\ LET x == [y EXCEPT !.at = at, !.todo = todo, !.again = again, !.refused = refused,
                               !.need = need, !.has = has]
            IN  /\ x.at = at /\ x.todo = todo /\ x.refused = refused /\ x.task = y.task
                /\ x.again = again
<1> DEFINE N == [Ingredient -> Nat]
           Z == [Ingredient -> Int]
           D == SUBSET Day
<1>1. y \in [at : Stage, task : {t}, todo : D, need : N, has : Z, again : BOOLEAN, refused : BOOLEAN]
      BY DEF Doing
<1> HIDE DEF N, Z, D
<1> QED BY <1>1

\* A runner that is not idle shows it at every stage.
LEMMA NotIdle ==
  ASSUME NEW x, x.at \in Stage
  PROVE  x # Idle
BY DEF Stage, Idle

LEMMA LockSettles ==
  ASSUME IInv, IInv', SettlesInv, NEW r \in Runner, LockBatch(r)
  PROVE  SettlesInv'
<1> DEFINE y == run[r]
           n == needs[DayOf(r)]
           z == [y EXCEPT !.at = "stock", !.need = n]
<1>0. PICK c : c = DayOf(r)
      OBVIOUS
<1>1. /\ run[r].at = "next" /\ run[r].todo # {} /\ LockFree(c)
      /\ ~broken[c] \/ needs[c] = Nothing
      /\ run' = [run EXCEPT ![r] = IF Refused(r) THEN Idle ELSE z] /\ jobs' = jobs
      BY <1>0 DEF LockBatch
<1>2. RunnerMoves(r)
      BY DEF LockBatch, shop, RunnerMoves, IInv, Typed, SettlesInv
<1>3. run[r] # Idle /\ c \in Day /\ c \in run[r].todo /\ run[r].at \in Stage
      BY <1>0, <1>1, AtWork DEF IInv, Stage
<1>4. FewerToCome
      BY <1>2, KitchenAssumption DEF FewerToCome, RunnerMoves, IInv, Typed, TypeOK
<1>5. \A d \in UpcomingDates(today) : JobAhead(d) => Ahead(d)'
      BY <1>1, <1>2, JobsStay DEF RunnerMoves, UpcomingDates
<1>6. CASE Refused(r)
  <2>1. ~Works(r) /\ run'[r] = Idle
    <3>1. run[r].task.kind = "buy"
          BY <1>6 DEF Refused
    <3>2. \A j \in Job : j.kind \in {"upcoming", "from"}
          BY DEF Job, Upcoming, From
    <3> QED BY <1>1, <1>6, <3>1, <3>2 DEF Works, IInv, Typed
  <2>2. Orderly(r)'
        BY <2>1 DEF Orderly, Works
  <2>3. ASSUME NEW d \in UpcomingDates(today) PROVE Passes(r, d)
    <3>1. ~Marks(r, d) /\ ~Computing(r, d)'
      <4>1. run[r].at = "next" /\ run'[r].at = "idle"
            BY <1>1, <2>1, IdleIs
      <4> QED BY <4>1 DEF Marks, Computing
    <3> QED BY <2>1, <3>1 DEF Passes, RunnerAhead, OnIt
  <2> QED BY <1>2, <1>5, <2>2, <2>3, PassesSure, RunnerSettles
<1>7. CASE ~Refused(r)
  <2>1. /\ run'[r].at = "stock" /\ run'[r].need = needs[c] /\ run'[r].task = run[r].task
        /\ run'[r].todo = run[r].todo /\ run'[r].again = run[r].again
        /\ run'[r].refused = run[r].refused
    <3>1. run'[r] = z
          BY <1>1, <1>7 DEF IInv, Typed
    <3>2. y \in Doing(run[r].task)
          BY <1>3, RunIs DEF IInv
    <3> HIDE DEF y, n
    <3>3. /\ z.at = "stock" /\ z.need = n /\ z.task = y.task
          /\ z.todo = y.todo /\ z.again = y.again /\ z.refused = y.refused
          BY <3>2, FieldsAre
    <3> QED BY <1>0, <3>1, <3>3 DEF y, n
  <2>2. run'[r] # Idle /\ DayOf(r)' = c
        BY <1>0, <2>1, NotIdle DEF Stage, DayOf
  <2>3. Orderly(r)'
        BY <1>2, <1>3, <1>4, <2>1, OrderlyLess DEF SettlesInv, RunnerMoves
  <2>4. ASSUME NEW d \in UpcomingDates(today), d # c
        PROVE  Passes(r, d)
    <3>1. DayOf(r) = c
          BY <1>0
    <3>2. RunnerAhead(r, d) => RunnerAhead(r, d)'
          BY <1>2, <2>1, <2>2, <2>4, <3>1
          DEF RunnerAhead, Works, Unread, Counts, Retries, Reaches, AnyBroken, RunnerMoves
    <3>3. ~Marks(r, d) /\ ~Computing(r, d)' /\ ~Computing(r, d)
          BY <1>1, <2>2, <2>4, <3>1 DEF Marks, Computing
    <3> QED BY <3>2, <3>3 DEF Passes, Ahead, OnIt
  <2>5. ASSUME c \in UpcomingDates(today), Sure(c), ~Ahead(c)'
        PROVE  InHand(c)'
    <3>1. \A q \in Runner : ~Computing(q, c)
          BY <1>1 DEF LockFree
    <3>2. ASSUME NEW q \in Runner, Computing(q, c)' PROVE UpToDate(q, c)'
      <4>1. q = r
            BY <1>2, <3>1, <3>2 DEF RunnerMoves, Computing, DayOf
      <4>2. run'[r].need = needs'[c] /\ run'[r].at = "stock"
            BY <1>2, <2>1 DEF RunnerMoves
      <4> QED BY <4>1, <4>2 DEF UpToDate
    <3>3. CASE Ahead(c)
      <4>1. PICK q \in Runner : RunnerAhead(q, c)
            BY <1>5, <2>5, <3>3 DEF Ahead
      <4>2. ~RunnerAhead(q, c)'
            BY <2>5 DEF Ahead
      <4>3. q = r
        <5>1. c >= today' /\ broken' = broken
              BY <1>2, <2>5 DEF RunnerMoves, UpcomingDates
        <5>2. CASE run'[q] = run[q]
              BY <1>3, <4>1, <4>2, <5>1, <5>2, AheadSame
        <5> QED BY <1>2, <5>2 DEF RunnerMoves
      <4>4. Works(r) /\ Counts(r)
            BY <1>2, <2>1, <2>2, <4>1, <4>2, <4>3
            DEF RunnerAhead, Works, Retries, Reaches, RunnerMoves
      <4>5. OnIt(r, c)'
            BY <1>2, <2>1, <2>2, <4>4 DEF OnIt, Works, Counts, AnyBroken, Computing, RunnerMoves
      <4> QED BY <3>2, <4>5 DEF InHand
    <3>4. CASE Stuck(c)
          BY <1>1, <3>4 DEF Stuck
    <3>5. CASE InHand(c)
      <4>1. RightList(c)
            BY <3>1, <3>5 DEF InHand, OnIt
      <4>2. Steady(c)
            BY <1>2, <1>3, ClaimsStay DEF RunnerMoves, Steady
      <4>3. RightList(c)'
            BY <1>2, <1>3, <4>1, <4>2, StillRight DEF RunnerMoves
      <4> QED BY <3>2, <4>3 DEF InHand
    <3> QED BY <2>5, <3>3, <3>4, <3>5 DEF Sure
  <2>6. ASSUME NEW d \in UpcomingDates(today), Sure(d)
        PROVE  Sure(d)'
    <3>1. CASE d = c
          BY <2>5, <2>6, <3>1 DEF Sure
    <3>2. CASE d # c
          BY <1>2, <1>5, <2>4, <2>6, <3>2, PassesSure
    <3> QED BY <3>1, <3>2
  <2> QED BY <1>2, <2>3, <2>6, RunnerSettles
<1> QED BY <1>6, <1>7

\* While a runner has a batch in hand, only what it has read changes.
LEMMA ReadSettles ==
  ASSUME IInv, IInv', SettlesInv, NEW r \in Runner, RunnerMoves(r), jobs' = jobs,
         run[r] # Idle, run[r].at \in {"stock", "claims"}, run'[r].at \in {"claims", "save"},
         run'[r].task = run[r].task, run'[r].todo = run[r].todo, run'[r].again = run[r].again,
         run'[r].refused = run[r].refused,
         \A d \in Day : Computing(r, d) /\ UpToDate(r, d) => UpToDate(r, d)'
  PROVE  SettlesInv'
<1>1. run'[r] # Idle /\ DayOf(r)' = DayOf(r)
      BY NotIdle DEF Stage, DayOf
<1>2. FewerToCome
      BY KitchenAssumption DEF FewerToCome, RunnerMoves, IInv, Typed, TypeOK
<1>3. Orderly(r)'
      BY <1>2, OrderlyLess DEF SettlesInv, RunnerMoves
<1>4. ASSUME NEW d \in UpcomingDates(today)
      PROVE  Passes(r, d)
  <2>1. RunnerAhead(r, d) => RunnerAhead(r, d)'
        BY <1>1 DEF RunnerAhead, Works, Unread, Counts, Retries, Reaches, AnyBroken, RunnerMoves
  <2>2. Computing(r, d)' <=> Computing(r, d)
        BY <1>1 DEF Computing
  <2>3. OnIt(r, d) => OnIt(r, d)'
        BY <1>1, <2>2 DEF OnIt, Works, Counts, AnyBroken, RunnerMoves
  <2> QED BY <2>1, <2>2, <2>3 DEF Passes, Ahead, Marks, UpcomingDates
<1>5. \A d \in UpcomingDates(today) : JobAhead(d) => Ahead(d)'
      BY JobsStay DEF RunnerMoves, UpcomingDates
<1> QED BY <1>3, <1>4, <1>5, PassesSure, RunnerSettles

LEMMA ReadStockSettles ==
  ASSUME IInv, IInv', SettlesInv, NEW r \in Runner, ReadStock(r)
  PROVE  SettlesInv'
<1> DEFINE y == run[r]
           h == [i \in Ingredient |-> stock[i] + Arrived(r, i)]
           x == [y EXCEPT !.at = "claims", !.has = h]
<1>1. run[r].at = "stock" /\ run' = [run EXCEPT ![r] = x] /\ jobs' = jobs /\ DOMAIN run = Runner
      BY DEF ReadStock, IInv, Typed
<1>2. RunnerMoves(r)
  <2>1. UNCHANGED <<today, needs, broken, shop, failures>>
        BY DEF ReadStock
  <2> HIDE DEF x
  <2> QED BY <1>1, <2>1 DEF shop, RunnerMoves, SettlesInv
<1>3. run[r] # Idle
      BY <1>1, AtWork DEF IInv, Stage
<1>4. /\ run'[r].at = "claims" /\ run'[r].has = h /\ run'[r].task = run[r].task
      /\ run'[r].todo = run[r].todo /\ run'[r].again = run[r].again
      /\ run'[r].refused = run[r].refused /\ run'[r].need = run[r].need
  <2>1. run'[r] = x
        BY <1>1 DEF IInv, Typed
  <2>2. y \in Doing(run[r].task)
        BY <1>3, RunIs DEF IInv
  <2> HIDE DEF y, h
  <2>3. /\ x.at = "claims" /\ x.has = h /\ x.task = y.task /\ x.need = y.need
        /\ x.todo = y.todo /\ x.again = y.again /\ x.refused = y.refused
        BY <2>2, FieldsAre
  <2> QED BY <2>1, <2>3 DEF y
<1>5. ASSUME NEW d \in Day, UpToDate(r, d) PROVE UpToDate(r, d)'
  <2>1. \A i \in Ingredient : Arrived(r, i)' = Arrived(r, i)
        BY <1>3, <1>4, NotIdle DEF Arrived, Stage
  <2>2. \A i \in Ingredient : run'[r].has[i] = stock'[i] + Arrived(r, i)'
        BY <1>2, <1>4, <2>1 DEF RunnerMoves
  <2>3. run'[r].need = needs'[d]
        BY <1>2, <1>4, <1>5 DEF UpToDate, RunnerMoves
  <2> QED BY <1>4, <2>2, <2>3 DEF UpToDate
<1> QED BY <1>1, <1>2, <1>3, <1>4, <1>5, ReadSettles

LEMMA ReadClaimsSettles ==
  ASSUME IInv, IInv', SettlesInv, NEW r \in Runner, ReadClaims(r)
  PROVE  SettlesInv'
<1> DEFINE y == run[r]
           h == [i \in Ingredient |-> Available(r, DayOf(r), i)]
           x == [y EXCEPT !.at = "save", !.has = h]
<1>1. run[r].at = "claims" /\ run' = [run EXCEPT ![r] = x] /\ jobs' = jobs /\ DOMAIN run = Runner
      BY DEF ReadClaims, IInv, Typed
<1>2. RunnerMoves(r)
  <2>1. UNCHANGED <<today, needs, broken, shop, failures>>
        BY DEF ReadClaims
  <2> HIDE DEF x
  <2> QED BY <1>1, <2>1 DEF shop, RunnerMoves, SettlesInv
<1>3. run[r] # Idle
      BY <1>1, AtWork DEF IInv, Stage
<1>4. /\ run'[r].at = "save" /\ run'[r].has = h /\ run'[r].task = run[r].task
      /\ run'[r].todo = run[r].todo /\ run'[r].again = run[r].again
      /\ run'[r].refused = run[r].refused /\ run'[r].need = run[r].need
  <2>1. run'[r] = x
        BY <1>1 DEF IInv, Typed
  <2>2. y \in Doing(run[r].task)
        BY <1>3, RunIs DEF IInv
  <2> HIDE DEF y, h
  <2>3. /\ x.at = "save" /\ x.has = h /\ x.task = y.task /\ x.need = y.need
        /\ x.todo = y.todo /\ x.again = y.again /\ x.refused = y.refused
        BY <2>2, FieldsAre
  <2> QED BY <2>1, <2>3 DEF y
<1>5. ASSUME NEW d \in Day, Computing(r, d), UpToDate(r, d) PROVE UpToDate(r, d)'
  <2>1. \A i \in Ingredient : Arrived(r, i)' = Arrived(r, i)
        BY <1>3, <1>4, NotIdle DEF Arrived, Stage
  <2>2. \A i \in Ingredient : ClaimedBefore(d, i)' = ClaimedBefore(d, i)
        BY <1>2, ClaimsStay DEF RunnerMoves
  <2>3. DayOf(r) = d
        BY <1>5 DEF Computing
  <2>4. \A i \in Ingredient : h[i] = stock[i] + Arrived(r, i) - ClaimedBefore(d, i)
    <3>1. run[r].at = "claims"
          BY <1>1
    <3>2. \A i \in Ingredient : run[r].has[i] = stock[i] + Arrived(r, i)
          BY <1>5, <3>1 DEF UpToDate
    <3>3. \A i \in Ingredient : h[i] = run[r].has[i] - ClaimedBefore(d, i)
          BY <2>3 DEF Available
    <3>4. \A i \in Ingredient : /\ stock[i] \in Nat /\ Arrived(r, i) \in Nat
                                 /\ ClaimedBefore(d, i) \in Nat
          BY ArrivedIs, ClaimsAre DEF IInv, Typed, TypeOK
    <3> HIDE DEF h
    <3> QED BY <3>2, <3>3, <3>4
  <2> HIDE DEF h
  <2>5. \A i \in Ingredient :
          AtLeastNone(run'[r].has[i]) = AtLeastNone(stock'[i] + Arrived(r, i)' - ClaimedBefore(d, i)')
        BY <1>2, <1>4, <2>1, <2>2, <2>4 DEF RunnerMoves
  <2>6. run'[r].need = needs'[d]
        BY <1>2, <1>4, <1>5 DEF UpToDate, RunnerMoves
  <2> QED BY <1>4, <2>5, <2>6 DEF UpToDate
<1> QED BY <1>1, <1>2, <1>3, <1>4, <1>5, ReadSettles

LEMMA RecipeSettles ==
  ASSUME IInv, IInv', SettlesInv, NEW r \in Runner, RecipeFails(r)
  PROVE  SettlesInv'
<1> DEFINE y == run[r]
           bought == run[r].task.kind \in {"buy", "receive", "cancel"}
           at == IF bought THEN "next" ELSE "mark"
           todo == IF bought THEN {} ELSE run[r].todo
           x == [y EXCEPT !.at = at, !.todo = todo, !.refused = TRUE]
<1>0. PICK c : c = DayOf(r)
      OBVIOUS
<1>1. /\ run[r].at = "next" /\ run[r].todo # {} /\ LockFree(c) /\ broken[c] /\ needs[c] # Nothing
      /\ run' = [run EXCEPT ![r] = x] /\ jobs' = jobs /\ DOMAIN run = Runner
      BY <1>0 DEF RecipeFails, IInv, Typed
<1>2. RunnerMoves(r) /\ failures' = failures
  <2>1. UNCHANGED <<today, needs, broken, shop, failures>>
        BY DEF RecipeFails
  <2> HIDE DEF x
  <2> QED BY <1>1, <2>1 DEF shop, RunnerMoves, SettlesInv
<1>3. run[r] # Idle /\ c \in Day /\ c \in run[r].todo
      BY <1>0, <1>1, AtWork DEF IInv, Stage
<1>4. /\ run'[r].at = at /\ run'[r].todo = todo /\ run'[r].refused = TRUE
      /\ run'[r].task = run[r].task /\ run'[r].again = run[r].again
  <2>1. run'[r] = x
        BY <1>1
  <2>2. y \in Doing(run[r].task)
        BY <1>3, RunIs DEF IInv
  <2> HIDE DEF y, at, todo
  <2>3. /\ x.at = at /\ x.todo = todo /\ x.refused = TRUE /\ x.task = y.task /\ x.again = y.again
        BY <2>2, FieldsAre
  <2> QED BY <2>1, <2>3 DEF y
<1>5. run[r].at = "next" /\ todo \in {run[r].todo, {}} /\ at \in {"next", "mark"}
      BY <1>1
<1>6. FewerToCome
      BY <1>2, KitchenAssumption DEF FewerToCome, RunnerMoves, IInv, Typed, TypeOK
<1>7. Orderly(r)'
  <2> HIDE DEF todo, at
  <2> QED BY <1>2, <1>3, <1>4, <1>5, <1>6, OrderlyLess DEF SettlesInv, RunnerMoves
<1>8. CASE failures > 0
  <2>1. Excused'
        BY <1>1, <1>2, <1>3, <1>8 DEF Excused, AnyBroken, RunnerMoves
  <2> QED BY <1>2, <1>7, <2>1, RunnerSettles
<1>9. CASE ~(failures > 0)
  <2>1. ~Computing(r, c)' /\ \A d : ~Computing(r, d)' /\ ~Computing(r, d) /\ ~Marks(r, d)
    <3> HIDE DEF at, todo
    <3> QED BY <1>4, <1>5 DEF Computing, Marks
  <2>2. ASSUME NEW d \in UpcomingDates(today), bought \/ d # c
        PROVE  Passes(r, d)
    <3>1. RunnerAhead(r, d) => RunnerAhead(r, d)'
      <4> SUFFICES ASSUME RunnerAhead(r, d) PROVE RunnerAhead(r, d)'
          OBVIOUS
      <4>1. Works(r) /\ ~bought
        <5>1. \A j \in Job : j.kind \in {"upcoming", "from"}
              BY DEF Job, Upcoming, From
        <5> QED BY <5>1 DEF RunnerAhead, Works
      <4>2. ~run[r].again
            BY <1>9, <4>1 DEF SettlesInv, Orderly
      <4>3. d \in run[r].todo /\ d # c
            BY <2>2, <4>1, <4>2 DEF RunnerAhead, Retries, Unread
      <4>4. run'[r].todo = run[r].todo /\ run'[r].at = "mark"
            BY <1>4, <4>1
      <4>5. Works(r)' /\ DayOf(r)' = c
            BY <1>0, <1>4, <4>1, <4>4, NotIdle DEF Works, DayOf, Stage
      <4>6. Counts(r)'
            BY <1>1, <1>2, <1>3 DEF Counts, AnyBroken, RunnerMoves
      <4> QED BY <4>3, <4>4, <4>5, <4>6 DEF RunnerAhead, Unread
    <3> QED BY <2>1, <3>1 DEF Passes, Ahead, OnIt
  <2>3. ASSUME ~bought PROVE Stuck(c)'
    <3>1. Marks(r, c)'
      <4>1. run'[r].at = "mark" /\ run'[r].todo = run[r].todo
            BY <1>4, <2>3
      <4> QED BY <1>0, <4>1 DEF Marks, DayOf
    <3>2. ASSUME NEW q \in Runner PROVE ~Computing(q, c)'
      <4>1. CASE q = r
            BY <2>1, <4>1
      <4>2. CASE q # r
        <5>1. run'[q] = run[q]
              BY <1>2, <4>2 DEF RunnerMoves
        <5>2. ~Computing(q, c)
              BY <1>1 DEF LockFree
        <5> QED BY <5>1, <5>2 DEF Computing, DayOf
      <4> QED BY <4>1, <4>2
    <3>3. LockFree(c)'
          BY <3>2 DEF LockFree
    <3>4. broken'[c] /\ needs'[c] # Nothing
          BY <1>1, <1>2 DEF RunnerMoves
    <3> QED BY <3>1, <3>3, <3>4 DEF Stuck
  <2>4. ASSUME NEW d \in UpcomingDates(today), Sure(d)
        PROVE  Sure(d)'
    <3>1. JobAhead(d) => Ahead(d)'
          BY <1>1, <1>2, JobsStay DEF RunnerMoves, UpcomingDates
    <3>2. CASE bought \/ d # c
          BY <1>2, <2>2, <2>4, <3>1, <3>2, PassesSure
    <3>3. CASE ~bought /\ d = c
          BY <2>3, <3>3 DEF Sure
    <3> QED BY <3>2, <3>3
  <2> QED BY <1>2, <1>7, <2>4, RunnerSettles
<1> QED BY <1>8, <1>9

LEMMA MarkSettles ==
  ASSUME IInv, IInv', SettlesInv, NEW r \in Runner, MarkFailed(r)
  PROVE  SettlesInv'
<1> DEFINE y == run[r]
           todo == y.todo \ {DayOf(r)}
           x == [y EXCEPT !.at = "next", !.todo = todo]
<1>0. PICK c : c = DayOf(r)
      OBVIOUS
<1>1. /\ run[r].at = "mark" /\ run' = [run EXCEPT ![r] = x]
      /\ jobs' = jobs /\ DOMAIN run = Runner
      BY DEF MarkFailed, IInv, Typed
<1>2. run[r] # Idle /\ c \in Day /\ c \in run[r].todo
      BY <1>0, <1>1, AtWork DEF IInv, Stage
<1>3. RunnerMoves(r) /\ failed'[c]
  <2>1. UNCHANGED <<today, needs, broken, lines, purchases, stock, failures>>
        BY DEF MarkFailed
  <2>2. batch' = batch
    <3>1. /\ batch' = [batch EXCEPT ![c] = IF @ = "none" THEN "open" ELSE @] /\ batch[c] # "none"
          /\ batch \in [Day -> Status]
          BY <1>0, <1>2 DEF MarkFailed, SettlesInv, AllPlanned, IInv, Typed, TypeOK
    <3> QED BY <1>2, <3>1
  <2>3. failed' = [failed EXCEPT ![c] = TRUE] /\ failed \in [Day -> BOOLEAN]
        BY <1>0 DEF MarkFailed, IInv, Typed, TypeOK
  <2>4. failed'[c] /\ \A d \in Day : failed[d] => failed'[d]
        BY <1>2, <2>3
  <2> HIDE DEF x
  <2> QED BY <1>1, <2>1, <2>2, <2>4 DEF RunnerMoves, SettlesInv
<1>4. /\ run'[r].at = "next" /\ run'[r].todo = run[r].todo \ {c} /\ run'[r].refused = run[r].refused
      /\ run'[r].task = run[r].task /\ run'[r].again = run[r].again
  <2>1. run'[r] = x
        BY <1>1
  <2>2. y \in Doing(run[r].task)
        BY <1>2, RunIs DEF IInv
  <2>3. todo = run[r].todo \ {c}
        BY <1>0
  <2> HIDE DEF y, todo
  <2>4. /\ x.at = "next" /\ x.todo = todo /\ x.refused = y.refused /\ x.task = y.task
        /\ x.again = y.again
        BY <2>2, FieldsAre
  <2> QED BY <2>1, <2>3, <2>4 DEF y
<1>5. FewerToCome
      BY <1>3, KitchenAssumption DEF FewerToCome, RunnerMoves, IInv, Typed, TypeOK
<1>6. Orderly(r)'
      BY <1>0, <1>2, <1>3, <1>4, <1>5, OrderlyLess DEF SettlesInv, RunnerMoves
<1>7. ASSUME NEW d \in UpcomingDates(today), Sure(d)
      PROVE  Sure(d)'
  <2>1. RunnerAhead(r, d) => RunnerAhead(r, d)'
    <3>1. run'[r] # Idle
          BY <1>4, NotIdle DEF Stage
    <3> QED BY <1>0, <1>1, <1>3, <1>4, <3>1
        DEF RunnerAhead, Works, Unread, Counts, Retries, Reaches, AnyBroken, RunnerMoves
  <2>2. ~Computing(r, d)' /\ ~Computing(r, d)
    <3>1. run[r].at = "mark" /\ run'[r].at = "next"
          BY <1>1, <1>4
    <3> QED BY <3>1 DEF Computing
  <2>3. Marks(r, d) => failed'[d]
        BY <1>0, <1>3 DEF Marks
  <2>4. Passes(r, d)
        BY <2>1, <2>2, <2>3 DEF Passes, Ahead, OnIt
  <2>5. JobAhead(d) => Ahead(d)'
        BY <1>1, <1>3, JobsStay DEF RunnerMoves, UpcomingDates
  <2> QED BY <1>3, <1>7, <2>4, <2>5, PassesSure
<1> QED BY <1>3, <1>6, <1>7, RunnerSettles

\* What a runner gives up is tried again, or it is not the failure's fault.
LEMMA FailSettles ==
  ASSUME IInv, IInv', SettlesInv, NEW r \in Runner, Fail(r)
  PROVE  SettlesInv'
<1> DEFINE y == run[r]
<1>0. PICK c : c = DayOf(r)
      OBVIOUS
<1>1. /\ run[r].at # "idle" /\ run[r].todo # {} /\ DOMAIN run = Runner
      /\ jobs' = jobs /\ failures' = failures + 1
      /\ UNCHANGED <<today, needs, broken, shop>>
      /\ GivesUp(r, run[r].todo \ {c}, run[r].refused) \/ GivesUp(r, {}, FALSE)
      BY <1>0 DEF Fail, IInv, Typed
<1>2. run[r] # Idle
      BY <1>1, IdleIs DEF Busy
<1>3. PICK todo \in {run[r].todo \ {c}, {}}, refused \in {run[r].refused, FALSE} : GivesUp(r, todo, refused)
      BY <1>1
<1> DEFINE x == [y EXCEPT !.at = "next", !.todo = todo, !.again = TRUE,
                          !.refused = refused, !.need = Nothing, !.has = Nothing]
<1>4. run' = [run EXCEPT ![r] = x]
      BY <1>3 DEF GivesUp, IInv, Typed
<1>5. /\ run'[r].at = "next" /\ run'[r].todo = todo /\ run'[r].again = TRUE
      /\ run'[r].refused = refused /\ run'[r].task = run[r].task
  <2>1. run'[r] = x
        BY <1>1, <1>4
  <2>2. y \in Doing(run[r].task)
        BY <1>2, RunIs DEF IInv
  <2> DEFINE n == Nothing
  <2> HIDE DEF y, n
  <2>3. \A a : a = [y EXCEPT !.at = "next", !.todo = todo, !.again = TRUE,
                             !.refused = refused, !.need = n, !.has = n] =>
           /\ a.at = "next" /\ a.todo = todo /\ a.again = TRUE /\ a.refused = refused
           /\ a.task = y.task
        BY <2>2, FieldsAre
  <2> QED BY <2>1, <2>3 DEF y, n
<1>6. RunnerMoves(r) /\ failures' > 0
  <2>1. failures' > 0 /\ failures' \in Nat
    <3>1. failures \in Nat
          BY DEF SettlesInv
    <3> QED BY <1>1, <3>1
  <2> HIDE DEF x
  <2> QED BY <1>1, <1>4, <2>1 DEF shop, RunnerMoves
<1>7. FewerToCome
      BY <1>6, KitchenAssumption DEF FewerToCome, RunnerMoves, IInv, Typed, TypeOK
<1>8. Orderly(r)'
      BY <1>0, <1>2, <1>3, <1>5, <1>6, <1>7, OrderlyLess DEF SettlesInv, RunnerMoves
<1>9. CASE AnyBroken
  <2>1. Excused'
        BY <1>6, <1>9 DEF Excused, AnyBroken, RunnerMoves
  <2> QED BY <1>6, <1>8, <2>1, RunnerSettles
<1>10. CASE ~AnyBroken
  <2>1. ASSUME NEW d \in UpcomingDates(today), Sure(d)
        PROVE  Sure(d)'
    <3>1. d \in Day /\ d >= today
          BY DEF UpcomingDates
    <3>2. ASSUME Works(r), ~run[r].refused, d \in run[r].todo \/ Retries(r, d)
          PROVE  RunnerAhead(r, d)'
      <4>1. Reaches(run[r].task, d)
            BY <3>1, <3>2 DEF SettlesInv, Orderly, Retries
      <4>2. Works(r)' /\ ~run'[r].refused
        <5>1. run'[r] # Idle
              BY <1>5, NotIdle DEF Stage
        <5>2. refused = FALSE \/ refused = run[r].refused
              OBVIOUS
        <5> QED BY <1>5, <3>2, <5>1, <5>2 DEF Works
      <4> QED BY <1>5, <1>6, <4>1, <4>2 DEF RunnerAhead, Retries, Reaches, RunnerMoves
    <3>3. RunnerAhead(r, d) => Ahead(d)'
          BY <1>10, <3>2 DEF RunnerAhead, Counts, Unread, Retries, Ahead
    <3>4. ~Computing(r, d)'
          BY <1>5 DEF Computing
    <3>5. OnIt(r, d) => Ahead(d)'
      <4> SUFFICES ASSUME OnIt(r, d) PROVE Ahead(d)'
          OBVIOUS
      <4>1. d \in run[r].todo
        <5>1. run[r].at \in Stage /\ run[r].at # "next" /\ DayOf(r) = d
              BY DEF OnIt, Computing, Stage
        <5> QED BY <5>1, AtWork DEF IInv
      <4> QED BY <1>10, <3>2, <4>1 DEF OnIt, Counts, Ahead
    <3>6. ~broken[d]
          BY <1>10, <3>1 DEF AnyBroken
    <3>7. Passes(r, d)
          BY <3>3, <3>4, <3>5, <3>6 DEF Passes
    <3>8. JobAhead(d) => Ahead(d)'
          BY <1>1, <1>6, JobsStay DEF RunnerMoves, UpcomingDates
    <3> QED BY <1>6, <2>1, <3>7, <3>8, PassesSure
  <2> QED BY <1>6, <1>8, <2>1, RunnerSettles
<1> QED BY <1>9, <1>10

LEMMA FinishSettles ==
  ASSUME IInv, IInv', SettlesInv, NEW r \in Runner, Finish(r)
  PROVE  SettlesInv'
<1>1. /\ run[r].at = "next" /\ run[r].todo = {} /\ run' = [run EXCEPT ![r] = Idle]
      /\ DOMAIN run = Runner
      /\ jobs' = IF run[r].task \in Job /\ run[r].again /\ ~run[r].refused
                 THEN Enqueued(run[r].task) ELSE jobs
      BY DEF Finish, IInv, Typed
<1>2. RunnerMoves(r)
      BY <1>1 DEF Finish, shop, RunnerMoves, SettlesInv
<1>3. run'[r] = Idle /\ run'[r].at = "idle"
      BY <1>1, IdleIs
<1>4. Orderly(r)'
      BY <1>3 DEF Orderly, Works
<1>5. ASSUME NEW d \in UpcomingDates(today), Sure(d)
      PROVE  Sure(d)'
  <2>1. d \in Day /\ d >= today'
        BY <1>2 DEF RunnerMoves, UpcomingDates
  <2>2. RunnerAhead(r, d) => Ahead(d)'
    <3> SUFFICES ASSUME RunnerAhead(r, d) PROVE Ahead(d)'
        OBVIOUS
    <3>1. run[r].task \in Job /\ run[r].again /\ ~run[r].refused /\ Reaches(run[r].task, d)
          BY <1>1 DEF RunnerAhead, Works, Unread, Retries
    <3>2. Reaches(run[r].task, d) => (today' = today => IF run[r].task = Upcoming THEN d >= today' ELSE d >= run[r].task.day)
          BY DEF Reaches
    <3>3. PICK j \in Job : j = run[r].task
          BY <3>1
    <3>4. Reaches(j, d)'
          BY <1>2, <3>1, <3>2, <3>3 DEF Reaches, RunnerMoves
    <3> QED BY <1>1, <2>1, <3>1, <3>3, <3>4, JobComes
  <2>3. ~Computing(r, d)' /\ ~Computing(r, d) /\ ~Marks(r, d)
        BY <1>1, <1>3 DEF Computing, Marks
  <2>4. Passes(r, d)
        BY <2>2, <2>3 DEF Passes, OnIt
  <2>5. JobAhead(d) => Ahead(d)'
        BY <1>1, <2>1, JobsStay
  <2> QED BY <1>2, <1>5, <2>4, <2>5, PassesSure
<1> QED BY <1>2, <1>4, <1>5, RunnerSettles

-----------------------------------------------------------------------------
\* A runner saves.

\* What runner r, which has day c in hand, saves, apart from the day's list.
Saves(r, c) ==
  /\ c \in Day /\ c \in run[r].todo /\ run[r] # Idle /\ run[r].at = "save" /\ DayOf(r) = c
  /\ run'[r].at = "next" /\ run'[r].todo = run[r].todo \ {c} /\ run'[r] # Idle
  /\ run'[r].task = run[r].task /\ run'[r].again = run[r].again /\ run'[r].refused = run[r].refused
  /\ \A q \in Runner \ {r} : run'[q] = run[q] /\ ~Computing(q, c)
  /\ needs' = needs /\ broken' = broken /\ today' = today /\ failures' = failures /\ batch' = batch
  /\ \A d \in Day \ {c} : failed'[d] = failed[d] /\ lines'[d] = lines[d]
  /\ \/ jobs' = jobs /\ stock' = stock /\ \A i \in Ingredient : Arrived(r, i) = 0
     \/ jobs' = Enqueued(Upcoming)

LEMMA SavesIt ==
  ASSUME IInv, SettlesInv, NEW r \in Runner, SaveResult(r), NEW c, c = DayOf(r)
  PROVE  Saves(r, c)
<1> DEFINE y == run[r]
           todo == y.todo \ {DayOf(r)}
           n == Nothing
           x == [y EXCEPT !.at = "next", !.todo = todo, !.need = n, !.has = n]
<1>1. c \in Day /\ c \in run[r].todo /\ run[r] # Idle /\ run[r].at = "save"
      BY SaveIs DEF SaveResult
<1>2. run' = [run EXCEPT ![r] = x] /\ DOMAIN run = Runner
      BY DEF SaveResult, IInv, Typed
<1>3. /\ run'[r].at = "next" /\ run'[r].todo = run[r].todo \ {c}
      /\ run'[r].task = run[r].task /\ run'[r].again = run[r].again /\ run'[r].refused = run[r].refused
  <2>1. run'[r] = x
        BY <1>2
  <2>2. y \in Doing(run[r].task)
        BY <1>1, RunIs DEF IInv
  <2>3. todo = run[r].todo \ {c}
        OBVIOUS
  <2> HIDE DEF y, todo, n
  <2>4. /\ x.at = "next" /\ x.todo = todo /\ x.refused = y.refused /\ x.task = y.task
        /\ x.again = y.again
        BY <2>2, FieldsAre
  <2> QED BY <2>1, <2>3, <2>4 DEF y
<1>4. run'[r] # Idle
      BY <1>3, NotIdle DEF Stage
<1>5. \A q \in Runner \ {r} : run'[q] = run[q]
  <2> HIDE DEF x
  <2> QED BY <1>2
<1>6. \A q \in Runner \ {r} : ~Computing(q, c)
      BY <1>1 DEF IInv, Typed, TypeOK
<1>7. batch' = batch
  <2>1. /\ batch' = [batch EXCEPT ![c] = IF @ = "none" THEN "open" ELSE @] /\ batch[c] # "none"
        /\ batch \in [Day -> Status]
        BY <1>1 DEF SaveResult, SettlesInv, AllPlanned, IInv, Typed, TypeOK
  <2> QED BY <1>1, <2>1
<1>8. \A d \in Day \ {c} : failed'[d] = failed[d] /\ lines'[d] = lines[d]
  <2>1. failed' = [failed EXCEPT ![c] = FALSE] /\ failed \in [Day -> BOOLEAN]
        BY DEF SaveResult, IInv, Typed, TypeOK
  <2>2. \A d \in Day \ {c} : failed'[d] = failed[d]
        BY <2>1
  <2> QED BY <2>2, SavedLines
<1>9. \/ jobs' = jobs /\ stock' = stock /\ \A i \in Ingredient : Arrived(r, i) = 0
      \/ jobs' = Enqueued(Upcoming)
  <2>1. jobs' = (IF stock' = stock THEN jobs ELSE Enqueued(Upcoming))
        BY DEF SaveResult
  <2>2. stock' = [i \in Ingredient |-> stock[i] + Arrived(r, i)]
        BY DEF SaveResult
  <2>3. ASSUME stock' = stock, NEW i \in Ingredient
        PROVE  Arrived(r, i) = 0
    <3>1. stock[i] + Arrived(r, i) = stock[i]
          BY <2>2, <2>3
    <3>2. stock[i] \in Nat /\ Arrived(r, i) \in Nat
          BY ArrivedIs DEF IInv, Typed, TypeOK
    <3> QED BY <3>1, <3>2
  <2> QED BY <2>1, <2>3
<1>10. needs' = needs /\ broken' = broken /\ today' = today /\ failures' = failures
      BY DEF SaveResult
<1> QED BY <1>1, <1>3, <1>4, <1>5, <1>6, <1>7, <1>8, <1>9, <1>10 DEF Saves

LEMMA SavesList ==
  ASSUME IInv, NEW r \in Runner, SaveResult(r), NEW c, c = DayOf(r), NEW i \in Ingredient
  PROVE  \E ordered \in Int, received \in Nat :
           lines'[c][i] = Shopped(run[r].need[i], run[r].has[i], ordered, received)
<1> DEFINE ordered == Line(c, i).ordered + Ordered(r, i)
           received == Line(c, i).received + Arrived(r, i)
<1>1. ordered \in Int /\ received \in Nat
      BY SaveIs, LineIs, SavedPurchases, ArrivedIs DEF IInv, Typed
<1>2. c \in Day /\ lines \in [Day -> [Ingredient -> LineType \cup {NoLine}]]
      BY SaveIs DEF IInv, Typed, TypeOK
<1>3. lines'[c] = [j \in Ingredient |-> Shopped(run[r].need[j], run[r].has[j],
                                                Line(c, j).ordered + Ordered(r, j),
                                                Line(c, j).received + Arrived(r, j))]
      BY <1>2 DEF SaveResult
<1>4. lines'[c][i] = Shopped(run[r].need[i], run[r].has[i], ordered, received)
      BY <1>3
<1> HIDE DEF ordered, received
<1> QED BY <1>1, <1>4

\* What the list of the saved day says then.
LEMMA SavedUsable ==
  ASSUME IInv, IInv', NEW r \in Runner, SaveResult(r), NEW c, c = DayOf(r), NEW i \in Ingredient
  PROVE  LET h == AtLeastNone(run[r].has[i])
             need == run[r].need[i]
         IN  /\ Line(c, i)'.usable = (IF h <= need THEN h ELSE need)
             /\ Line(c, i)'.usable <= Line(c, i)'.needed
             /\ \A has \in Int : AtLeastNone(has) = h =>
                  lines'[c][i] = Shopped(need, has, Line(c, i)'.ordered, Line(c, i)'.received)
<1> DEFINE need == run[r].need[i]
           has == run[r].has[i]
           line == lines'[c][i]
<1>1. need \in Nat /\ has \in Int
      BY SaveIs
<1>2. PICK ordered \in Int, received \in Nat : line = Shopped(need, has, ordered, received)
      BY SavesList
<1>3. Line(c, i)' = Read(line)
      BY DEF Line, Read
<1> HIDE DEF need, has, line
<1>4. LET l == Read(line)
          h == AtLeastNone(has)
      IN  /\ l.usable = (IF h <= need THEN h ELSE need)
          /\ l.usable <= l.needed
          /\ line = NoLine => \A x \in Int : Shopped(need, x, l.ordered, l.received) = NoLine
          /\ line # NoLine => l.ordered = ordered /\ l.received = received
      BY <1>1, <1>2, ReadIs
<1>5. ASSUME NEW x \in Int, AtLeastNone(x) = AtLeastNone(has)
      PROVE  line = Shopped(need, x, Read(line).ordered, Read(line).received)
  <2>1. line = Shopped(need, x, ordered, received)
        BY <1>2, <1>5, ShoppedSame
  <2> QED BY <1>4, <2>1
<1> QED BY <1>3, <1>4, <1>5 DEF need, has, line

\* A day after one that waits for its turn waits too.
LEMMA AheadAfter ==
  ASSUME IInv, SettlesInv, NEW c \in Day, c >= today, NEW d \in UpcomingDates(today), d > c, Ahead(c)
  PROVE  Ahead(d)
<1>0. d \in Day /\ d \in Nat /\ c \in Nat /\ today \in Nat /\ Day \subseteq Nat
      BY KitchenAssumption DEF UpcomingDates, IInv, Typed, TypeOK
<1>1. ASSUME NEW j \in Job, Reaches(j, c)
      PROVE  Reaches(j, d)
  <2>1. j # Upcoming => j.day \in Nat
        BY <1>0 DEF Job, From
  <2> QED BY <1>0, <1>1, <2>1 DEF Reaches
<1>2. CASE JobAhead(c)
      BY <1>1, <1>2 DEF JobAhead, Ahead
<1>3. ASSUME NEW q \in Runner, RunnerAhead(q, c)
      PROVE  RunnerAhead(q, d)
  <2>1. CASE Retries(q, c)
        BY <1>1, <1>3, <2>1 DEF RunnerAhead, Works, Retries
  <2>2. CASE Unread(q, c) /\ Counts(q)
    <3>1. Works(q) /\ c \in run[q].todo
          BY <1>3, <2>2 DEF RunnerAhead, Unread
    <3>2. d \in run[q].todo
          BY <1>0, <3>1 DEF SettlesInv, Orderly
    <3>3. DayOf(q) # d
      <4> DEFINE m == Min(run[q].todo)
      <4>1. run[q].todo \subseteq Day /\ run[q].todo # {}
            BY <3>1, RunIs DEF IInv, Works
      <4>2. m \in Day /\ m <= c
            BY <3>1, <4>1, FirstDay
      <4> HIDE DEF m
      <4>3. m # d
            BY <1>0, <4>2
      <4> QED BY <4>3 DEF m, DayOf
    <3> QED BY <2>2, <3>1, <3>2, <3>3 DEF RunnerAhead, Unread
  <2> QED BY <1>3, <2>1, <2>2 DEF RunnerAhead
<1> QED BY <1>2, <1>3 DEF Ahead

\* Another day keeps what it could count on, or waits for its turn.
LEMMA SaveLeaves ==
  ASSUME IInv, IInv', SettlesInv, InTime, NEW r \in Runner, SaveResult(r), NEW c, Saves(r, c),
         stock' = stock, \A i \in Ingredient : Arrived(r, i) = 0,
         c \in UpcomingDates(today) => Sure(c),
         NEW d \in UpcomingDates(today), d # c
  PROVE  Steady(d) \/ Ahead(d) \/ RunnerAhead(r, d)'
<1>0. /\ d \in Day /\ c \in Day /\ d \in Nat /\ c \in Nat /\ today \in Nat /\ Day \subseteq Nat
      /\ c = DayOf(r) /\ batch \in [Day -> Status]
      BY KitchenAssumption DEF UpcomingDates, Saves, IInv, Typed, TypeOK
<1>1. ASSUME NEW i \in Ingredient, d > c => Claim(c, i)' = Claim(c, i)
      PROVE  ClaimedBefore(d, i)' = ClaimedBefore(d, i)
  <2>1. ASSUME NEW e \in DaysBefore(d)
        PROVE  Claim(e, i)' = Claim(e, i)
    <3>1. e \in Day /\ e \in Nat /\ e < d
          BY <1>0 DEF DaysBefore
    <3>2. CASE e = c
          BY <1>0, <1>1, <3>1, <3>2
    <3>3. CASE e # c
      <4>1. lines'[e] = lines[e] /\ batch' = batch
            BY <3>1, <3>3 DEF Saves
      <4> QED BY <4>1 DEF Claim, Line
    <3> QED BY <3>2, <3>3
  <2> QED BY <1>0, <2>1, ClaimsSame DEF IInv, Typed
<1>2. (\A i \in Ingredient : d > c => Claim(c, i)' = Claim(c, i)) => Steady(d)
      BY <1>1 DEF Steady
<1>3. CASE ~(d > c)
      BY <1>2, <1>3
<1>4. CASE c \notin UpcomingDates(today)
  <2>1. batch[c] = "done"
    <3>1. c < today \/ batch[c] \in {"none", "done"}
          BY <1>0, <1>4 DEF UpcomingDates
    <3>2. batch[c] \in {"none", "done"}
          BY <1>0, <3>1 DEF InTime
    <3> QED BY <1>0, <3>2 DEF SettlesInv, AllPlanned
  <2>2. batch'[c] = "done"
        BY <2>1 DEF Saves
  <2>3. \A i \in Ingredient : Claim(c, i)' = Claim(c, i)
        BY <2>1, <2>2 DEF Claim
  <2> QED BY <1>2, <2>3
<1>5. CASE c \in UpcomingDates(today) /\ d > c
  <2>1. c >= today
        BY <1>5 DEF UpcomingDates
  <2>2. CASE Ahead(c)
        BY <1>0, <1>5, <2>1, <2>2, AheadAfter
  <2>3. Computing(r, c)
        BY DEF Saves, Computing
  <2>4. ~Stuck(c)
        BY <2>3 DEF Stuck, LockFree
  <2>5. CASE InHand(c) /\ ~RightList(c)
    <3>1. OnIt(r, c)
      <4>1. PICK q \in Runner : OnIt(q, c)
            BY <2>5 DEF InHand
      <4>2. q = r
            BY <4>1 DEF Saves, OnIt
      <4> QED BY <4>1, <4>2
    <3>2. Works(r) /\ d \in run[r].todo
          BY <1>0, <1>5, <3>1 DEF OnIt, SettlesInv, Orderly, Saves
    <3>3. Works(r)' /\ Counts(r)'
          BY <3>1, <3>2 DEF OnIt, Works, Counts, AnyBroken, Saves
    <3>4. RunnerAhead(r, d)'
          BY <1>0, <3>2, <3>3 DEF RunnerAhead, Unread, Saves
    <3> QED BY <3>4
  <2>6. CASE InHand(c) /\ RightList(c)
    <3>1. UpToDate(r, c)
          BY <2>3, <2>6 DEF InHand
    <3>2. ASSUME NEW i \in Ingredient
          PROVE  Line(c, i)'.usable = Line(c, i).usable
      <4> DEFINE need == needs[c][i]
                 free == stock[i] - ClaimedBefore(c, i)
                 line == lines[c][i]
                 ordered == Line(c, i).ordered
                 received == Line(c, i).received
                 has == run[r].has[i]
      <4>1. AtLeastNone(has) = AtLeastNone(free)
        <5>1. run[r].at = "save"
              BY DEF Saves
        <5>2. AtLeastNone(has) = AtLeastNone(stock[i] + Arrived(r, i) - ClaimedBefore(c, i))
              BY <3>1, <5>1 DEF UpToDate
        <5>3. stock[i] + Arrived(r, i) - ClaimedBefore(c, i) = free
          <6> DEFINE a == stock[i]
                     k == ClaimedBefore(c, i)
          <6>1. a \in Nat /\ k \in Nat
                BY <1>0, ClaimsAre DEF IInv, Typed, TypeOK
          <6> HIDE DEF a, k
          <6>2. a + 0 - k = a - k
                BY <6>1
          <6> QED BY <6>2 DEF a, k
        <5> QED BY <5>2, <5>3
      <4>2. run[r].need[i] = need
            BY <3>1 DEF UpToDate
      <4>3. Line(c, i)'.usable = IF AtLeastNone(has) <= need THEN AtLeastNone(has) ELSE need
            BY <1>0, <4>2, SavedUsable
      <4>4. need \in Nat /\ free \in Int /\ ordered \in Int /\ received \in Nat
        <5>1. needs \in [Day -> [Ingredient -> Qty]] /\ stock[i] \in Nat /\ ClaimedBefore(c, i) \in Nat
              BY <1>0, ClaimsAre DEF IInv, Typed, TypeOK
        <5>2. need \in Nat
              BY <1>0, <5>1, KitchenAssumption DEF Qty
        <5> QED BY <1>0, <5>1, <5>2, LineIs DEF IInv, Typed
      <4>5. line = Shopped(need, free, ordered, received) /\ Line(c, i) = Read(line)
            BY <2>6 DEF RightList, Line, Read
      <4> HIDE DEF need, free, ordered, received, line, has
      <4>6. Read(line).usable = IF AtLeastNone(free) <= need THEN AtLeastNone(free) ELSE need
            BY <4>4, <4>5, ReadIs
      <4> QED BY <4>1, <4>3, <4>5, <4>6
    <3>3. \A i \in Ingredient : Claim(c, i)' = Claim(c, i)
          BY <3>2 DEF Claim, Saves
    <3> QED BY <1>2, <3>3
  <2> QED BY <1>5, <2>2, <2>4, <2>5, <2>6 DEF Sure
<1> QED BY <1>3, <1>4, <1>5

\* The day itself is right then, or waits for its turn again.
LEMMA SaveRights ==
  ASSUME IInv, IInv', SettlesInv, NEW r \in Runner, SaveResult(r), NEW c, Saves(r, c),
         jobs' = jobs, stock' = stock, \A i \in Ingredient : Arrived(r, i) = 0,
         c \in UpcomingDates(today), Sure(c)
  PROVE  Sure(c)'
<1>0. c \in Day /\ c >= today /\ c = DayOf(r) /\ today' = today /\ broken' = broken
      BY DEF UpcomingDates, Saves
<1>1. Computing(r, c)
      BY DEF Saves, Computing
<1>2. ASSUME NEW q \in Runner PROVE ~Computing(q, c)'
  <2>1. CASE q = r
        BY <2>1 DEF Saves, Computing
  <2>2. CASE q # r
        BY <2>2 DEF Saves, Computing, DayOf
  <2> QED BY <2>1, <2>2
<1>3. CASE UpToDate(r, c)
  <2>1. ASSUME NEW i \in Ingredient
        PROVE  lines'[c][i] = Shopped(needs'[c][i], stock'[i] - ClaimedBefore(c, i)',
                                      Line(c, i)'.ordered, Line(c, i)'.received)
    <3> DEFINE free == stock[i] - ClaimedBefore(c, i)
    <3>1. ClaimedBefore(c, i)' = ClaimedBefore(c, i)
      <4>1. ASSUME NEW e \in DaysBefore(c) PROVE Claim(e, i)' = Claim(e, i)
        <5>1. e \in Day /\ e # c
          <6>1. e \in Day /\ e < c /\ e \in Nat /\ c \in Nat
                BY <1>0, KitchenAssumption DEF DaysBefore
          <6> QED BY <6>1
        <5>2. lines'[e] = lines[e] /\ batch' = batch
              BY <5>1 DEF Saves
        <5> QED BY <5>2 DEF Claim, Line
      <4> QED BY <1>0, <4>1, ClaimsSame DEF IInv, Typed
    <3>2. free \in Int /\ stock[i] + 0 - ClaimedBefore(c, i) = free
      <4> DEFINE a == stock[i]
                 k == ClaimedBefore(c, i)
      <4>1. a \in Nat /\ k \in Nat
            BY <1>0, ClaimsAre DEF IInv, Typed, TypeOK
      <4> HIDE DEF a, k
      <4>2. a - k \in Int /\ a + 0 - k = a - k
            BY <4>1
      <4> QED BY <4>2 DEF a, k
    <3>3. AtLeastNone(free) = AtLeastNone(run[r].has[i])
      <4>1. run[r].at = "save"
            BY DEF Saves
      <4>2. AtLeastNone(run[r].has[i]) = AtLeastNone(stock[i] + Arrived(r, i) - ClaimedBefore(c, i))
            BY <1>3, <4>1 DEF UpToDate
      <4> QED BY <3>2, <4>2
    <3>4. run[r].need[i] = needs'[c][i]
          BY <1>3 DEF UpToDate, Saves
    <3>5. lines'[c][i] = Shopped(run[r].need[i], free, Line(c, i)'.ordered, Line(c, i)'.received)
      <4> HIDE DEF free
      <4> QED BY <1>0, <3>2, <3>3, SavedUsable
    <3> QED BY <3>1, <3>4, <3>5
  <2>2. InHand(c)'
        BY <1>2, <2>1 DEF InHand, RightList
  <2> QED BY <2>2 DEF Sure
<1>4. CASE ~UpToDate(r, c)
  <2>1. Ahead(c)
        BY <1>1, <1>4 DEF Sure, Stuck, LockFree, InHand
  <2>2. CASE JobAhead(c)
        BY <1>0, <2>2, JobsStay DEF Sure
  <2>3. ASSUME NEW q \in Runner, RunnerAhead(q, c)
        PROVE  RunnerAhead(q, c)'
    <3>1. CASE q # r
          BY <1>0, <2>3, <3>1, AheadSame DEF Saves
    <3>2. CASE q = r
      <4>1. Works(r) /\ Retries(r, c)
            BY <2>3, <3>2 DEF RunnerAhead, Unread, Saves
      <4>2. Works(r)' /\ Retries(r, c)'
            BY <4>1 DEF Works, Retries, Reaches, Saves
      <4> QED BY <3>2, <4>2 DEF RunnerAhead
    <3> QED BY <3>1, <3>2
  <2> QED BY <2>1, <2>2, <2>3 DEF Ahead, Sure
<1> QED BY <1>3, <1>4

LEMMA SaveSettles ==
  ASSUME IInv, IInv', SettlesInv, InTime, NEW r \in Runner, SaveResult(r)
  PROVE  SettlesInv'
<1>0. PICK c : c = DayOf(r)
      OBVIOUS
<1>1. Saves(r, c)
      BY <1>0, SavesIt
<1>2. FewerToCome
      BY <1>1, KitchenAssumption DEF FewerToCome, Saves, IInv, Typed, TypeOK
<1>3. ASSUME NEW q \in Runner PROVE Orderly(q)'
  <2>1. CASE q = r
        BY <1>0, <1>1, <1>2, <2>1, OrderlyLess DEF SettlesInv, Saves
  <2>2. CASE q # r
        BY <1>1, <1>2, <2>2, OrderlySame DEF SettlesInv, Saves
  <2> QED BY <2>1, <2>2
<1>4. CountsOnNeeded'
  <2> SUFFICES ASSUME NEW d \in Day, NEW i \in Ingredient
               PROVE  Line(d, i)'.usable <= Line(d, i)'.needed
      BY DEF CountsOnNeeded
  <2>1. CASE d = c
        BY <1>0, <2>1, SavedUsable
  <2>2. CASE d # c
    <3>1. Line(d, i)' = Line(d, i)
          BY <1>1, <2>2 DEF Saves, Line
    <3> QED BY <3>1 DEF SettlesInv, CountsOnNeeded
  <2> QED BY <2>1, <2>2
<1>5. UpcomingDates(today)' = UpcomingDates(today)
      BY <1>1 DEF Saves, UpcomingDates
<1>6. CASE jobs' = jobs /\ stock' = stock /\ \A i \in Ingredient : Arrived(r, i) = 0
  <2>1. ASSUME \A e \in UpcomingDates(today) : Sure(e), NEW d \in UpcomingDates(today)
        PROVE  Sure(d)'
    <3>0. d \in Day /\ d >= today'
          BY <1>1 DEF UpcomingDates, Saves
    <3>1. CASE d = c
          BY <1>1, <1>6, <2>1, <3>1, SaveRights
    <3>2. CASE d # c
      <4>1. DayOf(r) = c /\ run[r].at = "save" /\ run'[r].at = "next"
            BY <1>1 DEF Saves
      <4>2. RunnerAhead(r, d) => RunnerAhead(r, d)'
            BY <1>1, <3>2 DEF RunnerAhead, Works, Unread, Counts, Retries, Reaches, AnyBroken, Saves
      <4>3. JobAhead(d) => Ahead(d)'
            BY <1>6, <3>0, JobsStay
      <4>4. CASE Ahead(d)
        <5>1. ASSUME NEW q \in Runner, RunnerAhead(q, d)
              PROVE  RunnerAhead(q, d)'
          <6>1. CASE q # r
                BY <1>1, <3>0, <5>1, <6>1, AheadSame DEF Saves
          <6> QED BY <4>2, <5>1, <6>1
        <5> QED BY <4>3, <4>4, <5>1 DEF Ahead, Sure
      <4>5. CASE RunnerAhead(r, d)'
            BY <4>5 DEF Ahead, Sure
      <4>6. CASE Steady(d)
        <5>1. Passes(r, d)
              BY <3>2, <4>1, <4>2 DEF Passes, Ahead, Marks, Computing, OnIt
        <5>2. \A q \in Runner : run'[q] = run[q] \/ Passes(q, d)
              BY <1>1, <5>1 DEF Saves
        <5>3. broken' = broken /\ needs'[d] = needs[d] /\ lines'[d] = lines[d] /\ failed'[d] = failed[d]
              BY <1>1, <3>0, <3>2 DEF Saves
        <5> QED BY <2>1, <3>0, <4>3, <4>6, <5>2, <5>3, SureKept
      <4> QED BY <1>1, <1>6, <2>1, <3>2, <4>4, <4>5, <4>6, SaveLeaves
    <3> QED BY <3>1, <3>2
  <2>2. AllSure'
        BY <1>1, <1>5, <2>1, StillExcused DEF Saves, SettlesInv, AllSure
  <2> QED BY <1>1, <1>3, <1>4, <2>2 DEF Saves, SettlesInv, AllPlanned
<1>7. CASE jobs' = Enqueued(Upcoming)
  <2>1. AllSure'
        BY <1>7, AllComes DEF AllSure, Sure
  <2> QED BY <1>1, <1>3, <1>4, <2>1 DEF Saves, SettlesInv, AllPlanned
<1> QED BY <1>1, <1>6, <1>7 DEF Saves

-----------------------------------------------------------------------------
\* Together.

\* At the start nothing is needed, there or on a list.
LEMMA InitSettles ==
  ASSUME Init, AllPlanned
  PROVE  SettlesInv
<1>1. failures \in Nat
      BY KitchenAssumption DEF Init
<1>2. \A r \in Runner : run[r] = Idle /\ run[r].at = "idle"
      BY IdleIs DEF Init
<1>3. \A r \in Runner : Orderly(r)
      BY <1>2 DEF Orderly, Works
<1>4. \A d \in Day, i \in Ingredient : lines[d][i] = NoLine /\ needs[d][i] = 0
      BY DEF Init, Nothing
<1>5. \A d \in Day, i \in Ingredient :
        /\ Line(d, i).needed = 0 /\ Line(d, i).usable = 0
        /\ Line(d, i).ordered = 0 /\ Line(d, i).received = 0
      BY <1>4 DEF Line
<1>6. CountsOnNeeded
      BY <1>5 DEF CountsOnNeeded
<1>7. ASSUME NEW d \in Day
      PROVE  Sure(d)
  <2>1. \A has : Shopped(0, has, 0, 0) = NoLine
        BY DEF Shopped
  <2>2. RightList(d)
        BY <1>4, <1>5, <2>1 DEF RightList
  <2>3. \A r \in Runner : ~Computing(r, d)
        BY <1>2 DEF Computing
  <2> QED BY <2>2, <2>3 DEF Sure, InHand
<1> QED BY <1>1, <1>3, <1>6, <1>7 DEF SettlesInv, AllSure, UpcomingDates

LEMMA StutterSettles ==
  ASSUME IInv, IInv', SettlesInv, UNCHANGED vars
  PROVE  SettlesInv'
<1>1. /\ run' = run /\ lines' = lines /\ failures' = failures /\ today' = today /\ batch' = batch
      /\ broken' = broken /\ failed' = failed /\ needs' = needs /\ stock' = stock /\ jobs' = jobs
      BY DEF vars, shop
<1>2. FewerToCome
      BY <1>1, KitchenAssumption DEF FewerToCome, IInv, Typed, TypeOK
<1>3. ASSUME NEW d \in UpcomingDates(today), Sure(d)
      PROVE  Sure(d)'
  <2>1. d \in Day /\ d >= today'
        BY <1>1 DEF UpcomingDates
  <2>2. Steady(d)
        BY <1>1, <2>1, ClaimsStay DEF Steady
  <2> QED BY <1>1, <1>3, <2>1, <2>2, JobsStay, SureKept
<1>4. AllSure'
  <2>1. UpcomingDates(today)' = UpcomingDates(today)
        BY <1>1 DEF UpcomingDates
  <2> QED BY <1>1, <1>3, <2>1, StillExcused DEF SettlesInv, AllSure
<1> QED BY <1>1, <1>2, <1>4, QuietSettles DEF SettlesInv, AllPlanned

LEMMA NextSettles ==
  ASSUME IInv, IInv', SettlesInv, InTime, [Next]_vars
  PROVE  SettlesInv'
<1>1. ASSUME NEW r \in Runner, Worker(r)
      PROVE  SettlesInv'
  <2>1. CASE \E j \in Job : StartJob(r, j)
        BY <2>1, StartSettles
  <2>2. CASE LockBatch(r) \/ ReadStock(r) \/ ReadClaims(r) \/ SaveResult(r)
        BY <2>2, LockSettles, ReadStockSettles, ReadClaimsSettles, SaveSettles
  <2>3. CASE RecipeFails(r) \/ MarkFailed(r) \/ Fail(r) \/ Finish(r)
        BY <2>3, RecipeSettles, MarkSettles, FailSettles, FinishSettles
  <2> QED BY <1>1, <2>1, <2>2, <2>3 DEF Worker
<1> QED BY <1>1, StaffSettles, WorldSettles, StatusSettles, StutterSettles DEF Next

\* Where nobody is computing and no job waits, a list that is sure is right.
LEMMA QuietIsRight ==
  ASSUME SettlesInv, Quiet, ~Excused, NEW d \in UpcomingDates(today)
  PROVE  failed[d] \/ RightList(d)
<1>1. Sure(d)
      BY DEF SettlesInv, AllSure
<1>2. \A r \in Runner : ~Works(r) /\ ~Marks(r, d)
      BY IdleIs DEF Quiet, Works, Marks, Busy
<1>3. ~Ahead(d)
      BY <1>2 DEF Quiet, Ahead, JobAhead, RunnerAhead
<1>4. Stuck(d) => failed[d]
      BY <1>2 DEF Stuck
<1>5. InHand(d) => RightList(d)
      BY <1>2 DEF InHand, OnIt
<1> QED BY <1>1, <1>3, <1>4, <1>5 DEF Sure

\* A right list counts on nothing that an earlier one counts on.
LEMMA CountsOnTheRest ==
  ASSUME IInv, NEW d \in Day, NEW e \in Day, d < e, batch[d] # "done", RightList(e),
         NEW i \in Ingredient, Line(e, i).usable > 0
  PROVE  Line(d, i).usable + Line(e, i).usable <= stock[i]
<1> DEFINE f == ClaimsOf(i)
           S == DaysBefore(e)
           rest == SumFunctionOnSet(f, S \ {d})
           claimed == ClaimedBefore(e, i)
           need == needs[e][i]
           free == stock[i] - claimed
           line == lines[e][i]
           ordered == Line(e, i).ordered
           received == Line(e, i).received
           first == Line(d, i).usable
           second == Line(e, i).usable
<1>1. claimed = SumFunctionOnSet(f, S) /\ claimed \in Nat /\ Adds(f, S)
      BY ClaimsAddUp DEF ClaimsAdd, IInv, Typed
<1>2. stock[i] \in Nat /\ need \in Nat /\ ordered \in Int /\ received \in Nat /\ first \in Nat /\ second \in Nat
  <2>1. needs \in [Day -> [Ingredient -> Qty]] /\ TypeOK
        BY DEF IInv, Typed, TypeOK
  <2>2. need \in Nat
        BY <2>1, KitchenAssumption DEF Qty
  <2> QED BY <2>1, <2>2, LineIs DEF TypeOK
<1>3. d \in S /\ f[d] = first
      BY DEF DaysBefore, ClaimsOf, Claim
<1>4. \A x \in S : f[x] \in Nat
      BY LineIs DEF DaysBefore, ClaimsOf, Claim, IInv, Typed
<1>5. line = Shopped(need, free, ordered, received) /\ Line(e, i) = Read(line)
      BY DEF RightList, Line, Read
<1>6. second > 0
      OBVIOUS
<1>7. second = Read(line).usable
      BY <1>5
<1>8. claimed = first + rest /\ rest \in Nat
  <2> HIDE DEF f, S, claimed, first
  <2>1. claimed = f[d] + rest
        BY <1>1, <1>3, SumTake
  <2>2. IsFiniteSet(S \ {d})
        BY <1>1, FS_Subset DEF Adds
  <2>3. rest \in Nat
        BY <1>4, <2>2, SumPositive
  <2> QED BY <1>3, <2>1, <2>3
<1>9. free \in Int
  <2> HIDE DEF claimed
  <2> QED BY <1>1, <1>2
<1>10. second <= AtLeastNone(free)
  <2> HIDE DEF need, free, line, ordered, received, second
  <2>1. Read(line).usable = IF AtLeastNone(free) <= need THEN AtLeastNone(free) ELSE need
        BY <1>2, <1>5, <1>9, ReadIs
  <2>2. AtLeastNone(free) \in Nat
        BY <1>9, AtLeastNoneIs
  <2> QED BY <1>2, <1>7, <2>1, <2>2
<1>11. second <= free
  <2> HIDE DEF free, second
  <2> QED BY <1>2, <1>6, <1>9, <1>10, AtLeastNoneIs
<1>12. free = stock[i] - (first + rest)
      BY <1>8
<1> HIDE DEF free, first, second, rest, claimed
<1>13. first + second <= stock[i]
      BY <1>2, <1>8, <1>9, <1>11, <1>12
<1> QED BY <1>13 DEF first, second

\* In every state a list that is not right is still to be computed, where
\* every day has its batch and is finished before it is over: by a job that
\* waits, a runner that has the day ahead of it or will be retried, or one that
\* has read what is true.
THEOREM ListsAreSure == AllPlanned /\ Spec /\ []InTime => []SettlesInv
<1>1. Init /\ AllPlanned => SettlesInv
      BY InitSettles
<1>2. IInv /\ IInv' /\ SettlesInv /\ InTime /\ [Next]_vars => SettlesInv'
      BY NextSettles
<1> QED BY <1>1, <1>2, Invariance, PTL DEF Spec

\* All lists from today on are then right when all jobs are done, for any
\* number of ingredients, days and runners: no change of orders, recipes or
\* stock is missed, in whatever order jobs run, fail and are retried beside
\* purchases (Subscriptions, RecomputeFrom).
THEOREM AlwaysSettled == AllPlanned /\ Spec /\ []InTime => []Settled
<1>1. SettlesInv => Settled
  <2> SUFFICES ASSUME SettlesInv, Quiet, failures > 0 => \A d \in Day : ~broken[d],
                      NEW d \in UpcomingDates(today)
               PROVE  failed[d] \/ RightList(d)
      BY DEF Settled, RightList
  <2> QED BY QuietIsRight DEF Excused, AnyBroken
<1> QED BY <1>1, ListsAreSure, PTL

\* "No gram counts twice" (available) where every day has its batch and is
\* finished before it is over, but for failures beside a broken recipe.
THEOREM GramsCountOnce == AllPlanned /\ Spec /\ []InTime => [](Excused \/ NoGramTwice)
<1>1. ASSUME IInv, SettlesInv, ~Excused
      PROVE  NoGramTwice
  <2> SUFFICES ASSUME Quiet, \A d \in Day : ~failed[d],
                      NEW d \in UpcomingDates(today), NEW e \in UpcomingDates(today), NEW i \in Ingredient,
                      d # e, Line(d, i).usable > 0, Line(e, i).usable > 0
               PROVE  Line(d, i).usable + Line(e, i).usable <= stock[i]
      BY DEF NoGramTwice
  <2>1. /\ d \in Day /\ e \in Day /\ d \in Nat /\ e \in Nat
        /\ batch[d] # "done" /\ batch[e] # "done"
        BY KitchenAssumption DEF UpcomingDates
  <2>2. RightList(d) /\ RightList(e)
        BY <1>1, <2>1, QuietIsRight
  <2>3. CASE d < e
        BY <1>1, <2>1, <2>2, <2>3, CountsOnTheRest
  <2>4. CASE e < d
    <3> DEFINE first == Line(e, i).usable
               second == Line(d, i).usable
    <3>1. first + second <= stock[i]
          BY <1>1, <2>1, <2>2, <2>4, CountsOnTheRest
    <3>2. first \in Nat /\ second \in Nat
          BY <1>1, <2>1, LineIs DEF IInv, Typed
    <3> HIDE DEF first, second
    <3>3. second + first <= stock[i]
          BY <3>1, <3>2
    <3> QED BY <3>3 DEF first, second
  <2> QED BY <2>1, <2>3, <2>4
<1> QED BY <1>1, ListsAreSure, Invariance, PTL

=============================================================================
