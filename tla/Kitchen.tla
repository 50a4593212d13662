------------------------------- MODULE Kitchen -------------------------------
(***************************************************************************)
(* The kitchen's shopping lists (package aggregation) and what is bought   *)
(* from them (package procurement).                                        *)
(*                                                                         *)
(* Every day that cakes are made is a batch with a list: of each           *)
(* ingredient what the orders need, what of the stock the batch counts on, *)
(* what is on order and what is left to buy.  Orders, recipes and the      *)
(* stock change; a job of the worker then computes the batch and those     *)
(* after it again, each in a transaction of its own, while others do the   *)
(* same and staff buy, receive and finish batches.                         *)
(***************************************************************************)
EXTENDS Integers, FiniteSetsExt, Functions

CONSTANTS
  Day,          \* by number
  Ingredient,
  Supplier,     \* of each ingredient, its default pack's
  Pack,         \* of each ingredient, the size of its default pack
  Purchase,     \* orders to suppliers
  Runner,       \* the worker's goroutines and staff's requests
  Beginning,    \* the batches and purchases there may be at the start, and failures
  MaxQty,       \* bound: of a need, the stock or a delivery
  MaxChanges,   \* bound: how often orders, recipes, stock and days change
  MaxFailures,  \* bound: how often a computation fails; its job is retried more often
  Breakable     \* whether recipes break

Status == {"none", "open", "locked", "in_production", "done"}

\* An order to a supplier: how much of each ingredient, and what came of it.
Item == [qty : Nat, status : {"ordered", "received", "cancelled"}, got : Nat]
NoPurchase == [day |-> -1]
IsPurchase(b) == DOMAIN b.items \subseteq Ingredient /\ b \in [day : Day, items : [DOMAIN b.items -> Item]]

\* Nothing is on order at the start: no list counts on it yet.
ASSUME KitchenAssumption ==
  /\ Day \subseteq Nat /\ IsFiniteSet(Day) /\ Day # {}
  /\ DOMAIN Supplier = Ingredient /\ Pack \in [Ingredient -> Nat \ {0}]
  /\ IsFiniteSet(Purchase)
  /\ \A b \in Beginning :
       /\ b.batch \in [Day -> Status] /\ b.failures \in Nat
       /\ DOMAIN b.purchases = Purchase
       /\ \A p \in Purchase : b.purchases[p] # NoPurchase =>
            /\ IsPurchase(b.purchases[p])
            /\ \A i \in DOMAIN b.purchases[p].items : b.purchases[p].items[i].status # "ordered"
  /\ MaxQty \in Nat /\ MaxChanges \in Nat /\ MaxFailures \in Nat /\ Breakable \in BOOLEAN

VARIABLES
  today,
  needs,      \* of each ingredient, what the orders of a day that count need
  broken,     \* the recipe of the day cannot be evaluated
  stock,      \* of each ingredient
  batch,      \* the status of the day's batch, "none" without one
  failed,     \* the batch shows that its last computation failed
  lines,      \* the batch's shopping list
  purchases,
  jobs,       \* how many of each kind wait
  run,        \* what each runner is doing
  changes, failures

shop == <<batch, failed, lines, purchases, stock>>
vars == <<today, needs, broken, shop, jobs, run, changes, failures>>

Qty == 0 .. MaxQty
Nothing == [i \in Ingredient |-> 0]
NoLine == [needed |-> -1]

Upcoming == [kind |-> "upcoming"]
From(d) == [kind |-> "from", day |-> d]
Job == {Upcoming} \cup {From(d) : d \in Day}

\* A runner that does nothing.
Idle == [at |-> "idle"]

\* A runner that starts task t, on some days.
Starts(t, days) ==
  [at |-> "next", task |-> t, todo |-> days, need |-> Nothing, has |-> Nothing,
   again |-> FALSE, refused |-> FALSE]

Init ==
  /\ today = Min(Day)
  /\ needs = [d \in Day |-> Nothing]
  /\ broken = [d \in Day |-> FALSE]
  /\ stock = Nothing
  /\ \E b \in Beginning : batch = b.batch /\ purchases = b.purchases /\ failures = b.failures
  /\ failed = [d \in Day |-> FALSE]
  /\ lines = [d \in Day |-> [i \in Ingredient |-> NoLine]]
  /\ jobs = [j \in Job |-> 0]
  /\ run = [r \in Runner |-> Idle]
  /\ changes = 0

-----------------------------------------------------------------------------
\* What the world does.

\* What runner r's task brings into the stock.
Arrived(r, i) ==
  IF run[r] # Idle /\ run[r].task.kind = "receive" /\ i \in DOMAIN run[r].task.got THEN run[r].task.got[i] ELSE 0

\* No delivery in progress holds the ingredient's row (module Stock).
StockFree(i) == \A r \in Runner : Arrived(r, i) = 0

Enqueued(j) == [jobs EXCEPT ![j] = @ + 1]

Changes == changes < MaxChanges /\ changes' = changes + 1

\* Orders of the day are confirmed or cancelled.
OrdersChange(d, i, q) ==
  /\ Changes /\ needs[d][i] # q
  /\ needs' = [needs EXCEPT ![d][i] = q]
  /\ jobs' = Enqueued(From(d))
  /\ UNCHANGED <<today, broken, shop, run, failures>>

\* A recipe is saved; it may be one that cannot be evaluated for the day.
RecipeChanges(d) ==
  /\ Changes /\ Breakable
  /\ broken' = [broken EXCEPT ![d] = ~@]
  /\ jobs' = Enqueued(Upcoming)
  /\ UNCHANGED <<today, needs, shop, run, failures>>

\* A delivery, a count, or something is thrown away (module Stock).
StockChanges(i, q) ==
  /\ Changes /\ stock[i] # q /\ StockFree(i)
  /\ stock' = [stock EXCEPT ![i] = q]
  /\ jobs' = Enqueued(Upcoming)
  /\ UNCHANGED <<today, needs, broken, batch, failed, lines, purchases, run, failures>>

NextDay ==
  /\ Changes /\ today < Max(Day)
  /\ today' = Min({d \in Day : d > today})
  /\ UNCHANGED <<needs, broken, shop, jobs, run, failures>>

-----------------------------------------------------------------------------
\* The list of a day.

\* Runner r computes the batch of its first day.
DayOf(r) == Min(run[r].todo)
Computing(r, d) == run[r].at \in {"stock", "claims", "save"} /\ DayOf(r) = d

\* Fault: computations do not wait for each other.
LockFree_Always(d) == TRUE

\* Nobody holds the batch's row.
LockFree(d) == \A r \in Runner : ~Computing(r, d)

\* The dates whose batch is still to be made, from day d on.
UpcomingDates(d) == {e \in Day : e >= d /\ batch[e] \notin {"none", "done"}}

Line(d, i) == IF lines[d][i] = NoLine
              THEN [needed |-> 0, usable |-> 0, ordered |-> 0, received |-> 0, toBuy |-> 0]
              ELSE lines[d][i]

\* What the batches before day d count on.
ClaimedBefore(d, i) ==
  SumFunctionOnSet([e \in Day |-> Line(e, i).usable], {e \in Day : e < d /\ batch[e] # "done"})

\* Fault: what is on order is left to buy.
ToBuy_Ordered(need, usable, ordered) == Max({need - usable, 0})

ToBuy(need, usable, ordered) == Max({need - usable - ordered, 0})

\* The new line, after procurement's changes.
Shopped(need, has, ordered, received) ==
  IF need = 0 /\ ordered <= 0 /\ received <= 0 THEN NoLine
  ELSE LET usable == Min({Max({has, 0}), need})
       IN  [needed |-> need, usable |-> usable, ordered |-> ordered, received |-> received,
            toBuy |-> ToBuy(need, usable, ordered)]

-----------------------------------------------------------------------------
\* Purchases.

RoundedUp(q, size) == ((q + size - 1) \div size) * size

\* What an order to supplier s brings onto the list of day d.
Items(d, s) ==
  [i \in {j \in Ingredient : Supplier[j] = s /\ Line(d, j).toBuy > 0} |->
     [qty |-> RoundedUp(Line(d, i).toBuy, Pack[i]), status |-> "ordered", got |-> 0]]

Waiting(p) ==
  IF purchases[p] = NoPurchase THEN {}
  ELSE {i \in DOMAIN purchases[p].items : purchases[p].items[i].status = "ordered"}

\* A purchase is open while one of its items waits (closeIfDone).
Open(p) == Waiting(p) # {}

\* A runner has the purchase's row.
Held(p) ==
  \E r \in Runner : run[r].at # "idle" /\ run[r].task.kind \in {"receive", "cancel"} /\ run[r].task.purchase = p

\* Fault: what came is taken off the order, not what was ordered.
Taken_Arrived(r, i) ==
  IF run[r].task.kind = "cancel" THEN purchases[run[r].task.purchase].items[i].qty ELSE Arrived(r, i)

\* How much of an item no longer waits when it is received or cancelled.
Taken(r, i) == purchases[run[r].task.purchase].items[i].qty

\* How runner r's task changes what is on order.
Ordered(r, i) ==
  LET t == run[r].task
      d == DayOf(r)
  IN  CASE t.kind = "buy" /\ i \in DOMAIN Items(d, t.supplier) -> Items(d, t.supplier)[i].qty
        [] t.kind = "receive" /\ i \in DOMAIN t.got -> -Taken(r, i)
        [] t.kind = "cancel" /\ i \in Waiting(t.purchase) -> -Taken(r, i)
        [] OTHER -> 0

\* The purchases after runner r's task.
Closed(r) ==
  LET t == run[r].task
      Then(p, i) ==
        IF t.kind = "receive" /\ i \in DOMAIN t.got
        THEN [purchases[p].items[i] EXCEPT !.status = "received", !.got = t.got[i]]
        ELSE IF t.kind = "cancel" /\ i \in Waiting(p)
        THEN [purchases[p].items[i] EXCEPT !.status = "cancelled"]
        ELSE purchases[p].items[i]
  IN  CASE t.kind = "buy" ->
             [purchases EXCEPT ![t.purchase] = [day |-> DayOf(r), items |-> Items(DayOf(r), t.supplier)]]
        [] t.kind \in {"receive", "cancel"} ->
             [purchases EXCEPT ![t.purchase].items =
                [i \in DOMAIN purchases[t.purchase].items |-> Then(t.purchase, i)]]
        [] OTHER -> purchases

-----------------------------------------------------------------------------
\* Runners.

\* The worker starts a job.  A list of dates is read once.
StartJob(r, j) ==
  /\ run[r] = Idle /\ jobs[j] > 0
  /\ jobs' = [jobs EXCEPT ![j] = @ - 1]
  /\ run' = [run EXCEPT ![r] = Starts(j, IF j = Upcoming THEN UpcomingDates(today)
                                         ELSE {j.day} \cup UpcomingDates(j.day))]
  /\ UNCHANGED <<today, needs, broken, shop, changes, failures>>

Request(r, t, d) ==
  /\ run[r] = Idle
  /\ run' = [run EXCEPT ![r] = Starts(t, {d})]
  /\ UNCHANGED <<today, needs, broken, shop, jobs, changes, failures>>

\* "Hitung ulang".
Recompute(r, d) == Request(r, [kind |-> "recompute"], d)

Create(r, d, s, p) ==
  /\ purchases[p] = NoPurchase
  /\ \A q \in Runner : run[q].at # "idle" /\ run[q].task.kind = "buy" => run[q].task.purchase # p
  /\ Request(r, [kind |-> "buy", supplier |-> s, purchase |-> p], d)

Receive(r, p, got) ==
  /\ ~Held(p) /\ DOMAIN got # {} /\ DOMAIN got \subseteq Waiting(p)
  /\ \A i \in DOMAIN got : got[i] > 0 => StockFree(i)
  /\ Request(r, [kind |-> "receive", purchase |-> p, got |-> got], purchases[p].day)

Cancel(r, p) ==
  /\ ~Held(p) /\ Open(p)
  /\ Request(r, [kind |-> "cancel", purchase |-> p], purchases[p].day)

\* Create finds the batch done, or nothing left to buy.
Refused(r) ==
  LET t == run[r].task
  IN  t.kind = "buy" /\ (batch[DayOf(r)] \in {"none", "done"} \/ DOMAIN Items(DayOf(r), t.supplier) = {})

\* Takes the batch's row, and reads what the orders need.
LockBatch(r) ==
  /\ run[r].at = "next" /\ run[r].todo # {} /\ LockFree(DayOf(r))
  /\ ~broken[DayOf(r)] \/ needs[DayOf(r)] = Nothing
  /\ run' = [run EXCEPT ![r] = IF Refused(r) THEN Idle
                               ELSE [@ EXCEPT !.at = "stock", !.need = needs[DayOf(r)]]]
  /\ UNCHANGED <<today, needs, broken, shop, jobs, changes, failures>>

ReadStock(r) ==
  /\ run[r].at = "stock"
  /\ run' = [run EXCEPT ![r].at = "claims", ![r].has = [i \in Ingredient |-> stock[i] + Arrived(r, i)]]
  /\ UNCHANGED <<today, needs, broken, shop, jobs, changes, failures>>

\* Fault: the batches before are forgotten.
Available_All(r, d, i) == run[r].has[i]

Available(r, d, i) == run[r].has[i] - ClaimedBefore(d, i)

ReadClaims(r) ==
  /\ run[r].at = "claims"
  /\ run' = [run EXCEPT ![r].at = "save",
                        ![r].has = [i \in Ingredient |-> Available(r, DayOf(r), i)]]
  /\ UNCHANGED <<today, needs, broken, shop, jobs, changes, failures>>

\* Writes the list and what the task changes, and commits.
SaveResult(r) ==
  LET d == DayOf(r)
  IN  /\ run[r].at = "save"
      /\ lines' = [lines EXCEPT ![d] =
                     [i \in Ingredient |-> Shopped(run[r].need[i], run[r].has[i],
                                                   Line(d, i).ordered + Ordered(r, i),
                                                   Line(d, i).received + Arrived(r, i))]]
      /\ stock' = [i \in Ingredient |-> stock[i] + Arrived(r, i)]
      /\ purchases' = Closed(r)
      /\ batch' = [batch EXCEPT ![d] = IF @ = "none" THEN "open" ELSE @]
      /\ failed' = [failed EXCEPT ![d] = FALSE]
      /\ jobs' = IF stock' = stock THEN jobs ELSE Enqueued(Upcoming)
      /\ run' = [run EXCEPT ![r].at = "next", ![r].todo = @ \ {d}, ![r].need = Nothing, ![r].has = Nothing]
      /\ UNCHANGED <<today, needs, broken, changes, failures>>

\* A recipe cannot be evaluated: the list stays, and the other days go on.
\* Within a purchase's transaction all is rolled back.
RecipeFails(r) ==
  LET d == DayOf(r)
      purchase == run[r].task.kind \in {"buy", "receive", "cancel"}
  IN  /\ run[r].at = "next" /\ run[r].todo # {} /\ LockFree(d)
      /\ broken[d] /\ needs[d] # Nothing
      /\ run' = [run EXCEPT ![r].at = IF purchase THEN "next" ELSE "mark",
                            ![r].todo = IF purchase THEN {} ELSE @, ![r].refused = TRUE]
      /\ UNCHANGED <<today, needs, broken, shop, jobs, changes, failures>>

\* After the rollback, the batch shows why.
MarkFailed(r) ==
  LET d == DayOf(r)
  IN  /\ run[r].at = "mark" /\ LockFree(d)
      /\ batch' = [batch EXCEPT ![d] = IF @ = "none" THEN "open" ELSE @]
      /\ failed' = [failed EXCEPT ![d] = TRUE]
      /\ run' = [run EXCEPT ![r].at = "next", ![r].todo = @ \ {d}]
      /\ UNCHANGED <<today, needs, broken, lines, purchases, stock, jobs, changes, failures>>

\* Runner r gives up what is in hand, which is rolled back, and goes on.
GivesUp(r, rest, refused) ==
  run' = [run EXCEPT ![r].at = "next", ![r].todo = rest, ![r].again = TRUE,
                     ![r].refused = refused, ![r].need = Nothing, ![r].has = Nothing]

\* The database fails with one batch, and the others go on, or the process
\* stops, whose job another one takes up.
Fail(r) ==
  /\ run[r].at # "idle" /\ run[r].todo # {} /\ failures < MaxFailures
  /\ failures' = failures + 1
  /\ GivesUp(r, run[r].todo \ {DayOf(r)}, run[r].refused) \/ GivesUp(r, {}, FALSE)
  /\ UNCHANGED <<today, needs, broken, shop, jobs, changes>>

\* A job that met a broken recipe is not tried again, one that failed is.
Finish(r) ==
  /\ run[r].at = "next" /\ run[r].todo = {}
  /\ run' = [run EXCEPT ![r] = Idle]
  /\ jobs' = IF run[r].task \in Job /\ run[r].again /\ ~run[r].refused
             THEN Enqueued(run[r].task) ELSE jobs
  /\ UNCHANGED <<today, needs, broken, shop, changes, failures>>

-----------------------------------------------------------------------------
\* The batch's status.

\* Fault: a late step is taken all the same.
MayBecome_Always(d, from) == batch[d] # "none"

\* A batch moves on only from the statuses given.
MayBecome(d, from) == batch[d] \in from

Becomes(d, from, s) == LockFree(d) /\ MayBecome(d, from) /\ batch' = [batch EXCEPT ![d] = s]

\* The sweep found the cutoff of the day passed.
LockDue(d) ==
  /\ needs[d] # Nothing
  /\ Becomes(d, {"open"}, "locked")
  /\ UNCHANGED <<today, needs, broken, failed, lines, purchases, stock, jobs, run, changes, failures>>

\* The job of an order of the day that was put into production.
MarkInProduction(d) ==
  /\ needs[d] # Nothing
  /\ Becomes(d, {"open", "locked"}, "in_production")
  /\ UNCHANGED <<today, needs, broken, failed, lines, purchases, stock, jobs, run, changes, failures>>

\* "Produksi selesai": what the list says the batch needs is taken out of the
\* stock, as far as there is any.
Complete(d) ==
  /\ d <= today /\ \A i \in Ingredient : Line(d, i).needed > 0 => StockFree(i)
  /\ Becomes(d, {"open", "locked", "in_production"}, "done")
  /\ stock' = [i \in Ingredient |-> Max({stock[i] - Line(d, i).needed, 0})]
  /\ jobs' = IF stock' = stock THEN jobs ELSE Enqueued(Upcoming)
  /\ UNCHANGED <<today, needs, broken, failed, lines, purchases, run, changes, failures>>

-----------------------------------------------------------------------------
Worker(r) ==
  \/ \E j \in Job : StartJob(r, j)
  \/ LockBatch(r) \/ ReadStock(r) \/ ReadClaims(r) \/ SaveResult(r)
  \/ RecipeFails(r) \/ MarkFailed(r) \/ Fail(r) \/ Finish(r)

Staff(r) ==
  \/ \E d \in Day : Recompute(r, d)
  \/ \E d \in Day, i \in Ingredient, p \in Purchase : Create(r, d, Supplier[i], p)
  \/ \E p \in Purchase : \E I \in SUBSET Waiting(p) : \E got \in [I -> Qty] : Receive(r, p, got)
  \/ \E p \in Purchase : Cancel(r, p)

World ==
  \/ \E d \in Day, i \in Ingredient, q \in Qty : OrdersChange(d, i, q)
  \/ \E d \in Day : RecipeChanges(d)
  \/ \E i \in Ingredient, q \in Qty : StockChanges(i, q)
  \/ NextDay

Next ==
  \/ \E r \in Runner : Worker(r) \/ Staff(r)
  \/ World
  \/ \E d \in Day : LockDue(d) \/ MarkInProduction(d) \/ Complete(d)

Spec == Init /\ [][Next]_vars

-----------------------------------------------------------------------------
\* Properties.

LineType == [needed : Nat, usable : Nat, ordered : Int, received : Nat, toBuy : Nat]

\* Every variable has the shape the code gives it, and a batch's row has one
\* holder at a time.
TypeOK ==
  /\ today \in Day
  /\ needs \in [Day -> [Ingredient -> Qty]] /\ broken \in [Day -> BOOLEAN]
  /\ stock \in [Ingredient -> Nat]
  /\ batch \in [Day -> Status]
  /\ failed \in [Day -> BOOLEAN]
  /\ lines \in [Day -> [Ingredient -> LineType \cup {NoLine}]]
  /\ DOMAIN purchases = Purchase
  /\ \A p \in Purchase : purchases[p] # NoPurchase => IsPurchase(purchases[p])
  /\ jobs \in [Job -> Nat]
  /\ \A q, r \in Runner : q # r /\ run[r].at \in {"stock", "claims", "save"} => ~Computing(q, DayOf(r))

\* Nobody is computing and no job waits.
Quiet == (\A j \in Job : jobs[j] = 0) /\ \A r \in Runner : run[r] = Idle

WaitsFor(p, d, i) == IF i \in Waiting(p) /\ purchases[p].day = d THEN purchases[p].items[i].qty ELSE 0

OnOrder(d, i) == SumFunctionOnSet([p \in Purchase |-> WaitsFor(p, d, i)], Purchase)

\* What a list says is on order is what still waits in the purchases for its
\* day, through computations, deliveries of more or less, cancellations and
\* the end of the batch: an order placed is never dropped (Shop, AddProcured).
OnOrderIsSum == \A d \in Day, i \in Ingredient : Line(d, i).ordered = OnOrder(d, i)

\* "Two orders made at once take turns and never order the same line twice"
\* (LockShoppingList): what is bought fits into what the list lacked, but for
\* the rest of a pack.
BoughtOnce ==
  \A d \in Day, i \in Ingredient :
    OnOrder(d, i)' > OnOrder(d, i) =>
      OnOrder(d, i)' < Line(d, i).needed - Line(d, i).usable + Pack[i]

OrderedOnce == [][BoughtOnce]_vars

\* When all jobs are done, every list from today on is what computing it again
\* would give, whatever the order in which they ran and failed: no change of
\* orders, recipes or stock is missed (Subscriptions, RecomputeFrom).  A day
\* before today whose batch was forgotten is not looked at, nor are failures
\* beside a broken recipe (FailureIsRetried).  It is checked of one ingredient:
\* of two, a batch finished late, with nothing in stock of what it still needs,
\* may leave stock it counted on that no job gives to the later ones.
Settled ==
  /\ Quiet
  /\ \A d \in Day : d < today => batch[d] \in {"none", "done"}
  /\ failures > 0 => \A d \in Day : ~broken[d]
  =>
    \A d \in UpcomingDates(today), i \in Ingredient :
      failed[d] \/ lines[d][i] = Shopped(needs[d][i], stock[i] - ClaimedBefore(d, i),
                                         Line(d, i).ordered, Line(d, i).received)

\* "No gram counts twice" (available): when all jobs are done, two batches from
\* today on do not count on the same stock.
NoGramTwice ==
  Quiet /\ (\A d \in Day : ~failed[d]) =>
    \A d, e \in UpcomingDates(today), i \in Ingredient :
      d # e /\ Line(d, i).usable > 0 /\ Line(e, i).usable > 0 =>
        Line(d, i).usable + Line(e, i).usable <= stock[i]

\* "Any other failure is retried" (cancelIfRecipe): a day whose own recipe is
\* fine has the list its orders need, when all jobs are done.
FailureIsRetried ==
  Quiet =>
    \A d \in UpcomingDates(today), i \in Ingredient :
      failed[d] \/ Line(d, i).needed = needs[d][i]

\* How far a batch is.
Step == <<"none", "open", "locked", "in_production", "done">>
Rank(s) == CHOOSE n \in DOMAIN Step : Step[n] = s

\* A batch only moves on, though the steps come from staff, a sweep and late
\* jobs; a batch that is done stays so and takes from the stock once.
MovesOn == \A d \in Day : Rank(batch[d]) <= Rank(batch'[d])

StatusMovesOn == [][MovesOn]_vars

=============================================================================
