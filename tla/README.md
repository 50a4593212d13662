# A formal model of kue-preorder

kue-preorder takes pre-orders for a home bakery: a customer gets a quote, pays
a down payment (DP) and later the balance, the kitchen shops for the batch of
the day, bakes and hands over. These modules model its core logic in TLA+, TLC
checks them on small instances, and TLAPS proves theorems about the order's
money, quotes, checkout, stock, shopping lists, the outbox, sign-in codes and
staff's settings for instances of any size. Paths below are relative to `src/`.

Contents: the system · the modules · the runs · fairness · what is proved ·
disagreements found · what only TLC checks · not modelled · what is left.

## The system

Two processes, `cmd/api` (staff and customers) and `cmd/worker` (periodic
sweeps and jobs), share one PostgreSQL database. Modules call each other in the
process; what happens later is written to an outbox in the same transaction and
turned into River jobs by the worker. A transaction that locks a row is the
unit of atomicity; everything read before it or done after it can interleave
with the other process, and either process may stop anywhere.

| Component | State | Operations | Talks to | Hard parts | What makes it correct |
|---|---|---|---|---|---|
| orders (`internal/orders`) | the order: status, payment status, locked terms | Place, Advance, RecordPayment, Cancel; sweeps ExpireUnpaid and ForfeitUnpaid; EnsureBalanceInvoice | payments' ledger, the provider, outbox | sweeps act on what they read before; jobs are retried and duplicated; invoices are made outside the transaction | nothing handed over on credit, no paid order expired, no DP kept too early |
| payments (`internal/payments`) | ledger rows, policy, fee rules | AddPending, AddManual, ExpirePending, AttachInvoice; Settle, Close, DPRequired, Fee | called by orders | any sequence of payments; double rounding | status and ledger agree; fees exact to the rupiah |
| checkout (`orders/checkout.go`, `place.go`) | none of its own | Quote, Place | scheduling, payments, catalog, identity | double clicks and retries, two checkouts at once, batches that close | at most two unpaid orders, one order per key, no pickup that cannot be made |
| scheduling (`internal/scheduling`) | settings, closed dates | Plan, Suggest | called by checkout | comparisons at the minute across midnight | the order of deadlines, the nearest suggestion |
| aggregation (`internal/aggregation`) | batches per day, shopping lines | Recompute, LockDue, MarkInProduction, Complete, LockShoppingList, Record | orders, catalog, inventory, procurement | recomputes race each other and the kitchen; stale lists | no gram of stock counted twice, nothing bought twice |
| procurement (`internal/procurement`) | orders to suppliers and their items | Create, Receive, Cancel | aggregation, inventory | lock order against Complete | on order = sum of the items that wait |
| inventory (`internal/inventory`) | lots, movements, checks, idempotency keys | Receive, Check, Count, Consume, Usable, ExpireLots | aggregation | offline retries; expiry without a lock | a lot's balance is its movements and never negative; a retry has no second effect |
| outbox and jobs (`internal/platform/outbox`, `jobs`) | events, published or not | Append, PublishBatch, Dispatcher | every module | commit order is not number order; a stop in the middle | every event starts its jobs once |
| sign-in codes (`internal/identity/otp`, `platform/webhook`, `platform/ratelimit`) | claimed deliveries, buckets | ServeHTTP, Claim, Done, Release, Allow | WhatsApp, Supabase | a crash between claim and send; retries | a code is sent at most once per delivery, and a failure can be retried |
| catalog (`internal/catalog`), recipe (`internal/recipe`) | recipe lines, what variants are made of, prices, packs | SetRecipeLine, RemoveRecipeLine, SetVariantComponents, ChangeVariantPrice, SetDefaultPack, IngredientCosts; Fit, Resolve, Quantity | aggregation's Totals, checkout's DP | measured points in any order, rounding per line; edits that overlap | a larger batch never needs less, the DP covers the ingredients, one default pack, a trail that adds up |
| payment settings (`payments/settings.go`) | policy, rule of each method, audit entries | UpdatePolicy, UpdateMethod, ResetMethod | checkout reads them | two owners at once | a way to pay is always on offer |
| identity, handlers, platform | people, roles | authorisation, conversions | | | |

`PROJECT.json` lists every component with its status, and under `hazards` what
is hard to test here, at its line, with the properties that cover it.

## The modules

| Module | What it is |
|---|---|
| `Payments` | pure: the payment status as a function of the ledger (`Settle`), closing (`CanClose`), the DP (`DPRequired`) |
| `Orders` | state machine: orders, ledger, staff, sweeps, balance jobs and invoices |
| `OrderPromise` | abstract: what the shop promises about an order and its money; `Orders` implements it |
| `OrdersProofs` | the theorems about `Orders` and their proofs, those about bills of the balance under an invariant of their own |
| `Schedule` | pure: `Plan` and `Suggest` |
| `Fees` | pure: `FeeRule.Fee` |
| `Quotes` | `Checkout.Quote`, composed of `Schedule`, `Fees` and `Payments`, and what its answers must satisfy |
| `Checkout` | state machine: concurrent `Checkout.Place` requests, their retries, and the batches they meet; uses `Schedule` |
| `CheckoutProofs` | the theorems about `Checkout` |
| `Stock` | state machine: lots, calls that change them under keys and locks of ingredients and batches, the worker's expiry |
| `StockPromise` | abstract: a number of each ingredient that each entry changes once; `Stock` implements it |
| `Kitchen` | state machine: batches, their shopping lists, the jobs and staff that compute them, purchases from suppliers |
| `StockProofs` | the theorems about `Stock` |
| `KitchenProofs` | the theorems about `Kitchen` |
| `Sums` | lemmas: sums over finite sets, the largest and smallest of some numbers, and numbers in ascending order |
| `Outbox` | state machine: changes that write events, publishers that turn them into jobs |
| `OutboxPromise` | abstract: each saved change starts its jobs once, in order per record; `Outbox` implements it |
| `OutboxProofs` | the theorems about `Outbox` |
| `OtpHook` | state machine: deliveries of sign-in codes, the limiter, claims, WhatsApp, callers that give up |
| `OtpHookProofs` | the theorems about `OtpHook` |
| `Fractions` | pure: exact fractions, for amounts the code has in float64, and their rounding |
| `Sorting` | pure: the numbers of a set in ascending order |
| `Recipes` | state machine: edits of recipes; and what a batch needs, and an item costs, worked out from them |
| `Edits` | state machine: overlapping edits of prices, the payment policy, methods and default packs |
| `ShopProofs` | the theorems about `Quotes`, with it about `Schedule` and `Fees`, and those about `Edits` and `Recipes` |
| `MC*` | constants for TLC; `MCShop` puts quotes, recipes and edits side by side, a behaviour doing one of them |

### Orders

A transaction that holds the order's row is one action. `status`, `payment` and
`terms` are columns of the order (the terms are drawn in `Init` and have no
effect before `Place`). Paid rows of the ledger never change, so `paid` is their
sum; a refund is one negative row that brings it to 0. `bills` are the pending and
expired rows, by number. `jobs` counts waiting balance jobs by attempts left: an event of
a recorded payment adds its job at once, though the outbox does so a little
later, which only delays `StartJob`. A `sweep` is split where the code is: one
read of the overdue orders with the time of that moment (`StartSweep`), then one
transaction per order (`SweepOrder`), that may fail (`SkipOrder`) or never come
(`StopSweep`). A `task` is a goroutine that makes invoices, for a job or for a
customer's page: the billing transaction (`BillBalance`), the ledger read
without a lock (`ReadBills`), the provider (`CreateInvoice`, `InvoiceFails`), the
link (`AttachInvoice`); `Stop` may end it between any two.

Left out: the method and its fee on a bill (`Fees` has the arithmetic; a job
whose fee cannot be computed fails, which `Stop` covers), audit entries, and
delivery orders, which nothing places yet.

### Quotes, Schedule, Fees

One step answers one ask. Times are whole minutes, days and hours have the
lengths the configuration gives them, so that a small instance crosses midnight
often. A cart is its total, its ingredients' cost, the longest production time
and the longest notice. `Loaded` is the window of days a quote reads, which
matters (see below).

### Checkout

Each request goes through the steps of `Place`: the first look for its key
(`Send`), the quote from what is committed then (`GetQuote`), the customer's
advisory lock (`Lock`), key and limit under it (`Check`), the insert with the
commit (`Insert`). `Lose` stops a handler anywhere, rolls an open transaction
back and lets the client send the same again; it also is the answer that gets
lost after the commit. An order here is only what checkout sees of it: waiting,
counting for production, or neither. `Confirm`, `Expire` and `Cancel` are `Orders`'
`RecordPayment`, `ExpireUnpaid`/`CancelUnpaid` and `CancelRefund`/`CancelForfeit`
seen from there, without their guards on money, so they happen in every order
they can in the code and some more. `OpenBatch` and `LockDue` are aggregation's
`Recompute` and `LockDue`, as far as checkout could notice.

### Stock

A call (`Send`) is a delivery, a count, a look at a lot that calls it good or
throws it away, what a supplier brings for a batch (procurement's `Receive`), or
what a batch used (`Complete` and `Consume`). Deliveries, counts and purchases
carry a key: `Send` is the first look for it, `Claim` the insert under the unique
index, which waits for a twin in flight. A call then takes its `Locks` one by one
(`TakeLock`): a purchase those of its ingredients as its list has them and then its
batch's row, a batch its own row and then its ingredients by id. With each
ingredient's lock it reads the committed lots and notes in `change` and `fresh`
what the transaction writes. `Commit` makes it visible and lets the locks go,
`Stop` rolls it back, and `Kill` is PostgreSQL ending one of those that wait in a
`Circle`. `ExpireLots` is the worker's one statement, without any lock; where
PostgreSQL would have it wait for a lot already written to, the model lets it go
first, with the same lots once both are done. A lot's `balance` is the sum of its
movements, `ok` its last look that called it good. Its id is drawn when it is
committed, from those free, as lots of one time are ordered by ids nobody chooses.

Left out: an expiry date given with a delivery, a key sent with other fields (it is
refused, which `Send` and `Claim` treat like a retry), and events.

### Kitchen

Aggregation and procurement share the shopping list, so they are one module. A
`runner` is a worker goroutine with a job or a request of staff; it has the days
`todo` and computes them one by one. `LockBatch` takes the batch's row (which a new
batch, not committed yet, has too) and reads what the orders need, `ReadStock` and `ReadClaims`
are the two reads that follow, under READ COMMITTED each of what is committed then,
and `SaveResult` writes the list and commits. The list of a day's successors is
read once, in `StartJob`. `Create`, `Receive` and `Cancel` run the same steps in their
own transaction, for the purchase's day; what they change of the list, the stock and the
purchases appears with `SaveResult`, and a broken recipe rolls it all back. A job's broken
recipe leaves the list, and `MarkFailed` comes after the rollback. `Fail` is a
database that fails with one batch, after which `recomputeAll` goes on, or a process that
stops. `Finish` decides whether the job is tried again. An event adds its job at
once, as in `Orders`. `needs` abstracts orders and recipes to what they need of each
ingredient; `stock` is `Stock`'s total, all of it usable on every day; `changes` and
`failures` only count towards their bounds. The sum of the purchases' waiting items
is nowhere in the code: the line's `ordered` is.

Left out: what of the stock is usable when (`Stock!KeepsFor` has it), a default pack
that changes its supplier, retries that are used up. The waits between a delivery's
and a finished batch's locks are in `Stock`.

### Outbox

A change's transaction holds its record's lock (`Begin`), inserts its events one by
one (`AppendEvent`), each of which draws the next number, and commits (`Save`) or is
rolled back (`Undo`), leaving a hole. What a reader sees, `Waiting`, are the saved
and unpublished ones, perhaps without a lower number still open. A publisher's
transaction is split at its statements: the try for the advisory lock (`TryLock`),
the batch (`Read`), one dispatch per event (`Dispatch`), the mark with the commit, at
which its jobs appear (`Mark`). `Fail` is an error or a stop anywhere in it: nothing
of it stays. `Answer` is what each module's subscriber makes of an event's type,
with the ones it cannot read, which are logged and passed over. A full batch is followed by the
next at once, otherwise the publisher rests.

### OtpHook

A handler goes through `ServeHTTP`: the phone's limit (`Allow`), the claim, sending, and then
`Done` or `Release` with the answer. Each call to the database or to WhatsApp may fail, and
may have had its effect all the same (`ClaimFails(h, TRUE)`, `SendFails` with `taken`).
Supabase gives up at any moment (`GiveUp`), which ends the request's context, so that
what follows fails, and delivers again while the first handler still runs; the process
restarts, and the limiter forgets. Tokens are counted in the time one takes to
earn. The limiter reads the clock before it takes its mutex; two calls in the other
order see the same tick of the model. `cut` and `unsure` are history, for saying what
the answers cannot promise.

### Recipes

`SetRecipeLine`, `RemoveRecipeLine` and `SetVariantComponents` hold the parent's row, so each is
one action; an input is entered parameters or measured points, which are fitted
(`FitAffine`, `FitPiecewise`) and refused unless `Sound`. `Resolve` is what some units of
a component take, `Quantity` that with waste and rounded, `Need` what a batch's
orders take of an ingredient (`Totals`), `Estimate` the ingredient cost of a
cart (`IngredientCosts`, `Checkout.ingredientCost`). Amounts are exact fractions where the code has
float64 (`Fractions`); the code's own tolerances are there for that noise. `RecipesAssumption` says
what may be entered: points measured at whole units and amounts, a waste of nothing or more, prices not negative.

Left out: formulas, fitted powers, powers that are not whole.

### Edits

An edit of the policy, a method's rule or a price is lock, read, and write with its
audit entry and the commit; what applies is the row or the default (`Current`). The
settings have one advisory lock, a price its row's. A default pack has no lock: `Begin`
and `Clear` are one `update` that waits for rows others have changed and looks again
only at those it found, as READ COMMITTED does, and `Mark` the other, which the unique index
may refuse. `Fail` rolls back, also for a deadlock of two marks. Of values only what
the properties tell apart is kept: whether a rule is offered, and that values differ.

## The runs

| Run | Question | Instance |
|---|---|---|
| `orders` | do money, bills and status stay together, does a balance always have a bill or a job that makes one, and is each step one the promise allows? | 1 order with each of 4 kinds of terms, 2 workers, 1 sweep, 3 bills, 1 attempt per job, times 0–3: orders do not share state, so the interesting races are between the actors on one |
| `waits` | does every order that waits for money leave that state, and no paid one through a sweep that acts late? | 2 orders, 1 sweep of one order at a time: the limit bites; times 0–5 with both kinds of deadlines apart |
| `quotes` | are schedule, DP, fees and suggestion right; do recipes add up; do edits that overlap leave the shop whole? | quotes: 54 asks × 10 calendars × 2 settings × 3 policies, days of 12 minutes, 3 days tried, basis points in tenths so that every rounding occurs. Recipes: 2 components, 2 ingredients, 2 variants, 3 edits, lines entered, or fitted through 1–3 measured points of a grid with falls, repeats and gaps. Edits: 11 of them of 2 methods, the policy, a price and 3 packs, any 4 sent, the same again or together |
| `checkout` | do the key, the limit and the lock hold? | a double click and another checkout of one customer, each sent up to twice, limit 1 |
| `stock` | does every entry have its effect once, do lots add up, and does every call end, whatever races? | two ingredients, one that keeps a day and a half and one that has to be looked at, 2 lots, two days; four plans of four calls: twins of a delivery with a count and a batch, a discard, two batches that list the ingredients in opposite order, twins of a purchase with a batch that is finished meanwhile. Each call is sent once, a repeat is a twin |
| `kitchen` | once the jobs are done, is every list right, and is what is on order ordered once and never lost? | 2 days that have a batch, 1 ingredient in packs of 2, 2 runners, 2 changes of orders, recipes, stock or day; a failure and no purchases, or one purchase on any day, or two for one day |
| `outbox` | is every saved change's event published, in order, with each job once? | 3 changes, two of one record, one with two events, one that a subscriber cannot read; 2 publishers, batches of 2, 4 numbers, 1 failed batch: enough for a hole, a full batch and a late lower number |
| `otp_hook` | does a code go out once, does an answer say what became of it, can a retry send, and does the limit hold? | 2 codes for one phone, 2 handlers, 2 deliveries of each, a burst of 2 and one more every 2 minutes, times 0–5: longer than a full refill |
| `locked_batch`, `long_notice`, `kitchen_twice`, `kitchen_retry` | what a comment or doc says, and the code does not do | see "Disagreements" |

All bounds are constants: `MaxBills`, `MaxTime`, `MaxTries`, `MaxAttempts`
(the last stands for the code's 10). With `MaxBills` reached, `BillBalance`
waits; three are enough for the first bill, the one after the DP and one after
an instalment. With all `LotId` in use a call that needs a new
lot waits; two are enough for an older and a younger one. Deadlock is not checked: the clock stops at its bound, finished orders have nothing
left to do, a quote is asked once, and every bound on calls ends a run. The kitchen
starts from three states (`TwoDays`) instead of one that allows all at once, as failures
roll a purchase back whole and so do not meet it; there is one ingredient, as
lines of different ingredients meet only in their batch's lock, except in batches finished
late (see Disagreements). Symmetry is used in `orders` (workers),
`kitchen` (runners and purchases) and `otp_hook` (handlers, codes) only, where no liveness is checked.

## Fairness

* `SweepSpec`: time goes on; the worker runs each sweep every minute (`Periodic`),
  whatever the other does, hence strong fairness of starting each kind; a sweep
  under way goes on; and an order's transaction that is tried again and again
  sometimes commits (strong fairness of `SweepOrder` per order). The last excludes
  an order that fails for ever: a hundred of those, the oldest, would take all
  places of every sweep.
* `Checkout!FairSpec`: a handler that is not stopped goes on; PostgreSQL gives
  the advisory lock to each who waits in the end. A client need not retry.

* `Stock!FairSpec`: as long as some call can go on, or one in a circle be ended, something
  does; each is sent only so often, so none is overtaken for ever.
* `Outbox!FairSpec`: `Run` goes on in every process (weak fairness of each publisher's
  step). Nothing makes a change go on, and failed batches are bounded.

## What is proved

`OrdersProofs` proves for any set of orders, terms, sweeps and workers, and for
any bounds, that `Orders` keeps `TypeOK`, `LedgerAgrees`, `HandoverPaid`,
`OpenBillIsOwed`, `ExpiredNeverPaid`, `ForfeitOnlyWhenDue` and `LinkOnlyOwed`, and that it
implements `OrderPromise`. The assumptions are `TermsAssumption` (what Quote and
Plan lock, which `Quotes!TermsHold` and `PlanOrdered` establish) and `BoundsAssumption`.

The safety properties are not inductive one by one. `IInv` adds to them what
they silently rest on: which payment statuses each order status allows, that an
order not yet placed has no money and no bills, that the clock is past the time
a sweep read, and that bills carry the amounts they were made with. With it
each action needs only its own guard: a sweep that acts late is harmless since
`StillOverdue` is asked under the lock, and a late link since the bill is expired
in the transaction that takes the money. Lemmas state what `Settle` returns and
what `ExpirePending` leaves.

`ShopProofs` proves, for every ask, calendar, settings, policy and rule, that an
accepted quote has its deadlines in order (`PlanOrdered`), is on open days
(`ClosedDaysFree`), has terms that hang together (`TermsHold`) and fees that are
the least that leave the shop the whole amount (`FeeIsLeast`). The fee's argument:
with `D` parts of which the provider takes `N`, the exact solution rounded up is
the least `g` with `g * (D - N) >= (amount + fixed) * D`, and taking `ceil(g * N / D)`
off `g` leaves `floor(g * (D - N) / D)`; so the search of the code stops where it
starts, and no smaller gross would do.

It also proves `SuggestionNearest`: on the days that a quote reads, what it read answers like
the whole calendar, as an order is baked on the day of its pickup or the one before; each
day has one time as it was wished, the candidate; and a later day's is later. What is
assumed is only that the days tried are days the quote reads (`long_notice` shows why).

`CheckoutProofs` proves, for any requests and any limit, that a customer never
has more than `MaxUnpaid` orders waiting for their DP. The inductive invariant is
that only the holder of a customer's lock is between `Check` and `Insert`, so what
it counted stays true until it inserts, since all others only take orders away.
The same invariant proves `TwinGetsTheOrder`: no twin's order can appear between
the look under the lock and the insert, so the insert never fails on the key.
The lock is all the argument uses: no theorem assumes that handlers go on.

`OrdersProofs` proves beside this that a confirmed order which owes its balance online always
has a bill with a link, a job that waits, or a worker that has it in hand
(`BalanceBilled`). An invariant of its own says how far a worker is: before the bill, with an
open bill to invoice, or failed and so tried again; what cancels a bill writes the event
that adds a job in the same transaction.

`OutboxProofs` proves `OrderKept`, for any changes, publishers and size of a batch: what was
saved when a number was drawn has a lower number, and a batch either takes nothing or leaves no
older saved event behind, so what is published was preceded by all that had been saved when it was
written. The advisory lock is not part of that argument; it is there for the jobs of one event.

It also proves that `Outbox` implements `OutboxPromise`, whatever is rolled back and
however many publishers there are. The invariant (`RInv`) is that two open changes are of different records, so an
open change's numbers are above all that is saved of its record, and that each event of an open change has one
number, in the order they are written; then what a commit adds to a queue, sorted by number, is the
change's events at its end. Of the publishers, one has the lock: its batch still waits when it
is marked and has the first few of every queue, so the mark is one delivery, and as an event has
one saved number, its jobs grow by one. Queues are functions of ranks (`Ascending`), so that what
joins and leaves them follows from cardinalities, without induction over sequences.

`OtpHookProofs` proves, for any deliveries, phones, handlers and rule of the limiter, that
one delivery is sent at most once unless WhatsApp's answer was lost (`SentOnce`), that a 200 to a
caller who waits means the code went out (`OkMeansSent`), that a refused send leaves the
delivery to its retry (`RetryCanSend`), and that a phone's codes never exceed the burst plus
what was earned since (`PhoneLimit`). Its invariants are that one handler at a time owns
a claimed delivery, and that the tokens left and those spent are bounded by those earned.

`ShopProofs` proves of edits, for any methods, variants, packs and edits, `MethodStays`, `TrailTells` and
`DefaultStays`. The invariant is that what an edit read under its lock still applies when it
writes (`StillRead`), since the holder of the lock is the only one that writes what the lock
covers. For the packs it is that an ingredient has one default at most, which
the unique index keeps whatever a clear has missed.

Of recipes it proves, for any components, lines, measured points, packs and carts, that a larger order
never takes less of an ingredient (`MoreNeverLess`) and that what is
estimated from one unit of each covers what lines `a + b*u` cost but for rounding, given a unit of each component
at least (`EstimateCovers`). The invariant (`RecipesInv`) is that
every stored line is a sound model, `a + b*u` or `a * u^b` with nothing negative, or a curve that starts at nothing
and does not fall, with a waste of at least 1. Entered parameters are refused otherwise; that a fit is such a
model is proved of the fit (`ModelIs`): with two different units measured the least squares do
not divide by zero (Cauchy and Schwarz, over any finite set of points), and a curve's knots go up. Then `Resolve` does not fall from
one number of units to the next, on one piece of a curve or across several (`ResolveGrows`), rounding keeps the
order, and so do sums of fractions. For the estimate, a fixed part plus a part per unit, taken `u` times,
is at most `u` times that of one unit; what rounding adds to a line is at most what it adds to each unit's; and the
sums over lines and over items may change places.

`StockProofs` proves, for any calls, lots and times, that no ingredient or batch is locked twice
(`TypeOK`), `ClosedIffEmpty`, `OldestFirst`, `MarkingChangesNoList`, `NoCircle`, and that
`Stock` implements `StockPromise`. The first invariant says what a call has in hand: it holds some
of its `Locks` in their order, its `change` and `fresh` touch only lots of ingredients it has
locked, and each is what consumption or a count makes of the lots as they still are, since only
the holder of an ingredient's lock changes its lots, but for the worker. The worker's marking
needs an argument of its own: a lot it marks counted for no call of that time. Among batches each
waits for an ingredient above those it has, so a circle of them would have a smallest one
waited for by none; hence `NoCircle`. The second invariant (`KeyedInvariance`) adds that one call
at a time works under a key and that its changes add up to what it was asked to enter; with
it every commit is one step of the promise, and all else leaves the sums alone. `Older`
compares ids in the order the constants give, which `StockAssumption` states.

`KitchenProofs` proves, for any days, ingredients, purchases and runners, `TypeOK` (a batch's row has one holder),
`OnOrderIsSum`, `OrderedOnce` and `StatusMovesOn`. `OnOrderIsSum` is not inductive alone: the invariant adds
that a purchase being made is not there yet, that what a runner receives or cancels still waits
and is of the day it computes, that no two runners make or settle the same purchase, and that what is
left to buy is what the list lacks. Then a saved list changes by what one purchase's
waiting items change. `OrderedOnce` follows: a list's `toBuy` was worked out from what was on order
then, and only the holder of its row changes either. `KitchenAssumption` says what a start looks
like: nothing is on order yet, and purchases have items of known shape.

`Settled` is proved (`AlwaysSettled`) of the behaviours in which every day has its batch from the
start (`AllPlanned`) and none is left unfinished when its day is over (`InTime`), for any number of
ingredients; the `kitchen` run starts with such batches, and finishes one before the next day in some of its
behaviours. Without the first it fails as in `kitchen_twice`, without the second as described
under "Disagreements". The invariant (`SettlesInv`, `ListsAreSure`) says of each day to come that its list
is sure: a job waits or a runner has the day ahead of it or will be retried (`Ahead`); or
whoever computes it has read what is true, and without one its list is right
(`InHand`); or its recipe is broken and the batch shows it or will (`Stuck`). It needs that a job's runner has all
days after one it has (`Orderly`): a list that changes what is free for later days is then
saved by a runner that has those days ahead of it, or changes nothing. Only
failures beside a broken recipe are excused, as in `kitchen_retry`. `GramsCountOnce` follows: a right
list counts on nothing that an earlier one counts on, so in these behaviours `NoGramTwice` holds.

Sums are recursive functions on sets. `Sums` reaches what it needs of them without an
induction theorem: of the subsets for which a statement fails there is a smallest
one (well-foundedness of strict inclusion among finite sets), and taking an element out of it leaves
one for which it holds.

The other modules' `TypeOK` and `ClosedDaysFree` of the quotes are proved and not run as well.

## Disagreements with the docs

Each is a run TLC must find violated; `PROJECT.json` quotes the lines.

* `locked_batch`: "Checkout already refuses orders" for locked batches
  (`aggregation/production.go:38`). It does so only through the cutoffs of the
  orders that count. When the order with the earliest cutoff is cancelled after
  the lock, a later order is taken for the locked day.
* `long_notice`: the suggestion "is the nearest pickup that works"
  (`orders/checkout.go:155`). The quote reads closed days around the pickup asked
  for; with a notice that reaches past them, a closed day is suggested.
* `kitchen_twice`: "Stock is allocated by date, so no gram counts twice"
  (`aggregation/engine.go:199`). Two batches that are made at the same time do not
  see each other: the earlier day's job has read the list of dates before, and the later day's
  reads the claims before. Both count on the same stock, and no job is left to
  notice. For batches that exist, `GramsCountOnce` proves that it cannot happen.
* `kitchen_retry`: "any other failure is retried" (`aggregation/worker/worker.go:185`).
  Not when a broken recipe of another day was met in the same job: the job is
  cancelled, and the day keeps a list that misses an order.

Others have no run of their own; they showed while modelling.

* "A unit costs the most" at `u = 1`, "since a larger batch only lowers the cost per unit"
  (`catalog/reader.go:195`) holds for a fixed part plus a part per unit, which is what
  `EstimateCovers` is about. It does not for a power above 1, for measured points that rise more
  and more, or for an item of less than one unit with a fixed part.
* "In the order they were written" (`platform/outbox/publisher.go:45`) holds between changes
  that do not overlap. Of two that do, the one that commits later may have the lower numbers and
  is published second; `OrderKept` says what is left.
* After `Complete` "the later batches are computed again with what it left"
  (`aggregation/production.go:95`). Nothing subscribes to `batch.completed`; they are computed again because
  stock was taken, so not when the ledger has none of what the batch still needs. What it
  counted on may then stay blocked: a batch that is computed by hand after its day, with an ingredient
  that fell out of its orders while a recipe was broken, frees stock that no job gives to
  later lists. It takes two ingredients; `Settled` is run with one. The attempt to prove `Settled` found it.
* The limiter's "five an hour" per phone is a burst of five and one more each twelve
  minutes, so up to nine within an hour.
* A delivery claimed by a handler that stopped, or whose `Release` failed, is answered with 200 and no
  code when it is retried; and a code may go out twice if WhatsApp took it and its
  answer was lost. `cut` and `unsure` mark both in `OtpHook`.

## Only model-checked

* Liveness (`NoEndlessWait`, `LockIsGranted`, `CallsEnd`, `AllPublished`) is beyond the proof system.
* `Settled` where a batch is finished after its day. It does not hold of several ingredients
  then (see above), so this part is a claim about the instance that is run, with one.

That overlapping sweeps are as harmless as one is not run but proved (`ExpiredAlwaysUnpaid`).

## Not modelled, and why

* Generated code (`api/gen`, the queries' `*.sql.go`) is more than half of the lines
  outside tests. It converts and forwards; what a query does is in the action that calls it.
* Handlers, telemetry, logging, configuration and HTTP servers decide nothing the properties tell apart.
* Recipe formulas and powers that are not whole are evaluated in floating point by
  an expression library; TLC has integers only.
* Signatures and tokens are cryptography; who may do what is a table of roles.
* The rest of catalog and settings edits (names, suppliers, closed dates) are single validated
  statements under one row's lock.
* The provider is only the port `payments.Provider`: its adapter and its webhook are not in
  the code yet.
* Three hazards have no property: the batch's cutoff an order is locked with
  (`scheduling/plan.go:84`), what `Complete` uses while a job waits (`aggregation/production.go:118`), and a
  failure noted late (`aggregation/engine.go:192`). The models have the steps, but neither code
  nor docs promise more than what happens.

## What is left

Nothing of the runs' safety properties is left to prove within the limits above; what is not modelled
is listed there with its reason.
