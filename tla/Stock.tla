-------------------------------- MODULE Stock --------------------------------
(***************************************************************************)
(* The kitchen's stock (package inventory): lots of ingredients, the       *)
(* deliveries and counts the kitchen enters and its phone sends again and  *)
(* again, what suppliers deliver, its looks at lots, and what finished     *)
(* batches use.                                                            *)
(*                                                                         *)
(* A call first looks for its idempotency key, then in one transaction     *)
(* claims the key, takes its locks in turn, reading the lots of each       *)
(* ingredient it locks, and commits.  Each is a step, and a call may stop  *)
(* at any of them; PostgreSQL ends one of those that wait in a circle.     *)
(* The worker marks lots expired without any of the locks.                 *)
(*                                                                         *)
(* A lot's balance is the sum of its rows of the ledger, of which only the *)
(* sum is kept.                                                            *)
(***************************************************************************)
EXTENDS Integers, Sequences, FiniteSetsExt

CONSTANTS
  Ingredient,     \* by number, as their ids are ordered
  Policy,         \* of each: "auto", "confirm" or "never"
  ShelfLife,      \* of each: how long it keeps, or Never
  Batch,          \* batches, by what the calls are about
  Call,           \* calls; two with one key are one sent twice
  Asked,          \* what each asks for
  Plans,          \* bound: which calls are made together
  LotId,          \* by number, as their ids are ordered
  Day,
  CheckValidFor,  \* how long a look at a lot is good for
  MaxTries,       \* bound: how often each call is sent
  MaxTime         \* bound: where the clock stops

Nobody == "nobody"
Never == -1

ASSUME StockAssumption ==
  /\ Ingredient \subseteq Nat /\ LotId \subseteq Nat /\ IsFiniteSet(LotId)
  /\ Batch \cap Ingredient = {}
  /\ Policy \in [Ingredient -> {"auto", "confirm", "never"}]
  /\ ShelfLife \in [Ingredient -> (Nat \ {0}) \cup {Never}]
  /\ Day \in Nat \ {0} /\ CheckValidFor \in Nat
  /\ MaxTries \in Nat /\ MaxTime \in Nat /\ MaxTime >= Day
  /\ Nobody \notin Call /\ Plans \subseteq SUBSET Call
  /\ \A c \in Call :
       /\ Asked[c].kind \in {"receive", "purchase", "count", "consume", "ok", "discard"}
       /\ Asked[c].kind \in {"receive", "count"} =>
            Asked[c].ingredient \in Ingredient /\ Asked[c].qty \in Nat
       /\ Asked[c].kind = "receive" => Asked[c].qty > 0
       /\ Asked[c].kind \in {"receive", "purchase"} => Asked[c].ago \in 0 .. Day
       /\ Asked[c].kind \in {"purchase", "consume"} =>
            /\ Asked[c].batch \in Batch
            /\ Asked[c].list \in Seq([ingredient : Ingredient, qty : Nat \ {0}])
  /\ \A c, d \in Call :
       ( /\ Asked[c].kind \in {"receive", "purchase", "count"}
         /\ Asked[c].kind = Asked[d].kind /\ Asked[c].key = Asked[d].key )
       => Asked[c] = Asked[d]

VARIABLES
  clock,
  lots,     \* by id
  entered,  \* the keys used
  holder,   \* who has the lock of each ingredient and of each batch
  pc,       \* what each call does next
  tries,    \* how often it was sent
  now,      \* the time it read
  target,   \* the lot it looks at
  change,   \* what it has written to each lot, not yet committed
  fresh     \* the lots it has inserted, by ingredient, not yet committed

vars == <<clock, lots, entered, holder, pc, tries, now, target, change, fresh>>

NoLot == [status |-> "none"]

NewLot(i, qty, at, life, ok) ==
  [ingredient |-> i, at |-> at, expires |-> IF life = Never THEN Never ELSE at + life,
   status |-> "available", balance |-> qty, ok |-> ok]

NoLots == [i \in Ingredient |-> NoLot]

NoChange == [move |-> 0, to |-> "same", ok |-> Never]
NoChanges == [n \in LotId |-> NoChange]

Init ==
  /\ clock = Day   \* a day before it deliveries may be dated back to
  /\ lots = [n \in LotId |-> NoLot]
  /\ entered = {}
  /\ holder = [l \in Ingredient \cup Batch |-> Nobody]
  /\ pc = [c \in Call |-> "idle"]
  /\ \E plan \in Plans : tries = [c \in Call |-> IF c \in plan THEN 0 ELSE MaxTries]
  /\ now = [c \in Call |-> 0]
  /\ target = [c \in Call |-> 0]
  /\ change = [c \in Call |-> NoChanges]
  /\ fresh = [c \in Call |-> NoLots]

Tick ==
  /\ clock < MaxTime
  /\ clock' = clock + 1
  /\ UNCHANGED <<lots, entered, holder, pc, tries, now, target, change, fresh>>

-----------------------------------------------------------------------------
\* Lots.

DateOf(t) == t \div Day

\* The lot is past its expiry at time t.
PastBy(l, t) == l.expires # Never /\ l.expires <= t

\* Fault: a lot counts for the day it expires on.
KeepsFor_ItsDay(l, d) == l.expires = Never \/ l.expires >= d * Day

\* The lot keeps until the end of day d.
KeepsFor(l, d) == l.expires = Never \/ l.expires >= (d + 1) * Day

\* What is left of the lot counts as stock for a batch made on day d.
Countable(l, d) ==
  /\ l.status = "available" /\ l.balance > 0
  /\ KeepsFor(l, d)
  /\ \/ Policy[l.ingredient] = "auto"
     \/ /\ Policy[l.ingredient] = "confirm"
        /\ l.ok # Never /\ l.ok <= clock /\ clock - l.ok <= CheckValidFor

Left(n) == Max({lots[n].balance, 0})
Sum(S) == SumFunctionOnSet([n \in LotId |-> Left(n)], S)

LotsOf(i, statuses) == {n \in LotId : lots[n].status \in statuses /\ lots[n].ingredient = i}

\* What Lots, and Count with it, may still find something in.
Counted == {"available", "expired"}

Older(m, n) == lots[m].at < lots[n].at \/ (lots[m].at = lots[n].at /\ m < n)

\* Fault: the youngest go first.
Ahead_Younger(S, n) == {m \in S : Older(n, m)}

\* The lots of S that are emptied before n.
Ahead(S, n) == {m \in S : Older(m, n)}

\* Takes qty out of the lots S, oldest first, and closes those it empties.
TakeOut(S, qty) ==
  [ n \in LotId |->
      LET rest == Max({qty - Sum(Ahead(S, n)), 0})
          taken == IF n \in S THEN Min({Left(n), rest}) ELSE 0
      IN  IF taken = 0 THEN NoChange
          ELSE [move |-> -taken, to |-> IF taken = lots[n].balance THEN "exhausted" ELSE "same",
                ok |-> Never] ]

NewestAvailable(i) ==
  LET some == {n \in LotsOf(i, {"available"}) : lots[n].balance > 0}
  IN  {n \in some : \A m \in some : m = n \/ Older(m, n)}

-----------------------------------------------------------------------------
\* What each kind of call does to the lots, once it has the lock.

\* A delivery for a purchase is known by the order it closes, which is locked
\* first (LockOrder) as the others' keys are claimed.
Keyed(c) == Asked[c].kind \in {"receive", "purchase", "count"}
KeyOf(c) == <<Asked[c].kind, Asked[c].key>>

\* How much more the kitchen counted than there is.
Surplus(c) == Asked[c].qty - Sum(LotsOf(Asked[c].ingredient, Counted))

\* The quantity a batch uses, or a supplier brings, of an ingredient.
ListedOf(a, i) ==
  LET n == CHOOSE m \in DOMAIN a.list : a.list[m].ingredient = i
  IN  a.list[n].qty

\* A lot is refused: nothing left of it, or past its expiry and called good.
CheckRefused(c) ==
  LET l == lots[target[c]]
  IN  \/ l.balance <= 0 \/ l.status \notin Counted
      \/ Asked[c].kind = "ok" /\ (l.status = "expired" \/ PastBy(l, now[c]))

CountChanges(c) ==
  LET i == Asked[c].ingredient
  IN  IF Surplus(c) < 0 THEN TakeOut(LotsOf(i, Counted), -Surplus(c))
      ELSE IF Surplus(c) = 0 THEN NoChanges
      ELSE [n \in LotId |-> IF n \in NewestAvailable(i) THEN [NoChange EXCEPT !.move = Surplus(c)]
                            ELSE NoChange]

CheckChanges(c) ==
  [NoChanges EXCEPT ![target[c]] =
     IF Asked[c].kind = "ok" THEN [NoChange EXCEPT !.ok = now[c]]
     ELSE [move |-> -lots[target[c]].balance, to |-> "discarded", ok |-> Never]]

ConsumeChanges(c, i) ==
  [n \in LotId |-> IF n \in LotsOf(i, {"available"})
                   THEN TakeOut(LotsOf(i, {"available"}), ListedOf(Asked[c], i))[n]
                   ELSE change[c][n]]

Changes(c, i) ==
  CASE Asked[c].kind \in {"receive", "purchase"} -> NoChanges
    [] Asked[c].kind = "count"   -> CountChanges(c)
    [] Asked[c].kind = "consume" -> ConsumeChanges(c, i)
    [] OTHER                     -> CheckChanges(c)

\* A delivery of something perishable counts as looked at when it arrived.
Intake(i, qty, at) == NewLot(i, qty, at, ShelfLife[i], IF Policy[i] = "confirm" THEN at ELSE Never)

Fresh(c, i) ==
  LET a == Asked[c]
  IN  CASE a.kind = "receive"  -> Intake(i, a.qty, now[c] - a.ago)
        [] a.kind = "purchase" -> Intake(i, ListedOf(a, i), now[c] - a.ago)
        [] a.kind = "count" /\ Surplus(c) > 0 /\ NewestAvailable(i) = {} ->
             NewLot(i, Surplus(c), now[c], ShelfLife[i], Never)
        [] OTHER -> NoLot

-----------------------------------------------------------------------------
\* Calls.

\* Fault: a transaction that is left open keeps its locks.
Unlock_Never(c) == holder' = holder

Unlock(c) == holder' = [l \in DOMAIN holder |-> IF holder[l] = c THEN Nobody ELSE holder[l]]

\* The call is over: the end of its transaction lets go of its locks.
Over(c) ==
  /\ pc' = [pc EXCEPT ![c] = "idle"]
  /\ now' = [now EXCEPT ![c] = 0]
  /\ target' = [target EXCEPT ![c] = 0]
  /\ Unlock(c)
  /\ change' = [change EXCEPT ![c] = NoChanges]
  /\ fresh' = [fresh EXCEPT ![c] = NoLots]

\* What comes next for a call just sent.
Begins(c) == IF Keyed(c) THEN "claiming" ELSE "locking"

\* A key used before is answered at once, with the first result or, if it was
\* used for something else, with an error: nothing happens.
Send(c) ==
  /\ pc[c] = "idle" /\ tries[c] < MaxTries
  /\ Keyed(c) => KeyOf(c) \notin entered
  /\ tries' = [tries EXCEPT ![c] = @ + 1]
  /\ now' = [now EXCEPT ![c] = clock]
  /\ IF Asked[c].kind \in {"ok", "discard"}
     THEN \E n \in LotId : lots[n] # NoLot /\ target' = [target EXCEPT ![c] = n]
     ELSE UNCHANGED target
  /\ pc' = [pc EXCEPT ![c] = Begins(c)]
  /\ UNCHANGED <<clock, lots, entered, holder, change, fresh>>

\* Somebody else claimed the key and has not committed yet.
ClaimInFlight(c) ==
  \E d \in Call \ {c} : Keyed(d) /\ KeyOf(d) = KeyOf(c) /\ pc[d] \in {"locking", "ending"}

\* Fault: the claim does not look for a twin.
Claimed_Never(c) == FALSE

Claimed(c) == KeyOf(c) \in entered

\* ClaimRequest waits for a twin in flight; after one that committed there is
\* nothing left to do.
Claim(c) ==
  /\ pc[c] = "claiming" /\ ~ClaimInFlight(c)
  /\ IF Claimed(c) THEN Over(c)
     ELSE /\ pc' = [pc EXCEPT ![c] = "locking"]
          /\ UNCHANGED <<holder, now, target, change, fresh>>
  /\ UNCHANGED <<clock, lots, entered, tries>>

Listed(a) == {a.list[n].ingredient : n \in DOMAIN a.list}

\* The locks a call takes, one after the other.
Locks(c) ==
  LET a == Asked[c]
  IN  CASE a.kind \in {"receive", "count"}    -> {a.ingredient}
        [] a.kind \in {"consume", "purchase"} -> Listed(a) \cup {a.batch}
        [] OTHER                              -> {lots[target[c]].ingredient}

Held(c) == {l \in DOMAIN holder : holder[l] = c}

\* The first of the list that the call has not locked.
NextListed(c) ==
  LET list == Asked[c].list
  IN  list[Min({n \in DOMAIN list : list[n].ingredient \notin Held(c)})].ingredient

\* Fault: a batch takes its ingredients as they are listed.
NextUsed_AsListed(c) == NextListed(c)

\* A batch takes its ingredients in the order of their ids.
NextUsed(c) == Min(Listed(Asked[c]) \ Held(c))

\* Complete starts with its batch, and a delivery for a purchase ends with it,
\* to note it on its list.
NextLock(c) ==
  LET a == Asked[c]
  IN  CASE a.kind = "consume"  -> IF a.batch \in Held(c) THEN NextUsed(c) ELSE a.batch
        [] a.kind = "purchase" -> IF Listed(a) \subseteq Held(c) THEN a.batch ELSE NextListed(c)
        [] OTHER               -> CHOOSE l \in Locks(c) : TRUE

\* Fault: nobody is waited for.
LockFree_Always(l) == TRUE

LockFree(l) == holder[l] = Nobody

\* Takes the next lock, and if it is an ingredient's, reads its lots and writes.
TakeLock(c) ==
  LET l == NextLock(c)
  IN  /\ pc[c] = "locking" /\ LockFree(l)
      /\ IF Asked[c].kind \in {"ok", "discard"} /\ CheckRefused(c)
         THEN Over(c)
         ELSE /\ holder' = [holder EXCEPT ![l] = c]
              /\ IF l \in Batch THEN UNCHANGED <<change, fresh>>
                 ELSE /\ change' = [change EXCEPT ![c] = Changes(c, l)]
                      /\ fresh' = [fresh EXCEPT ![c][l] = Fresh(c, l)]
              /\ pc' = [pc EXCEPT ![c] = IF Locks(c) \subseteq Held(c) \cup {l} THEN "ending" ELSE "locking"]
              /\ UNCHANGED <<now, target>>
      /\ UNCHANGED <<clock, lots, entered, tries>>

\* The call waits for d to end: it has the next lock.
WaitsFor(c, d) == pc[c] = "locking" /\ holder[NextLock(c)] = d

Waits(c) == pc[c] = "locking" /\ ~LockFree(NextLock(c))
Waiting == {c \in Call : Waits(c)}

\* Calls that wait for each other, each of them for another one of them.
Circle(S) == S # {} /\ \A c \in S : (\E d \in S : WaitsFor(c, d)) /\ (\E d \in S : WaitsFor(d, c))

\* PostgreSQL finds the circle and fails the statement of one of them.
Kill(c) ==
  /\ Waits(c) /\ \E S \in SUBSET Waiting : c \in S /\ Circle(S)
  /\ Over(c)
  /\ UNCHANGED <<clock, lots, entered, tries>>

\* A lot after what a call wrote to it.
Changed(l, w) ==
  IF w = NoChange THEN l
  ELSE [l EXCEPT !.balance = @ + w.move, !.status = IF w.to = "same" THEN @ ELSE w.to,
                 !.ok = Max({@, w.ok})]

Commit(c) ==
  /\ pc[c] = "ending"
  /\ LET inserted == {i \in Ingredient : fresh[c][i] # NoLot}
     IN  \E id \in Injection(inserted, {n \in LotId : lots[n] = NoLot}) :
           lots' = [ n \in LotId |->
                       IF \E i \in inserted : id[i] = n
                       THEN fresh[c][CHOOSE i \in inserted : id[i] = n]
                       ELSE Changed(lots[n], change[c][n]) ]
  /\ entered' = IF Keyed(c) THEN entered \cup {KeyOf(c)} ELSE entered
  /\ Over(c)
  /\ UNCHANGED <<clock, tries>>

\* The call stops, or a statement fails; its transaction is rolled back.
Stop(c) ==
  /\ pc[c] # "idle"
  /\ Over(c)
  /\ UNCHANGED <<clock, lots, entered, tries>>

\* The worker's job.
ExpireLots ==
  LET past == {n \in LotId : lots[n].status = "available" /\ PastBy(lots[n], clock)}
  IN  /\ past # {}
      /\ lots' = [n \in LotId |-> IF n \in past THEN [lots[n] EXCEPT !.status = "expired"] ELSE lots[n]]
      /\ UNCHANGED <<clock, entered, holder, pc, tries, now, target, change, fresh>>

-----------------------------------------------------------------------------
Work(c) == Claim(c) \/ TakeLock(c) \/ Commit(c) \/ Kill(c)

Next ==
  \/ Tick
  \/ \E c \in Call : Send(c) \/ Work(c) \/ Stop(c)
  \/ ExpireLots

Spec == Init /\ [][Next]_vars

\* As long as some call can go on, one does.  Each is sent MaxTries times at
\* most, so that none is overtaken forever.
FairSpec == Spec /\ WF_vars(\E c \in Call : Work(c))

-----------------------------------------------------------------------------
\* Properties.

Lot == [ingredient : Ingredient, at : Int, expires : Int, balance : Int, ok : Int,
        status : {"available", "exhausted", "discarded", "expired"}]

\* Every variable has the shape the code gives it.
TypeOK ==
  /\ clock \in Day .. MaxTime
  /\ lots \in [LotId -> Lot \cup {NoLot}]
  /\ entered \subseteq {KeyOf(c) : c \in {d \in Call : Keyed(d)}}
  /\ holder \in [Ingredient \cup Batch -> Call \cup {Nobody}]
  /\ pc \in [Call -> {"idle", "claiming", "locking", "ending"}]
  /\ fresh \in [Call -> [Ingredient -> Lot \cup {NoLot}]]
  /\ \A c \in Call : pc[c] = "ending" => Held(c) = Locks(c)

\* No lot ever holds less than nothing, and one is closed, as used up or
\* thrown away, exactly when nothing is left of it: whatever calls race each
\* other and the worker (LockIngredient, SetLotStatus).
ClosedIffEmpty ==
  \A n \in LotId :
    lots[n] # NoLot =>
      /\ lots[n].balance >= 0
      /\ lots[n].balance = 0 <=> lots[n].status \in {"exhausted", "discarded"}

\* A batch and a count take the oldest first: a lot loses some, but for being
\* thrown away, only together with the rest of every older one (Consume, count).
Emptied ==
  \A m, n \in LotId :
    (/\ lots[m].status = "available" /\ lots[n].status = "available"
     /\ lots[m].ingredient = lots[n].ingredient /\ Older(m, n)
     /\ lots'[n].balance < lots[n].balance /\ lots'[n].status # "discarded")
    => lots'[m].balance = 0

OldestFirst == [][Emptied]_vars

\* "Marking changes no shopping list: an expired lot never counted for a batch
\* after its expiry anyway" (Periodic): not for today's batch nor a later one.
NotCounted ==
  \A n \in LotId :
    lots[n].status = "available" /\ lots'[n].status = "expired" =>
      \A d \in DateOf(clock) .. DateOf(MaxTime) + 1 : ~Countable(lots[n], d)

MarkingChangesNoList == [][NotCounted]_vars

\* What an entry says, for all calls that share its key.
Says ==
  [k \in {KeyOf(c) : c \in {d \in Call : Keyed(d)}} |->
     LET a == Asked[CHOOSE c \in Call : Keyed(c) /\ KeyOf(c) = k]
         brought == IF a.kind = "purchase" THEN Listed(a) ELSE {a.ingredient}
         qty(i) == IF a.kind = "purchase" THEN ListedOf(a, i) ELSE a.qty
     IN  [counts |-> a.kind = "count", brings |-> [i \in brought |-> qty(i)]] ]

Promise == INSTANCE StockPromise
  WITH Entry <- DOMAIN Says,
       shelf <- [i \in Ingredient |-> Sum(LotsOf(i, Counted))]

\* The stock is what was entered, once each, less what was taken: lots, locks,
\* retries, twins and the worker do not show (Receive, Count, Consume, Check).
KeepsPromise == Promise!Spec

\* "Two consumptions never wait on each other in a circle" (Consume), and no
\* other calls do among which no purchase is received: its order of locks is
\* the list's, and its batch comes last (procurement's Receive).
NoCircle ==
  \A S \in SUBSET Waiting : Circle(S) => \E c \in S : Asked[c].kind = "purchase"

\* The calls under way end, all of them, those that waited in a circle too.
CallsEnd == (\E c \in Call : pc[c] # "idle") ~> (\A c \in Call : pc[c] = "idle")

=============================================================================
