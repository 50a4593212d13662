----------------------------- MODULE StockProofs -----------------------------
(***************************************************************************)
(* Proofs about Stock, for any ingredients, lots, calls and bounds.  All   *)
(* of them rest on the locks: what a call has written to the lots of an    *)
(* ingredient, and not committed yet, is still right for them when it      *)
(* does, as others change the lots of other ingredients only and the       *)
(* worker changes nothing of a lot but its status.                         *)
(***************************************************************************)
EXTENDS Stock, Sums

-----------------------------------------------------------------------------
\* The invariant.

Write == [move : Int, to : {"same", "exhausted", "discarded"}, ok : Int]

Typed ==
  /\ clock \in Day .. MaxTime
  /\ lots \in [LotId -> Lot \cup {NoLot}]
  /\ entered \subseteq {KeyOf(c) : c \in {d \in Call : Keyed(d)}}
  /\ holder \in [Ingredient \cup Batch -> Call \cup {Nobody}]
  /\ pc \in [Call -> {"idle", "claiming", "locking", "ending"}]
  /\ now \in [Call -> Int]
  /\ target \in [Call -> LotId \cup {0}]
  /\ change \in [Call -> [LotId -> Write]]
  /\ fresh \in [Call -> [Ingredient -> Lot \cup {NoLot}]]

Looks(c) == Asked[c].kind \in {"ok", "discard"}

\* A call that looks at a lot looks at one there is.
Looking(c) == Looks(c) /\ pc[c] # "idle" => target[c] \in LotId /\ lots[target[c]] # NoLot

\* A call has some of its locks while it takes them, then all of them.
HoldsItsLocks(c) ==
  /\ pc[c] \in {"idle", "claiming"} =>
       Held(c) = {} /\ change[c] = NoChanges /\ fresh[c] = NoLots
  /\ pc[c] = "locking" => Held(c) \subseteq Locks(c) /\ Held(c) # Locks(c)
  /\ pc[c] = "ending" => Held(c) = Locks(c)

\* What it has written to a lot fits what the lot still is.
Fits(l, w) ==
  /\ l.status \in Counted
  /\ l.balance + w.move >= 0
  /\ w.to = "same" <=> l.balance + w.move > 0

Written(c) ==
  \A n \in LotId : change[c][n] # NoChange =>
    lots[n] # NoLot /\ lots[n].ingredient \in Held(c) /\ Fits(lots[n], change[c][n])

Inserted(c) ==
  \A i \in Ingredient : fresh[c][i] # NoLot =>
    /\ i \in Held(c) /\ fresh[c][i].ingredient = i
    /\ fresh[c][i].status = "available" /\ fresh[c][i].balance > 0

\* A batch has locked itself, and of its ingredients those with the lowest ids.
UsesInOrder(c) ==
  Asked[c].kind = "consume" =>
    /\ Held(c) # {} => Asked[c].batch \in Held(c)
    /\ \A i \in Held(c) \cap Ingredient, j \in Listed(Asked[c]) \ Held(c) : i < j

\* It takes from a lot only with all that is left of the older ones.
TakesOldest(c) ==
  \A m, n \in LotId :
    /\ change[c][n].move < 0 /\ change[c][n].to # "discarded"
    /\ lots[m].status = "available" /\ lots[m].ingredient = lots[n].ingredient
    /\ Older(m, n)
    => change[c][m].move + lots[m].balance = 0

CallOK(c) ==
  /\ Looking(c) /\ HoldsItsLocks(c) /\ Written(c) /\ Inserted(c)
  /\ UsesInOrder(c) /\ TakesOldest(c)

IInv == Typed /\ ClosedIffEmpty /\ \A c \in Call : CallOK(c)

-----------------------------------------------------------------------------
\* The model's operators.

\* The lots that still count.
LEMMA LotIs ==
  ASSUME Typed, ClosedIffEmpty, NEW n \in LotId, lots[n].status \in Counted
  PROVE  /\ lots[n] \in Lot /\ lots[n] # NoLot
         /\ lots[n].balance \in Nat \ {0}
         /\ Left(n) = lots[n].balance
<1>1. lots[n] # NoLot
      BY DEF Counted, NoLot
<1>2. lots[n] \in Lot
      BY <1>1 DEF Typed
<1>3. lots[n].balance \in Int /\ lots[n].balance > 0
      BY <1>1, <1>2 DEF Lot, Counted, ClosedIffEmpty
<1>4. Left(n) = lots[n].balance
      BY <1>3, MaxOfTwo DEF Left
<1> QED BY <1>1, <1>2, <1>3, <1>4

Stocked == {n \in LotId : lots[n].status \in Counted}

LeftOf == [n \in LotId |-> Left(n)]

LEMMA SumOfLots ==
  ASSUME Typed, ClosedIffEmpty, NEW S, S \subseteq Stocked
  PROVE  /\ Adds(LeftOf, S) /\ S \subseteq LotId
         /\ Sum(S) = SumFunctionOnSet(LeftOf, S)
         /\ Sum(S) \in Nat
<1>1. IsFiniteSet(S) /\ S \subseteq LotId
      BY StockAssumption, FS_Subset DEF Stocked
<1>2. \A n \in S : LeftOf[n] \in Nat
      BY LotIs DEF Stocked, LeftOf
<1>3. Adds(LeftOf, S)
      BY <1>1, <1>2 DEF Adds
<1>4. Sum(S) = SumFunctionOnSet(LeftOf, S)
      BY DEF Sum, LeftOf
<1> HIDE DEF LeftOf
<1>5. SumFunctionOnSet(LeftOf, S) \in Nat
      BY <1>1, <1>2, SumPositive
<1> QED BY <1>1, <1>3, <1>4, <1>5

\* What TakeOut takes of a lot.
Rest(S, qty, n) == Max({qty - Sum(Ahead(S, n)), 0})
Taken(S, qty, n) == IF n \in S THEN Min({Left(n), Rest(S, qty, n)}) ELSE 0

LEMMA TakenIs ==
  ASSUME Typed, ClosedIffEmpty, NEW S, S \subseteq Stocked, NEW qty \in Nat, NEW n \in LotId
  PROVE  /\ Sum(Ahead(S, n)) \in Nat
         /\ Taken(S, qty, n) \in Nat
         /\ n \in S => /\ Taken(S, qty, n) <= lots[n].balance
                       /\ Taken(S, qty, n) =
                            IF qty <= Sum(Ahead(S, n)) THEN 0
                            ELSE IF lots[n].balance <= qty - Sum(Ahead(S, n)) THEN lots[n].balance
                            ELSE qty - Sum(Ahead(S, n))
<1>1. Ahead(S, n) \subseteq Stocked
      BY DEF Ahead
<1>2. Sum(Ahead(S, n)) \in Nat
      BY <1>1, SumOfLots
<1>3. /\ Rest(S, qty, n) \in Nat
      /\ Rest(S, qty, n) = IF qty <= Sum(Ahead(S, n)) THEN 0 ELSE qty - Sum(Ahead(S, n))
      BY <1>2, MaxOfTwo DEF Rest
<1>4. CASE n \notin S
      BY <1>2, <1>4 DEF Taken
<1>5. CASE n \in S
  <2>1. Left(n) = lots[n].balance /\ lots[n].balance \in Nat
        BY <1>5, LotIs DEF Stocked
  <2>2. Taken(S, qty, n) = IF Left(n) <= Rest(S, qty, n) THEN Left(n) ELSE Rest(S, qty, n)
        BY <1>3, <1>5, <2>1, MinOfTwo DEF Taken
  <2> QED BY <1>2, <1>3, <2>1, <2>2
<1> QED BY <1>4, <1>5

LEMMA TakeOutIs ==
  ASSUME Typed, ClosedIffEmpty, NEW S, S \subseteq Stocked, NEW qty \in Nat
  PROVE  /\ TakeOut(S, qty) \in [LotId -> Write]
         /\ \A n \in LotId :
              LET w == TakeOut(S, qty)[n]
              IN  /\ w.move + Taken(S, qty, n) = 0
                  /\ w # NoChange => n \in S /\ w.move < 0
                  /\ w # NoChange => w.to # "discarded" /\ Fits(lots[n], w)
<1>1. ASSUME NEW n \in LotId
      PROVE  LET w == TakeOut(S, qty)[n]
             IN  /\ w \in Write /\ w.move + Taken(S, qty, n) = 0
                 /\ w # NoChange => n \in S /\ w.move < 0
                 /\ w # NoChange => w.to # "discarded" /\ Fits(lots[n], w)
  <2> DEFINE t == Taken(S, qty, n)
             w == TakeOut(S, qty)[n]
  <2>1. w = IF t = 0 THEN NoChange
            ELSE [move |-> -t, to |-> IF t = lots[n].balance THEN "exhausted" ELSE "same",
                  ok |-> Never]
        BY DEF TakeOut, Taken, Rest
  <2>2. t \in Nat /\ (n \notin S => t = 0) /\ (n \in S => t <= lots[n].balance)
        BY TakenIs DEF Taken
  <2> HIDE DEF t, w
  <2>3. CASE t = 0
    <3>1. w = NoChange
          BY <2>1, <2>3
    <3>2. NoChange \in Write /\ NoChange.move = 0
          BY DEF NoChange, Write, Never
    <3> QED BY <2>3, <3>1, <3>2 DEF w, t
  <2>4. CASE t # 0
    <3>1. n \in S /\ lots[n].status \in Counted
          BY <2>2, <2>4 DEF Stocked
    <3>2. lots[n].balance \in Nat
          BY <3>1, LotIs
    <3>3. /\ w.move + t = 0 /\ w.ok = Never
          /\ w.to = IF t = lots[n].balance THEN "exhausted" ELSE "same"
          /\ w \in Write
          BY <2>1, <2>2, <2>4 DEF Write, Never
    <3>4. w.move \in Int /\ w.move < 0 /\ w.to # "discarded"
          BY <2>2, <2>4, <3>3 DEF Write
    <3>5. Fits(lots[n], w)
          BY <2>2, <2>4, <3>1, <3>2, <3>3, <3>4 DEF Fits
    <3> QED BY <3>1, <3>3, <3>4, <3>5 DEF t, w
  <2> QED BY <2>3, <2>4
<1>2. TakeOut(S, qty) \in [LotId -> Write]
      BY <1>1 DEF TakeOut
<1> QED BY <1>1, <1>2

LEMMA OlderIsOrder ==
  ASSUME Typed, NEW k \in Stocked, NEW m \in Stocked, NEW n \in Stocked
  PROVE  /\ Older(k, m) /\ Older(m, n) => Older(k, n)
         /\ ~(Older(m, n) /\ Older(n, m))
         /\ Older(m, n) \/ Older(n, m) \/ m = n
<1>1. \A x \in Stocked : x \in Int /\ lots[x].at \in Int
  <2> SUFFICES ASSUME NEW x \in Stocked PROVE x \in Int /\ lots[x].at \in Int
      OBVIOUS
  <2>1. x \in LotId /\ lots[x] # NoLot
        BY DEF Stocked, Counted, NoLot
  <2>2. lots[x] \in Lot
        BY <2>1 DEF Typed
  <2> QED BY <2>1, <2>2, StockAssumption DEF Lot
<1> QED BY <1>1 DEF Older

LEMMA FewerLots ==
  ASSUME Typed, ClosedIffEmpty, NEW S, S \subseteq Stocked, NEW T, T \subseteq S
  PROVE  Sum(T) <= Sum(S)
<1>1. /\ Adds(LeftOf, S) /\ Sum(S) = SumFunctionOnSet(LeftOf, S)
      /\ Sum(T) = SumFunctionOnSet(LeftOf, T) /\ Sum(T) \in Nat
      /\ Sum(S \ T) = SumFunctionOnSet(LeftOf, S \ T) /\ Sum(S \ T) \in Nat
      BY SumOfLots
<1>2. SumFunctionOnSet(LeftOf, S) = SumFunctionOnSet(LeftOf, T) + SumFunctionOnSet(LeftOf, S \ T)
  <2> DEFINE Q == S \ T
  <2>1. T \cup Q = S /\ T \cap Q = {}
        OBVIOUS
  <2> HIDE DEF Q
  <2>2. SumFunctionOnSet(LeftOf, S) = SumFunctionOnSet(LeftOf, T) + SumFunctionOnSet(LeftOf, Q)
        BY <1>1, <2>1, SumParts
  <2> QED BY <2>2 DEF Q
<1> QED BY <1>1, <1>2

\* Nothing is taken of a lot unless all that is left of the older ones is.
LEMMA TakeOutOldest ==
  ASSUME Typed, ClosedIffEmpty, NEW S, S \subseteq Stocked, NEW qty \in Nat,
         NEW m \in S, NEW n \in LotId, Older(m, n), TakeOut(S, qty)[n].move < 0
  PROVE  TakeOut(S, qty)[m].move + lots[m].balance = 0
<1>1. /\ n \in S /\ m \in LotId
      /\ TakeOut(S, qty)[n].move + Taken(S, qty, n) = 0
      /\ TakeOut(S, qty)[m].move + Taken(S, qty, m) = 0
      /\ TakeOut(S, qty)[n].move \in Int /\ TakeOut(S, qty)[m].move \in Int
  <2>1. m \in LotId
        BY DEF Stocked
  <2>2. TakeOut(S, qty)[n] # NoChange
        BY DEF NoChange
  <2>3. TakeOut(S, qty)[n] \in Write /\ TakeOut(S, qty)[m] \in Write
        BY <2>1, TakeOutIs
  <2> QED BY <2>1, <2>2, <2>3, TakeOutIs DEF Write
<1>2. Taken(S, qty, n) \in Nat /\ Taken(S, qty, n) > 0
  <2>1. Taken(S, qty, n) \in Nat
        BY TakenIs
  <2> QED BY <1>1, <2>1
<1>3. qty > Sum(Ahead(S, n)) /\ Sum(Ahead(S, n)) \in Nat
      BY <1>1, <1>2, TakenIs
<1>4. lots[m].balance \in Nat /\ Left(m) = lots[m].balance
      BY LotIs DEF Stocked
<1>5. lots[m].balance + Sum(Ahead(S, m)) <= Sum(Ahead(S, n))
  <2> DEFINE A == Ahead(S, m)
             B == A \cup {m}
  <2>1. A \subseteq S /\ m \notin A /\ B \subseteq Ahead(S, n)
    <3>1. ~Older(m, m)
          BY OlderIsOrder
    <3>2. \A k \in A : k \in S /\ Older(k, n)
          BY <1>1, OlderIsOrder DEF Ahead
    <3> QED BY <3>1, <3>2 DEF Ahead
  <2>2. Sum(B) <= Sum(Ahead(S, n))
    <3>1. Ahead(S, n) \subseteq Stocked
          BY DEF Ahead
    <3> HIDE DEF A, B
    <3> QED BY <2>1, <3>1, FewerLots
  <2>3. Sum(B) = lots[m].balance + Sum(A)
    <3>1. /\ Adds(LeftOf, A) /\ Sum(A) = SumFunctionOnSet(LeftOf, A)
          /\ Sum(B) = SumFunctionOnSet(LeftOf, B)
      <4>1. A \subseteq Stocked /\ B \subseteq Stocked
            BY <2>1
      <4> HIDE DEF A, B
      <4> QED BY <4>1, SumOfLots
    <3>2. LeftOf[m] = lots[m].balance
          BY <1>1, <1>4 DEF LeftOf
    <3> HIDE DEF A
    <3> QED BY <1>4, <2>1, <3>1, <3>2, SumAdd
  <2> QED BY <2>2, <2>3
<1>6. Sum(Ahead(S, m)) \in Nat
      BY <1>1, TakenIs
<1>7. Taken(S, qty, m) = lots[m].balance
      BY <1>1, <1>3, <1>4, <1>5, <1>6, TakenIs
<1> QED BY <1>1, <1>4, <1>7

-----------------------------------------------------------------------------
\* The locks.

LEMMA ListIs ==
  ASSUME NEW c \in Call, Asked[c].kind \in {"consume", "purchase"}
  PROVE  /\ Asked[c].batch \in Batch /\ Asked[c].batch \notin Ingredient
         /\ Listed(Asked[c]) \subseteq Ingredient /\ Listed(Asked[c]) \subseteq Nat
         /\ DOMAIN Asked[c].list \subseteq Nat
         /\ \A n \in DOMAIN Asked[c].list :
              Asked[c].list[n].ingredient \in Ingredient /\ Asked[c].list[n].qty \in Nat \ {0}
         /\ Locks(c) = Listed(Asked[c]) \cup {Asked[c].batch}
<1>1. Asked[c].batch \in Batch /\ Asked[c].list \in Seq([ingredient : Ingredient, qty : Nat \ {0}])
      BY StockAssumption
<1>2. /\ DOMAIN Asked[c].list \subseteq Nat
      /\ \A n \in DOMAIN Asked[c].list :
           Asked[c].list[n] \in [ingredient : Ingredient, qty : Nat \ {0}]
  <2> DEFINE list == Asked[c].list
             R == [ingredient : Ingredient, qty : Nat \ {0}]
  <2> HIDE DEF R, list
  <2>1. list \in Seq(R)
        BY <1>1 DEF list, R
  <2>2. DOMAIN list \subseteq Nat /\ \A n \in DOMAIN list : list[n] \in R
        BY <2>1
  <2> QED BY <2>2 DEF list, R
<1>3. Asked[c].batch \notin Ingredient /\ Ingredient \subseteq Nat
      BY <1>1, StockAssumption
<1>4. Locks(c) = Listed(Asked[c]) \cup {Asked[c].batch}
      BY DEF Locks
<1> QED BY <1>1, <1>2, <1>3, <1>4 DEF Listed

\* What the others lock: one ingredient.
Alone(c) == Asked[c].kind \notin {"consume", "purchase"}

Only(c) == IF Looks(c) THEN lots[target[c]].ingredient ELSE Asked[c].ingredient

LEMMA LocksAlone ==
  ASSUME Typed, NEW c \in Call, Alone(c), Looking(c), pc[c] # "idle"
  PROVE  /\ Locks(c) = {Only(c)} /\ Only(c) \in Ingredient
         /\ NextLock(c) = Only(c)
<1>1. Locks(c) = {Only(c)}
      BY StockAssumption DEF Locks, Only, Looks, Alone
<1>2. Only(c) \in Ingredient
  <2>1. CASE Looks(c)
    <3>1. lots[target[c]] \in Lot
          BY <2>1 DEF Looking, Typed
    <3> QED BY <2>1, <3>1 DEF Only, Lot
  <2>2. CASE ~Looks(c)
        BY <2>2, StockAssumption DEF Only, Looks, Alone
  <2> QED BY <2>1, <2>2
<1>3. NextLock(c) = CHOOSE l \in Locks(c) : TRUE
      BY DEF NextLock, Alone
<1> QED BY <1>1, <1>2, <1>3

LEMMA NextLockIs ==
  ASSUME Typed, NEW c \in Call, CallOK(c), pc[c] = "locking"
  PROVE  /\ NextLock(c) \in Locks(c) \ Held(c)
         /\ Locks(c) \subseteq Ingredient \cup Batch
         /\ NextLock(c) \in Batch => ~Alone(c)
<1>1. Held(c) \subseteq Locks(c) /\ Held(c) # Locks(c)
      BY DEF CallOK, HoldsItsLocks
<1>2. CASE Alone(c)
  <2>1. Locks(c) = {Only(c)} /\ Only(c) \in Ingredient /\ NextLock(c) = Only(c)
        BY <1>2, LocksAlone DEF CallOK
  <2>2. Held(c) = {}
        BY <1>1, <2>1
  <2> QED BY <2>1, <2>2, StockAssumption
<1>3. CASE Asked[c].kind = "consume"
  <2>1. CASE Asked[c].batch \in Held(c)
    <3>1. Listed(Asked[c]) \ Held(c) # {} /\ Listed(Asked[c]) \ Held(c) \subseteq Nat
          BY <1>1, <1>3, <2>1, ListIs
    <3>2. NextUsed(c) \in Listed(Asked[c]) \ Held(c)
          BY <3>1, MinOfSome DEF NextUsed
    <3> QED BY <1>3, <2>1, <3>2, ListIs DEF NextLock, Alone
  <2>2. CASE Asked[c].batch \notin Held(c)
        BY <1>3, <2>2, ListIs DEF NextLock, Alone
  <2> QED BY <2>1, <2>2
<1>4. CASE Asked[c].kind = "purchase"
  <2>1. CASE Listed(Asked[c]) \subseteq Held(c)
    <3>1. Asked[c].batch \notin Held(c)
      <4>1. Locks(c) = Listed(Asked[c]) \cup {Asked[c].batch}
            BY <1>4, ListIs
      <4> QED BY <1>1, <2>1, <4>1
    <3>2. NextLock(c) = Asked[c].batch
          BY <1>4, <2>1 DEF NextLock
    <3> QED BY <1>4, <3>1, <3>2, ListIs DEF Alone
  <2>2. CASE ~(Listed(Asked[c]) \subseteq Held(c))
    <3> DEFINE list == Asked[c].list
               N == {n \in DOMAIN list : list[n].ingredient \notin Held(c)}
    <3>1. N # {} /\ N \subseteq Nat
          BY <1>4, <2>2, ListIs DEF Listed
    <3>2. Min(N) \in N
      <4> HIDE DEF N
      <4> QED BY <3>1, MinOfSome
    <3>3. NextListed(c) \in Listed(Asked[c]) \ Held(c)
          BY <3>2 DEF NextListed, Listed
    <3> QED BY <1>4, <2>2, <3>3, ListIs DEF NextLock, Alone
  <2> QED BY <2>1, <2>2
<1> QED BY <1>2, <1>3, <1>4 DEF Alone

\* A batch's next is the lowest id it has not locked, above those it has.
LEMMA NextOfBatch ==
  ASSUME Typed, NEW c \in Call, CallOK(c), pc[c] = "locking",
         Asked[c].kind = "consume", Held(c) # {}
  PROVE  /\ NextLock(c) \in Listed(Asked[c]) \ Held(c)
         /\ \A j \in Listed(Asked[c]) \ Held(c) : NextLock(c) <= j
         /\ \A i \in Held(c) \cap Ingredient : i < NextLock(c)
<1>1. Held(c) \subseteq Locks(c) /\ Held(c) # Locks(c)
      BY DEF CallOK, HoldsItsLocks
<1>2. Asked[c].batch \in Held(c)
      BY DEF CallOK, UsesInOrder
<1>3. Listed(Asked[c]) \ Held(c) # {} /\ Listed(Asked[c]) \ Held(c) \subseteq Nat
      BY <1>1, <1>2, ListIs
<1>4. NextLock(c) = Min(Listed(Asked[c]) \ Held(c))
      BY <1>2 DEF NextLock, NextUsed
<1>5. /\ NextLock(c) \in Listed(Asked[c]) \ Held(c)
      /\ \A j \in Listed(Asked[c]) \ Held(c) : NextLock(c) <= j
      BY <1>3, <1>4, MinOfSome
<1> QED BY <1>5 DEF CallOK, UsesInOrder

-----------------------------------------------------------------------------
\* What a call writes to the lots of the ingredient it locks.

\* Changes that fit the lots of the ingredients I.
Fitting(ch, I) ==
  \A n \in LotId : ch[n] # NoChange =>
    lots[n] # NoLot /\ lots[n].ingredient \in I /\ Fits(lots[n], ch[n])

Oldest(ch) ==
  \A m, n \in LotId :
    /\ ch[n].move < 0 /\ ch[n].to # "discarded"
    /\ lots[m].status = "available" /\ lots[m].ingredient = lots[n].ingredient
    /\ Older(m, n)
    => ch[m].move + lots[m].balance = 0

Right(ch, I) == ch \in [LotId -> Write] /\ Fitting(ch, I) /\ Oldest(ch)

LEMMA NoChangesRight ==
  ASSUME NEW I
  PROVE  Right(NoChanges, I)
<1>1. NoChange \in Write /\ NoChange.move = 0
      BY DEF NoChange, Write, Never
<1>2. NoChanges \in [LotId -> Write] /\ \A n \in LotId : NoChanges[n] = NoChange
      BY <1>1 DEF NoChanges
<1> HIDE DEF NoChanges, NoChange, Write
<1>3. Fitting(NoChanges, I)
      BY <1>2 DEF Fitting
<1>4. Oldest(NoChanges)
      BY <1>1, <1>2 DEF Oldest
<1> QED BY <1>2, <1>3, <1>4 DEF Right

LEMMA LotsOfStocked ==
  ASSUME NEW i, NEW st \in {Counted, {"available"}}
  PROVE  LotsOf(i, st) \subseteq Stocked
BY DEF LotsOf, Stocked, Counted

LEMMA TakeOutRight ==
  ASSUME Typed, ClosedIffEmpty, NEW i, NEW st \in {Counted, {"available"}}, NEW qty \in Nat
  PROVE  Right(TakeOut(LotsOf(i, st), qty), {i})
<1> DEFINE S == LotsOf(i, st)
           ch == TakeOut(S, qty)
<1>1. S \subseteq Stocked
      BY LotsOfStocked
<1>2. \A n \in S : n \in LotId /\ lots[n].ingredient = i
      BY DEF LotsOf
<1>3. \A n \in LotId : lots[n].status = "available" /\ lots[n].ingredient = i => n \in S
      BY DEF LotsOf, Counted
<1> HIDE DEF S
<1>4. /\ ch \in [LotId -> Write]
      /\ \A n \in LotId : ch[n] # NoChange => n \in S /\ Fits(lots[n], ch[n])
      BY <1>1, TakeOutIs
<1>5. ASSUME NEW m \in S, NEW n \in LotId, Older(m, n), ch[n].move < 0
      PROVE  ch[m].move + lots[m].balance = 0
      BY <1>1, <1>5, TakeOutOldest
<1>6. ASSUME NEW n \in LotId, ch[n].move < 0
      PROVE  n \in S
  <2>1. ch[n] # NoChange
        BY <1>6 DEF NoChange
  <2> QED BY <1>4, <2>1
<1> HIDE DEF ch
<1>7. Fitting(ch, {i})
  <2> SUFFICES ASSUME NEW n \in LotId, ch[n] # NoChange
               PROVE  lots[n] # NoLot /\ lots[n].ingredient \in {i} /\ Fits(lots[n], ch[n])
      BY DEF Fitting
  <2>1. n \in S /\ Fits(lots[n], ch[n]) /\ lots[n].ingredient = i
        BY <1>2, <1>4
  <2>2. lots[n].status \in Counted
        BY <2>1 DEF Fits
  <2> QED BY <2>1, <2>2, LotIs
<1>8. Oldest(ch)
      BY <1>2, <1>3, <1>5, <1>6 DEF Oldest
<1> QED BY <1>4, <1>7, <1>8 DEF Right, ch, S

LEMMA SurplusIs ==
  ASSUME Typed, ClosedIffEmpty, NEW c \in Call, Asked[c].kind = "count"
  PROVE  Surplus(c) \in Int /\ Asked[c].ingredient \in Ingredient /\ Asked[c].qty \in Nat
<1>1. Sum(LotsOf(Asked[c].ingredient, Counted)) \in Nat
  <2>1. LotsOf(Asked[c].ingredient, Counted) \subseteq Stocked
        BY LotsOfStocked
  <2> QED BY <2>1, SumOfLots
<1> QED BY <1>1, StockAssumption DEF Surplus

LEMMA CountRight ==
  ASSUME Typed, ClosedIffEmpty, NEW c \in Call, Asked[c].kind = "count"
  PROVE  Right(CountChanges(c), {Asked[c].ingredient})
<1> DEFINE i == Asked[c].ingredient
<1>1. Surplus(c) \in Int
      BY SurplusIs
<1>2. CASE Surplus(c) < 0
  <2>1. -Surplus(c) \in Nat
        BY <1>1, <1>2
  <2>2. CountChanges(c) = TakeOut(LotsOf(i, Counted), -Surplus(c))
        BY <1>2 DEF CountChanges
  <2> QED BY <2>1, <2>2, TakeOutRight
<1>3. CASE Surplus(c) = 0
  <2>1. CountChanges(c) = NoChanges
        BY <1>3 DEF CountChanges
  <2> QED BY <2>1, NoChangesRight
<1>4. CASE Surplus(c) > 0
  <2> DEFINE ch == CountChanges(c)
             w == [NoChange EXCEPT !.move = Surplus(c)]
  <2>1. ch = [n \in LotId |-> IF n \in NewestAvailable(i) THEN w ELSE NoChange]
        BY <1>1, <1>4 DEF CountChanges
  <2>2. w \in Write /\ NoChange \in Write /\ NoChange.move = 0 /\ w.move = Surplus(c) /\ w.to = "same"
        BY <1>1 DEF NoChange, Write, Never
  <2> HIDE DEF ch, w
  <2>3. ch \in [LotId -> Write] /\ \A n \in LotId : ch[n].move >= 0
        BY <1>1, <1>4, <2>1, <2>2
  <2>4. Oldest(ch)
    <3>1. \A n \in LotId : ch[n].move \in Int
          BY <2>3 DEF Write
    <3> QED BY <2>3, <3>1 DEF Oldest
  <2>5. Fitting(ch, {i})
    <3> SUFFICES ASSUME NEW n \in LotId, ch[n] # NoChange
                 PROVE  lots[n] # NoLot /\ lots[n].ingredient \in {i} /\ Fits(lots[n], ch[n])
        BY DEF Fitting
    <3>1. n \in NewestAvailable(i) /\ ch[n] = w
          BY <2>1
    <3>2. lots[n].status = "available" /\ lots[n].ingredient = i
          BY <3>1 DEF NewestAvailable, LotsOf
    <3>3. lots[n].status \in Counted
          BY <3>2 DEF Counted
    <3>4. lots[n] # NoLot /\ lots[n].balance \in Nat \ {0}
          BY <3>3, LotIs
    <3> QED BY <1>1, <1>4, <2>2, <3>1, <3>2, <3>3, <3>4 DEF Fits
  <2> QED BY <2>3, <2>4, <2>5 DEF ch, Right
<1> QED BY <1>1, <1>2, <1>3, <1>4

LEMMA CheckRight ==
  ASSUME Typed, ClosedIffEmpty, NEW c \in Call, Looks(c), Looking(c), pc[c] # "idle",
         ~CheckRefused(c)
  PROVE  Right(CheckChanges(c), {lots[target[c]].ingredient})
<1> DEFINE t == target[c]
           l == lots[t]
           ch == CheckChanges(c)
           w == IF Asked[c].kind = "ok" THEN [NoChange EXCEPT !.ok = now[c]]
                ELSE [move |-> -l.balance, to |-> "discarded", ok |-> Never]
<1>1. t \in LotId /\ l # NoLot /\ l \in Lot /\ l.balance \in Int
      BY DEF Looking, Typed, Lot
<1>2. l.status \in Counted /\ l.balance > 0
      BY <1>1 DEF CheckRefused
<1>3. now[c] \in Int
      BY DEF Typed
<1>4. /\ w \in Write
      /\ \/ w.to = "same" /\ w.move = 0
         \/ w.to = "discarded" /\ w.move + l.balance = 0
  <2>1. CASE Asked[c].kind = "ok"
    <3>1. w = [move |-> 0, to |-> "same", ok |-> now[c]]
          BY <2>1 DEF NoChange
    <3> QED BY <1>3, <3>1 DEF Write
  <2>2. CASE Asked[c].kind # "ok"
        BY <1>1, <2>2 DEF Write, Never
  <2> QED BY <2>1, <2>2
<1>5. ch = [NoChanges EXCEPT ![t] = w]
      BY DEF CheckChanges
<1>6. /\ NoChanges \in [LotId -> Write] /\ NoChange.move = 0
      /\ \A n \in LotId : NoChanges[n] = NoChange
      BY DEF NoChanges, NoChange, Write, Never
<1> HIDE DEF ch, w
<1>7. Fits(l, w)
      BY <1>1, <1>2, <1>4 DEF Fits, Write
<1>8. /\ ch \in [LotId -> Write] /\ ch[t] = w
      /\ \A n \in LotId : n # t => ch[n] = NoChange
      BY <1>1, <1>4, <1>5, <1>6
<1>9. Fitting(ch, {l.ingredient})
      BY <1>1, <1>7, <1>8 DEF Fitting
<1>10. Oldest(ch)
      BY <1>1, <1>4, <1>6, <1>8 DEF Oldest
<1> QED BY <1>8, <1>9, <1>10 DEF ch, Right

LEMMA UsedOf ==
  ASSUME NEW c \in Call, Asked[c].kind \in {"consume", "purchase"}, NEW i \in Listed(Asked[c])
  PROVE  ListedOf(Asked[c], i) \in Nat \ {0}
<1>1. \E m \in DOMAIN Asked[c].list : Asked[c].list[m].ingredient = i
      BY DEF Listed
<1>2. \E m \in DOMAIN Asked[c].list : ListedOf(Asked[c], i) = Asked[c].list[m].qty
      BY <1>1 DEF ListedOf
<1> QED BY <1>2, ListIs

\* A batch writes to the lots of what it locks, and leaves alone what it wrote
\* to those of others.
LEMMA ConsumeRight ==
  ASSUME Typed, ClosedIffEmpty, NEW c \in Call, CallOK(c), Asked[c].kind = "consume",
         NEW i \in Listed(Asked[c]), i \notin Held(c)
  PROVE  Right(ConsumeChanges(c, i), Held(c) \cup {i})
<1> DEFINE S == LotsOf(i, {"available"})
           out == TakeOut(S, ListedOf(Asked[c], i))
           ch == ConsumeChanges(c, i)
<1>1. ListedOf(Asked[c], i) \in Nat
      BY UsedOf
<1>2. out \in [LotId -> Write] /\ Fitting(out, {i}) /\ Oldest(out)
      BY <1>1, TakeOutRight DEF Right
<1>3. ch = [n \in LotId |-> IF n \in S THEN out[n] ELSE change[c][n]]
      BY DEF ConsumeChanges
<1>4. /\ \A n \in S : n \in LotId /\ lots[n].ingredient = i
      /\ \A n \in LotId : lots[n].status = "available" /\ lots[n].ingredient = i => n \in S
      BY DEF LotsOf
<1>5. /\ change[c] \in [LotId -> Write] /\ Fitting(change[c], Held(c)) /\ Oldest(change[c])
      BY DEF Typed, CallOK, Written, Fitting, TakesOldest, Oldest
<1> HIDE DEF S, out, ch
<1>6. ch \in [LotId -> Write]
      BY <1>2, <1>3, <1>5
<1>7. Fitting(ch, Held(c) \cup {i})
      BY <1>2, <1>3, <1>5 DEF Fitting
<1>8. Oldest(ch)
  <2> SUFFICES ASSUME NEW m \in LotId, NEW n \in LotId,
                      ch[n].move < 0, ch[n].to # "discarded", lots[m].status = "available",
                      lots[m].ingredient = lots[n].ingredient, Older(m, n)
               PROVE  ch[m].move + lots[m].balance = 0
      BY DEF Oldest
  <2>1. CASE n \in S
    <3>1. m \in S /\ ch[m] = out[m] /\ ch[n] = out[n]
          BY <1>3, <1>4, <2>1
    <3> QED BY <1>2, <3>1 DEF Oldest
  <2>2. CASE n \notin S
    <3>1. ch[n] = change[c][n]
          BY <1>3, <2>2
    <3>2. change[c][n] # NoChange
          BY <3>1 DEF NoChange
    <3>3. lots[m].ingredient # i
          BY <1>5, <3>2 DEF Fitting
    <3>4. ch[m] = change[c][m]
          BY <1>3, <1>4, <3>3
    <3> QED BY <1>5, <3>1, <3>4 DEF Oldest
  <2> QED BY <2>1, <2>2
<1> QED BY <1>6, <1>7, <1>8 DEF ch, Right

LEMMA ChangesRight ==
  ASSUME Typed, ClosedIffEmpty, NEW c \in Call, CallOK(c), pc[c] = "locking",
         NEW i \in Ingredient, i = NextLock(c), ~(Looks(c) /\ CheckRefused(c))
  PROVE  Right(Changes(c, i), Held(c) \cup {i})
<1>1. ASSUME NEW ch, NEW I, Right(ch, I), I \subseteq Held(c) \cup {i}
      PROVE  Right(ch, Held(c) \cup {i})
      BY <1>1 DEF Right, Fitting
<1>2. i \notin Held(c) /\ i \in Locks(c)
      BY NextLockIs
<1>3. CASE Asked[c].kind \in {"receive", "purchase"}
  <2>1. Changes(c, i) = NoChanges
        BY <1>3 DEF Changes
  <2> QED BY <2>1, NoChangesRight
<1>4. CASE Asked[c].kind = "count"
  <2>1. Changes(c, i) = CountChanges(c)
        BY <1>4 DEF Changes
  <2>2. i = Asked[c].ingredient
        BY <1>2, <1>4 DEF Locks
  <2> QED BY <1>1, <1>4, <2>1, <2>2, CountRight
<1>5. CASE Asked[c].kind = "consume"
  <2>1. Changes(c, i) = ConsumeChanges(c, i)
        BY <1>5 DEF Changes
  <2>2. i \in Listed(Asked[c])
        BY <1>2, <1>5, ListIs
  <2> QED BY <1>2, <1>5, <2>1, <2>2, ConsumeRight
<1>6. CASE Looks(c)
  <2>1. Changes(c, i) = CheckChanges(c)
        BY <1>6 DEF Changes, Looks
  <2>2. Looking(c) /\ pc[c] # "idle"
        BY DEF CallOK
  <2>3. i = lots[target[c]].ingredient
        BY <1>6, <2>2, LocksAlone DEF Alone, Looks, Only
  <2> QED BY <1>1, <1>6, <2>1, <2>2, <2>3, CheckRight
<1> QED BY <1>3, <1>4, <1>5, <1>6, StockAssumption DEF Looks

\* The lot it inserts.
LEMMA NewLotIs ==
  ASSUME NEW i \in Ingredient, NEW qty \in Int, NEW at \in Int, NEW ok \in Int
  PROVE  LET l == NewLot(i, qty, at, ShelfLife[i], ok)
         IN  /\ l \in Lot /\ l # NoLot
             /\ l.ingredient = i /\ l.balance = qty /\ l.status = "available"
<1>1. ShelfLife[i] \in Int
      BY StockAssumption DEF Never
<1> QED BY <1>1 DEF NewLot, Lot, NoLot, Never

\* What a delivery brings of an ingredient.
QtyOf(c, i) == IF Asked[c].kind = "purchase" THEN ListedOf(Asked[c], i) ELSE Asked[c].qty

LEMMA FreshIs ==
  ASSUME Typed, ClosedIffEmpty, NEW c \in Call, CallOK(c), pc[c] = "locking",
         NEW i \in Ingredient, i = NextLock(c)
  PROVE  /\ Fresh(c, i) \in Lot \cup {NoLot}
         /\ Fresh(c, i) # NoLot =>
              /\ Fresh(c, i).ingredient = i /\ Fresh(c, i).status = "available"
              /\ Fresh(c, i).balance > 0
         /\ Asked[c].kind \in {"receive", "purchase"} =>
              Fresh(c, i) # NoLot /\ Fresh(c, i).balance = QtyOf(c, i)
         /\ Asked[c].kind = "count" =>
              IF Surplus(c) > 0 /\ NewestAvailable(i) = {}
              THEN Fresh(c, i) # NoLot /\ Fresh(c, i).balance = Surplus(c)
              ELSE Fresh(c, i) = NoLot
         /\ Asked[c].kind \notin {"receive", "purchase", "count"} => Fresh(c, i) = NoLot
<1>1. now[c] \in Int /\ i \in Locks(c)
      BY NextLockIs DEF Typed
<1>2. CASE Asked[c].kind \in {"receive", "purchase"}
  <2>1. QtyOf(c, i) \in Nat \ {0}
    <3>1. CASE Asked[c].kind = "purchase"
      <4>1. i \in Listed(Asked[c])
            BY <1>1, <3>1, ListIs
      <4> QED BY <3>1, <4>1, UsedOf DEF QtyOf
    <3>2. CASE Asked[c].kind = "receive"
          BY <3>2, StockAssumption DEF QtyOf
    <3> QED BY <1>2, <3>1, <3>2
  <2>2. Asked[c].ago \in Int
        BY <1>2, StockAssumption
  <2>3. Fresh(c, i) = Intake(i, QtyOf(c, i), now[c] - Asked[c].ago)
        BY <1>2 DEF Fresh, QtyOf
  <2>4. now[c] - Asked[c].ago \in Int /\ Never \in Int
        BY <1>1, <2>2 DEF Never
  <2> HIDE DEF QtyOf
  <2>5. PICK ok \in Int : Fresh(c, i) = NewLot(i, QtyOf(c, i), now[c] - Asked[c].ago, ShelfLife[i], ok)
        BY <2>3, <2>4 DEF Intake
  <2> QED BY <1>2, <2>1, <2>4, <2>5, NewLotIs
<1>3. CASE Asked[c].kind = "count"
  <2>1. Surplus(c) \in Int
        BY <1>3, SurplusIs
  <2>2. Never \in Int
        BY DEF Never
  <2>3. CASE Surplus(c) > 0 /\ NewestAvailable(i) = {}
    <3>1. Fresh(c, i) = NewLot(i, Surplus(c), now[c], ShelfLife[i], Never)
          BY <1>3, <2>3 DEF Fresh
    <3> QED BY <1>1, <1>3, <2>1, <2>2, <2>3, <3>1, NewLotIs
  <2>4. CASE ~(Surplus(c) > 0 /\ NewestAvailable(i) = {})
    <3>1. Fresh(c, i) = NoLot
          BY <1>3, <2>4 DEF Fresh
    <3> QED BY <1>3, <2>4, <3>1
  <2> QED BY <2>3, <2>4
<1>4. CASE Asked[c].kind \notin {"receive", "purchase", "count"}
  <2>1. Fresh(c, i) = NoLot
        BY <1>4 DEF Fresh
  <2> QED BY <1>4, <2>1
<1> QED BY <1>2, <1>3, <1>4

-----------------------------------------------------------------------------
\* A step leaves a call alone when it changes nothing of the call's and, of
\* the lots the call has locked, at most that they expire.

LotsKept(c) ==
  \A n \in LotId :
    /\ lots[n] # NoLot => lots'[n] # NoLot /\ lots'[n].ingredient = lots[n].ingredient
    /\ lots[n] # NoLot /\ lots[n].ingredient \in Held(c) =>
         /\ lots'[n].balance = lots[n].balance /\ lots'[n].at = lots[n].at
         /\ \/ lots'[n].status = lots[n].status
            \/ lots[n].status = "available" /\ lots'[n].status = "expired"
    /\ lots[n] = NoLot => lots'[n] = NoLot \/ lots'[n].ingredient \notin Held(c)

SameCall(c) ==
  /\ pc'[c] = pc[c] /\ target'[c] = target[c]
  /\ change'[c] = change[c] /\ fresh'[c] = fresh[c]
  /\ Held(c)' = Held(c)

LEMMA CallKept ==
  ASSUME Typed, NEW c \in Call, CallOK(c), SameCall(c), LotsKept(c)
  PROVE  CallOK(c)'
<1>1. Looking(c)'
      BY DEF CallOK, SameCall, Looking, Looks, LotsKept
<1>2. pc[c] # "idle" => Locks(c)' = Locks(c)
  <2>1. Looks(c) /\ pc[c] # "idle" => lots'[target'[c]].ingredient = lots[target[c]].ingredient
        BY DEF CallOK, SameCall, Looking, LotsKept
  <2> QED BY <2>1, StockAssumption DEF Locks, Looks
<1>3. HoldsItsLocks(c)'
      BY <1>2 DEF CallOK, SameCall, HoldsItsLocks
<1>4. Inserted(c)'
      BY DEF CallOK, SameCall, Inserted
<1>5. UsesInOrder(c)'
      BY DEF CallOK, SameCall, UsesInOrder
<1>6. ASSUME NEW n \in LotId, change[c][n] # NoChange
      PROVE  /\ lots[n] # NoLot /\ lots[n].ingredient \in Held(c)
             /\ lots'[n] # NoLot /\ lots'[n].ingredient = lots[n].ingredient
             /\ lots'[n].balance = lots[n].balance /\ lots'[n].at = lots[n].at
             /\ lots[n].status \in Counted /\ lots'[n].status \in Counted
             /\ Fits(lots[n], change[c][n])
      BY <1>6 DEF CallOK, Written, LotsKept, Fits, Counted
<1>7. Written(c)'
      BY <1>6 DEF SameCall, Written, Fits
<1>8. TakesOldest(c)'
  <2> SUFFICES ASSUME NEW m \in LotId, NEW n \in LotId,
                      change[c][n].move < 0, change[c][n].to # "discarded",
                      lots'[m].status = "available", lots'[m].ingredient = lots'[n].ingredient,
                      Older(m, n)'
               PROVE  change[c][m].move + lots'[m].balance = 0
      BY DEF TakesOldest, SameCall
  <2>1. change[c][n] # NoChange
        BY DEF NoChange
  <2>2. lots'[m].ingredient \in Held(c) /\ lots'[n].at = lots[n].at
        BY <1>6, <2>1
  <2>3. lots'[m] # NoLot
        BY DEF NoLot
  <2>4. lots[m] # NoLot
        BY <2>2, <2>3 DEF LotsKept
  <2>5. /\ lots[m].ingredient \in Held(c) /\ lots[m].ingredient = lots[n].ingredient
        /\ lots'[m].balance = lots[m].balance /\ lots'[m].at = lots[m].at
        /\ lots[m].status = "available"
        BY <1>6, <2>1, <2>2, <2>4 DEF LotsKept
  <2>6. Older(m, n)
        BY <2>2, <2>5 DEF Older
  <2> QED BY <2>5, <2>6 DEF CallOK, TakesOldest
<1> QED BY <1>1, <1>3, <1>4, <1>5, <1>7, <1>8 DEF CallOK

LEMMA LotsSame ==
  ASSUME NEW c, lots' = lots
  PROVE  LotsKept(c)
BY DEF LotsKept

-----------------------------------------------------------------------------
\* Each step keeps the invariant.

LEMMA NoChangesTyped ==
  /\ NoChanges \in [LotId -> Write] /\ NoLots \in [Ingredient -> Lot \cup {NoLot}]
  /\ \A n \in LotId : NoChanges[n] = NoChange
  /\ \A i \in Ingredient : NoLots[i] = NoLot
  /\ NoChange \in Write /\ NoChange.move = 0
BY DEF NoChanges, NoLots, NoChange, Write, Never

\* The end of a call.
LEMMA OverDoes ==
  ASSUME Typed, NEW c \in Call, Over(c)
  PROVE  /\ pc' \in [Call -> {"idle", "claiming", "locking", "ending"}]
         /\ now' \in [Call -> Int] /\ target' \in [Call -> LotId \cup {0}]
         /\ change' \in [Call -> [LotId -> Write]]
         /\ fresh' \in [Call -> [Ingredient -> Lot \cup {NoLot}]]
         /\ holder' \in [Ingredient \cup Batch -> Call \cup {Nobody}]
         /\ pc'[c] = "idle" /\ change'[c] = NoChanges /\ fresh'[c] = NoLots
         /\ Held(c)' = {}
         /\ \A d \in Call \ {c} : SameCall(d)
<1>1. /\ pc' \in [Call -> {"idle", "claiming", "locking", "ending"}]
      /\ now' \in [Call -> Int] /\ target' \in [Call -> LotId \cup {0}]
      BY DEF Typed, Over
<1>2. /\ change' \in [Call -> [LotId -> Write]]
      /\ fresh' \in [Call -> [Ingredient -> Lot \cup {NoLot}]]
      BY NoChangesTyped DEF Typed, Over
<1>3. pc'[c] = "idle" /\ change'[c] = NoChanges /\ fresh'[c] = NoLots
      BY DEF Typed, Over
<1>4. /\ holder' \in [Ingredient \cup Batch -> Call \cup {Nobody}]
      /\ \A l \in Ingredient \cup Batch :
           holder'[l] = IF holder[l] = c THEN Nobody ELSE holder[l]
      BY DEF Typed, Over, Unlock
<1>5. /\ Held(c)' = {}
      /\ \A d \in Call \ {c} : Held(d)' = Held(d)
  <2>1. c # Nobody /\ \A d \in Call : d # Nobody
        BY StockAssumption
  <2>2. DOMAIN holder = Ingredient \cup Batch /\ DOMAIN holder' = Ingredient \cup Batch
        BY <1>4 DEF Typed
  <2>3. ASSUME NEW d \in Call
        PROVE  Held(d)' = {l \in Ingredient \cup Batch : holder'[l] = d}
        BY <2>2 DEF Held
  <2>4. ASSUME NEW d \in Call
        PROVE  Held(d) = {l \in Ingredient \cup Batch : holder[l] = d}
        BY <2>2 DEF Held
  <2>5. Held(c)' = {}
        BY <1>4, <2>1, <2>3
  <2>6. ASSUME NEW d \in Call \ {c}
        PROVE  Held(d)' = Held(d)
        BY <1>4, <2>1, <2>3, <2>4
  <2> QED BY <2>5, <2>6
<1>6. ASSUME NEW d \in Call \ {c}
      PROVE  SameCall(d)
      BY <1>5 DEF SameCall, Typed, Over
<1> QED BY <1>1, <1>2, <1>3, <1>4, <1>5, <1>6

LEMMA OverOK ==
  ASSUME NEW c \in Call, pc'[c] = "idle", change'[c] = NoChanges, fresh'[c] = NoLots,
         Held(c)' = {}
  PROVE  CallOK(c)'
<1>1. Looking(c)' /\ HoldsItsLocks(c)' /\ UsesInOrder(c)'
      BY DEF Looking, HoldsItsLocks, UsesInOrder, Looks, NoChanges, NoLots
<1>2. Written(c)' /\ TakesOldest(c)'
      BY NoChangesTyped DEF Written, TakesOldest
<1>3. Inserted(c)'
      BY NoChangesTyped DEF Inserted
<1> QED BY <1>1, <1>2, <1>3 DEF CallOK

\* A step of one call that leaves the lots alone is right when it is for that
\* call.
LEMMA OthersKept ==
  ASSUME Typed, ClosedIffEmpty, \A c \in Call : CallOK(c),
         NEW c \in Call, lots' = lots, \A d \in Call \ {c} : SameCall(d), CallOK(c)'
  PROVE  ClosedIffEmpty' /\ \A d \in Call : CallOK(d)'
<1>1. ClosedIffEmpty'
      BY DEF ClosedIffEmpty
<1>2. \A d \in Call \ {c} : CallOK(d)'
      BY LotsSame, CallKept
<1> QED BY <1>1, <1>2

LEMMA EndKeeps ==
  ASSUME IInv, NEW c \in Call, Over(c), UNCHANGED <<clock, lots, entered>>
  PROVE  IInv'
<1>1. Typed'
      BY OverDoes DEF IInv, Typed
<1>2. ClosedIffEmpty' /\ \A d \in Call : CallOK(d)'
      BY OverDoes, OverOK, OthersKept DEF IInv
<1> QED BY <1>1, <1>2 DEF IInv

LEMMA TickKeeps ==
  ASSUME IInv, Tick
  PROVE  IInv'
<1>1. Typed'
      BY StockAssumption DEF IInv, Typed, Tick
<1>2. ClosedIffEmpty'
      BY DEF IInv, ClosedIffEmpty, Tick
<1>3. ASSUME NEW c \in Call
      PROVE  CallOK(c)'
  <2>1. SameCall(c) /\ LotsKept(c)
        BY LotsSame DEF SameCall, Tick, Held
  <2> QED BY <2>1, CallKept DEF IInv
<1> QED BY <1>1, <1>2, <1>3 DEF IInv

LEMMA SendKeeps ==
  ASSUME IInv, NEW c \in Call, Send(c)
  PROVE  IInv'
<1>1. Typed /\ ClosedIffEmpty /\ \A d \in Call : CallOK(d)
      BY DEF IInv
<1>2. Begins(c) \in {"claiming", "locking"}
      BY DEF Begins
<1>3. target' \in [Call -> LotId \cup {0}] /\ \A d \in Call \ {c} : target'[d] = target[d]
      BY <1>1 DEF Typed, Send
<1>4. Typed'
      BY <1>1, <1>2, <1>3 DEF Typed, Send
<1>5. ASSUME NEW d \in Call \ {c}
      PROVE  SameCall(d)
      BY <1>1, <1>3 DEF Typed, Send, SameCall, Held
<1>6. /\ pc'[c] = Begins(c) /\ pc[c] = "idle" /\ lots' = lots
      /\ Held(c)' = Held(c) /\ change'[c] = change[c] /\ fresh'[c] = fresh[c]
      BY <1>1 DEF Typed, Send, Held
<1>7. /\ Held(c) = {} /\ change[c] = NoChanges /\ fresh[c] = NoLots
      BY <1>1, <1>6 DEF CallOK, HoldsItsLocks
<1>8. Looking(c)'
      BY <1>1 DEF Typed, Send, Looking, Looks
<1>9. Locks(c)' # {}
  <2>1. CASE Asked[c].kind \in {"consume", "purchase"}
        BY <2>1 DEF Locks
  <2>2. CASE Asked[c].kind \notin {"consume", "purchase"}
        BY <2>2, StockAssumption DEF Locks
  <2> QED BY <2>1, <2>2
<1>10. HoldsItsLocks(c)' /\ UsesInOrder(c)'
      BY <1>2, <1>6, <1>7, <1>9 DEF HoldsItsLocks, UsesInOrder
<1>11. Written(c)' /\ TakesOldest(c)' /\ Inserted(c)'
      BY <1>6, <1>7, NoChangesTyped DEF Written, TakesOldest, Inserted
<1>12. CallOK(c)'
      BY <1>8, <1>10, <1>11 DEF CallOK
<1> QED BY <1>1, <1>4, <1>5, <1>6, <1>12, OthersKept DEF IInv

LEMMA ClaimKeeps ==
  ASSUME IInv, NEW c \in Call, Claim(c)
  PROVE  IInv'
<1>1. Typed /\ ClosedIffEmpty /\ \A d \in Call : CallOK(d)
      BY DEF IInv
<1>2. CASE Claimed(c)
      BY <1>2, EndKeeps DEF Claim
<1>3. CASE ~Claimed(c)
  <2>1. /\ pc' = [pc EXCEPT ![c] = "locking"] /\ pc[c] = "claiming"
        /\ UNCHANGED <<clock, lots, entered, holder, now, target, change, fresh>>
        BY <1>3 DEF Claim
  <2>2. Typed'
        BY <1>1, <2>1 DEF Typed
  <2>3. ASSUME NEW d \in Call \ {c}
        PROVE  SameCall(d)
        BY <1>1, <2>1 DEF Typed, SameCall, Held
  <2>4. /\ pc'[c] = "locking" /\ Held(c)' = {} /\ change'[c] = NoChanges /\ fresh'[c] = NoLots
        BY <1>1, <2>1 DEF Typed, CallOK, HoldsItsLocks, Held
  <2>5. Looking(c)'
        BY <1>1, <2>1 DEF CallOK, Looking, Looks
  <2>6. Locks(c)' # {}
    <3>1. CASE Asked[c].kind \in {"consume", "purchase"}
          BY <3>1 DEF Locks
    <3>2. CASE Asked[c].kind \notin {"consume", "purchase"}
          BY <3>2, StockAssumption DEF Locks
    <3> QED BY <3>1, <3>2
  <2>7. HoldsItsLocks(c)' /\ UsesInOrder(c)'
        BY <2>4, <2>6 DEF HoldsItsLocks, UsesInOrder
  <2>8. Written(c)' /\ TakesOldest(c)' /\ Inserted(c)'
        BY <2>4, NoChangesTyped DEF Written, TakesOldest, Inserted
  <2>9. CallOK(c)'
        BY <2>5, <2>7, <2>8 DEF CallOK
  <2> QED BY <1>1, <2>1, <2>2, <2>3, <2>9, OthersKept DEF IInv
<1> QED BY <1>2, <1>3

LEMMA LockDoes ==
  ASSUME Typed, NEW c \in Call, CallOK(c), TakeLock(c),
         ~(Looks(c) /\ CheckRefused(c))
  PROVE  LET l == NextLock(c)
         IN  /\ pc[c] = "locking" /\ holder[l] = Nobody /\ l \in Ingredient \cup Batch
             /\ holder' \in [Ingredient \cup Batch -> Call \cup {Nobody}]
             /\ Held(c)' = Held(c) \cup {l} /\ l \notin Held(c)
             /\ \A d \in Call \ {c} : SameCall(d)
             /\ pc' = [pc EXCEPT ![c] = IF Locks(c) \subseteq Held(c) \cup {l} THEN "ending" ELSE "locking"]
             /\ IF l \in Batch THEN change' = change /\ fresh' = fresh
                ELSE /\ change' = [change EXCEPT ![c] = Changes(c, l)]
                     /\ fresh' = [fresh EXCEPT ![c][l] = Fresh(c, l)]
             /\ UNCHANGED <<now, target, clock, lots, entered, tries>>
<1> DEFINE l == NextLock(c)
<1>1. /\ pc[c] = "locking" /\ holder[l] = Nobody /\ holder' = [holder EXCEPT ![l] = c]
      /\ pc' = [pc EXCEPT ![c] = IF Locks(c) \subseteq Held(c) \cup {l} THEN "ending" ELSE "locking"]
      /\ IF l \in Batch THEN change' = change /\ fresh' = fresh
         ELSE /\ change' = [change EXCEPT ![c] = Changes(c, l)]
              /\ fresh' = [fresh EXCEPT ![c][l] = Fresh(c, l)]
      /\ UNCHANGED <<now, target, clock, lots, entered, tries>>
      BY DEF TakeLock, Looks, LockFree
<1>2. l \in Ingredient \cup Batch /\ l \notin Held(c)
      BY <1>1, NextLockIs
<1> HIDE DEF l
<1>3. /\ holder' \in [Ingredient \cup Batch -> Call \cup {Nobody}]
      /\ holder'[l] = c /\ \A k \in Ingredient \cup Batch : k # l => holder'[k] = holder[k]
      BY <1>1, <1>2 DEF Typed
<1>4. Held(c)' = Held(c) \cup {l}
      BY <1>2, <1>3 DEF Held, Typed
<1>5. \A d \in Call \ {c} : Held(d)' = Held(d)
      BY <1>1, <1>2, <1>3, StockAssumption DEF Held, Typed
<1>6. ASSUME NEW d \in Call \ {c}
      PROVE  SameCall(d)
  <2>1. change'[d] = change[d] /\ fresh'[d] = fresh[d]
        BY <1>1 DEF Typed
  <2> QED BY <1>1, <1>5, <2>1 DEF SameCall, Typed
<1> QED BY <1>1, <1>2, <1>3, <1>4, <1>6 DEF l

LEMMA TakeLockKeeps ==
  ASSUME IInv, NEW c \in Call, TakeLock(c)
  PROVE  IInv'
<1>1. Typed /\ ClosedIffEmpty /\ CallOK(c) /\ \A d \in Call : CallOK(d)
      BY DEF IInv
<1>2. CASE Looks(c) /\ CheckRefused(c)
      BY <1>2, EndKeeps DEF TakeLock, Looks
<1>3. CASE ~(Looks(c) /\ CheckRefused(c))
  <2> DEFINE l == NextLock(c)
  <2>1. /\ pc[c] = "locking" /\ l \in Ingredient \cup Batch
        /\ holder' \in [Ingredient \cup Batch -> Call \cup {Nobody}]
        /\ Held(c)' = Held(c) \cup {l} /\ l \notin Held(c)
        /\ \A d \in Call \ {c} : SameCall(d)
        /\ pc' = [pc EXCEPT ![c] = IF Locks(c) \subseteq Held(c) \cup {l} THEN "ending" ELSE "locking"]
        /\ UNCHANGED <<now, target, clock, lots, entered, tries>>
        BY <1>1, <1>3, LockDoes
  <2>2. IF l \in Batch THEN change' = change /\ fresh' = fresh
        ELSE /\ change' = [change EXCEPT ![c] = Changes(c, l)]
             /\ fresh' = [fresh EXCEPT ![c][l] = Fresh(c, l)]
        BY <1>1, <1>3, LockDoes
  <2>3. l \in Locks(c) /\ Locks(c)' = Locks(c)
        BY <1>1, <2>1, NextLockIs DEF Locks
  <2>4. l \notin Batch => Right(Changes(c, l), Held(c) \cup {l})
        BY <1>1, <1>3, <2>1, ChangesRight
  <2>5. l \notin Batch =>
          /\ Fresh(c, l) \in Lot \cup {NoLot}
          /\ Fresh(c, l) # NoLot =>
               /\ Fresh(c, l).ingredient = l /\ Fresh(c, l).status = "available"
               /\ Fresh(c, l).balance > 0
        BY <1>1, <2>1, FreshIs
  <2> HIDE DEF l
  <2>6. /\ change' \in [Call -> [LotId -> Write]]
        /\ fresh' \in [Call -> [Ingredient -> Lot \cup {NoLot}]]
    <3>1. CASE l \in Batch
          BY <1>1, <2>2, <3>1 DEF Typed
    <3>2. CASE l \notin Batch
      <4>1. Changes(c, l) \in [LotId -> Write]
            BY <2>4, <3>2 DEF Right
      <4>2. change' \in [Call -> [LotId -> Write]]
            BY <1>1, <2>2, <3>2, <4>1 DEF Typed
      <4>3. l \in Ingredient /\ Fresh(c, l) \in Lot \cup {NoLot}
            BY <2>1, <2>5, <3>2
      <4> DEFINE L == Lot \cup {NoLot}
      <4> HIDE DEF L
      <4>4. fresh \in [Call -> [Ingredient -> L]] /\ Fresh(c, l) \in L
            BY <1>1, <4>3 DEF Typed, L
      <4>5. fresh' \in [Call -> [Ingredient -> L]]
            BY <2>2, <3>2, <4>3, <4>4
      <4> QED BY <4>2, <4>5 DEF L
    <3> QED BY <3>1, <3>2
  <2>7. Typed'
        BY <1>1, <2>1, <2>6 DEF Typed
  <2>8. Looking(c)'
        BY <1>1, <2>1 DEF CallOK, Looking, Looks
  <2>9. HoldsItsLocks(c)'
    <3>1. pc'[c] = IF Locks(c) \subseteq Held(c) \cup {l} THEN "ending" ELSE "locking"
          BY <1>1, <2>1 DEF Typed
    <3>2. Held(c) \subseteq Locks(c)
          BY <1>1, <2>1 DEF CallOK, HoldsItsLocks
    <3> QED BY <2>1, <2>3, <3>1, <3>2 DEF HoldsItsLocks
  <2>10. UsesInOrder(c)'
    <3> SUFFICES ASSUME Asked[c].kind = "consume"
                 PROVE  /\ Asked[c].batch \in Held(c)'
                        /\ \A i \in Held(c)' \cap Ingredient, j \in Listed(Asked[c]) \ Held(c)' : i < j
        BY DEF UsesInOrder
    <3>1. CASE Held(c) = {}
      <4>1. l = Asked[c].batch
            BY <3>1 DEF NextLock, l
      <4> QED BY <2>1, <3>1, <4>1, ListIs
    <3>2. CASE Held(c) # {}
      <4>1. /\ \A j \in Listed(Asked[c]) \ Held(c) : l <= j
            /\ Asked[c].batch \in Held(c)
            /\ \A i \in Held(c) \cap Ingredient, j \in Listed(Asked[c]) \ Held(c) : i < j
            BY <1>1, <2>1, <3>2, NextOfBatch DEF l, CallOK, UsesInOrder
      <4>2. l \in Nat /\ Listed(Asked[c]) \subseteq Nat
            BY <1>1, <2>1, <3>2, NextOfBatch, ListIs DEF l
      <4> QED BY <2>1, <4>1, <4>2
    <3> QED BY <3>1, <3>2
  <2>11. Right(change'[c], Held(c)')
    <3>1. CASE l \in Batch
      <4>1. change'[c] = change[c] /\ change[c] \in [LotId -> Write]
            BY <1>1, <2>2, <3>1 DEF Typed
      <4> QED BY <1>1, <2>1, <4>1
              DEF CallOK, Written, TakesOldest, Right, Fitting, Oldest
    <3>2. CASE l \notin Batch
      <4>1. change'[c] = Changes(c, l)
            BY <1>1, <2>2, <3>2 DEF Typed
      <4> QED BY <2>1, <2>4, <3>2, <4>1
    <3> QED BY <3>1, <3>2
  <2>12. Written(c)' /\ TakesOldest(c)'
        BY <2>1, <2>11 DEF Right, Fitting, Oldest, Written, TakesOldest, Older
  <2>13. Inserted(c)'
    <3> SUFFICES ASSUME NEW i \in Ingredient, fresh'[c][i] # NoLot
                 PROVE  /\ i \in Held(c)' /\ fresh'[c][i].ingredient = i
                        /\ fresh'[c][i].status = "available" /\ fresh'[c][i].balance > 0
        BY DEF Inserted
    <3>1. CASE l \notin Batch /\ i = l
      <4>1. fresh'[c][i] = Fresh(c, l)
            BY <1>1, <2>2, <3>1 DEF Typed
      <4> QED BY <2>1, <2>5, <3>1, <4>1
    <3>2. CASE ~(l \notin Batch /\ i = l)
      <4>1. fresh'[c][i] = fresh[c][i]
            BY <1>1, <2>2, <3>2 DEF Typed
      <4> QED BY <1>1, <2>1, <4>1 DEF CallOK, Inserted
    <3> QED BY <3>1, <3>2
  <2>14. CallOK(c)'
        BY <2>8, <2>9, <2>10, <2>12, <2>13 DEF CallOK
  <2> QED BY <1>1, <2>1, <2>7, <2>14, OthersKept DEF IInv
<1> QED BY <1>2, <1>3

LEMMA ChangedIs ==
  ASSUME NEW l \in Lot, NEW w \in Write
  PROVE  LET m == Changed(l, w)
         IN  /\ m \in Lot /\ m # NoLot
             /\ m.ingredient = l.ingredient /\ m.at = l.at
             /\ m.balance = l.balance + w.move
             /\ m.status = IF w.to = "same" THEN l.status ELSE w.to
<1>1. CASE w = NoChange
      BY <1>1 DEF Changed, NoChange, Lot, NoLot
<1>2. CASE w # NoChange
  <2> DEFINE m == Changed(l, w)
             b == l.balance + w.move
             s == IF w.to = "same" THEN l.status ELSE w.to
             o == Max({l.ok, w.ok})
  <2>1. m = [l EXCEPT !.balance = b, !.status = s, !.ok = o]
        BY <1>2 DEF Changed
  <2>2. /\ b \in Int /\ o \in Int
        /\ s \in {"available", "exhausted", "discarded", "expired"}
        BY MaxOfTwo DEF Lot, Write
  <2> HIDE DEF b, s, o, m
  <2>3. m \in Lot /\ m.ingredient = l.ingredient /\ m.at = l.at /\ m.balance = b /\ m.status = s
        BY <2>1, <2>2 DEF Lot
  <2>4. m # NoLot
        BY <2>2, <2>3 DEF NoLot
  <2> QED BY <2>3, <2>4 DEF m, b, s
<1> QED BY <1>1, <1>2

\* The lots after a commit: those inserted where there was none, the others as
\* changed.
LEMMA CommitDoes ==
  ASSUME Typed, ClosedIffEmpty, NEW c \in Call, CallOK(c), Commit(c)
  PROVE  /\ lots' \in [LotId -> Lot \cup {NoLot}]
         /\ \A n \in LotId :
              \/ /\ lots[n] = NoLot
                 /\ \E i \in Ingredient : fresh[c][i] # NoLot /\ lots'[n] = fresh[c][i]
              \/ lots'[n] = Changed(lots[n], change[c][n])
<1> DEFINE inserted == {i \in Ingredient : fresh[c][i] # NoLot}
<1>1. PICK id \in Injection(inserted, {n \in LotId : lots[n] = NoLot}) :
        lots' = [ n \in LotId |->
                    IF \E i \in inserted : id[i] = n
                    THEN fresh[c][CHOOSE i \in inserted : id[i] = n]
                    ELSE Changed(lots[n], change[c][n]) ]
      BY DEF Commit
<1>2. id \in [inserted -> {n \in LotId : lots[n] = NoLot}]
      BY DEF Injection
<1>3. ASSUME NEW n \in LotId, lots'[n] # Changed(lots[n], change[c][n])
      PROVE  /\ lots[n] = NoLot
             /\ \E i \in Ingredient : fresh[c][i] # NoLot /\ lots'[n] = fresh[c][i]
  <2>1. PICK i \in inserted : id[i] = n /\ lots'[n] = fresh[c][i]
        BY <1>1, <1>3
  <2> QED BY <1>2, <2>1
<1>4. ASSUME NEW n \in LotId
      PROVE  lots'[n] \in Lot \cup {NoLot}
  <2>1. CASE lots'[n] # Changed(lots[n], change[c][n])
        BY <1>3, <2>1 DEF Typed
  <2>2. CASE lots'[n] = Changed(lots[n], change[c][n])
    <3>1. CASE change[c][n] = NoChange
          BY <2>2, <3>1 DEF Changed, Typed
    <3>2. CASE change[c][n] # NoChange
      <4>1. lots[n] \in Lot /\ change[c][n] \in Write
            BY <3>2 DEF CallOK, Written, Typed
      <4> QED BY <2>2, <4>1, ChangedIs
    <3> QED BY <3>1, <3>2
  <2> QED BY <2>1, <2>2
<1>5. lots' \in [LotId -> Lot \cup {NoLot}]
  <2> DEFINE L == Lot \cup {NoLot}
             g(n) == IF \E i \in inserted : id[i] = n
                     THEN fresh[c][CHOOSE i \in inserted : id[i] = n]
                     ELSE Changed(lots[n], change[c][n])
  <2>1. lots' = [n \in LotId |-> g(n)]
        BY <1>1
  <2>2. \A n \in LotId : lots'[n] \in L
        BY <1>4
  <2> HIDE DEF L, g
  <2>3. lots' \in [LotId -> L]
        BY <2>1, <2>2
  <2> QED BY <2>3 DEF L
<1> QED BY <1>3, <1>5

LEMMA CommitInserts ==
  ASSUME Typed, ClosedIffEmpty, NEW c \in Call, CallOK(c), Commit(c),
         NEW n \in LotId, lots[n] = NoLot, lots'[n] # NoLot
  PROVE  \E i \in Ingredient :
           /\ i \in Held(c) /\ lots'[n].ingredient = i /\ lots'[n] = fresh[c][i]
           /\ lots'[n].status = "available" /\ lots'[n].balance > 0
<1>1. change[c][n] = NoChange
      BY DEF CallOK, Written
<1>2. Changed(lots[n], change[c][n]) = NoLot
      BY <1>1 DEF Changed
<1> QED BY <1>2, CommitDoes DEF CallOK, Inserted

\* A commit leaves alone the lots of what others have locked.
LEMMA CommitLeaves ==
  ASSUME Typed, ClosedIffEmpty, NEW c \in Call, CallOK(c), Commit(c), NEW d \in Call \ {c}
  PROVE  LotsKept(d)
<1> SUFFICES ASSUME NEW n \in LotId
             PROVE  /\ lots[n] # NoLot => lots'[n] # NoLot /\ lots'[n].ingredient = lots[n].ingredient
                    /\ lots[n] # NoLot /\ lots[n].ingredient \in Held(d) => lots'[n] = lots[n]
                    /\ lots[n] = NoLot => lots'[n] = NoLot \/ lots'[n].ingredient \notin Held(d)
    BY DEF LotsKept
<1>1. Held(c) \cap Held(d) = {}
      BY DEF Held
<1>2. CASE lots[n] = NoLot
      BY <1>1, <1>2, CommitInserts
<1>3. CASE lots[n] # NoLot
  <2>1. lots'[n] = Changed(lots[n], change[c][n]) /\ lots[n] \in Lot /\ change[c][n] \in Write
        BY <1>3, CommitDoes DEF Typed
  <2>2. lots'[n] # NoLot /\ lots'[n].ingredient = lots[n].ingredient
        BY <2>1, ChangedIs
  <2>3. lots[n].ingredient \in Held(d) => change[c][n] = NoChange
        BY <1>1 DEF CallOK, Written
  <2>4. lots[n].ingredient \in Held(d) => lots'[n] = lots[n]
        BY <2>1, <2>3 DEF Changed
  <2> QED BY <1>3, <2>2, <2>4
<1> QED BY <1>2, <1>3

LEMMA CommitKeeps ==
  ASSUME IInv, NEW c \in Call, Commit(c)
  PROVE  IInv'
<1>1. Typed /\ ClosedIffEmpty /\ CallOK(c) /\ \A d \in Call : CallOK(d)
      BY DEF IInv
<1>2. Over(c) /\ pc[c] = "ending" /\ UNCHANGED <<clock, tries>>
      /\ entered' = IF Keyed(c) THEN entered \cup {KeyOf(c)} ELSE entered
      BY DEF Commit
<1>3. entered' \subseteq {KeyOf(d) : d \in {e \in Call : Keyed(e)}}
      BY <1>1, <1>2 DEF Typed
<1>4. Typed'
      BY <1>1, <1>2, <1>3, OverDoes, CommitDoes DEF Typed
<1>5. ASSUME NEW n \in LotId, lots[n] = NoLot
      PROVE  \/ lots'[n] = NoLot
             \/ lots'[n].status = "available" /\ lots'[n].balance > 0
      BY <1>1, <1>5, CommitInserts
<1>6. ASSUME NEW n \in LotId, lots[n] # NoLot
      PROVE  lots'[n] = Changed(lots[n], change[c][n]) /\ lots[n] \in Lot /\ change[c][n] \in Write
      BY <1>1, <1>6, CommitDoes DEF Typed
<1>7. ClosedIffEmpty'
  <2> SUFFICES ASSUME NEW n \in LotId, lots'[n] # NoLot
               PROVE  /\ lots'[n].balance >= 0
                      /\ lots'[n].balance = 0 <=> lots'[n].status \in {"exhausted", "discarded"}
      BY DEF ClosedIffEmpty
  <2>1. CASE lots[n] = NoLot
    <3>1. lots'[n].status = "available" /\ lots'[n].balance > 0
          BY <1>5, <2>1
    <3>2. lots'[n].balance \in Int
          BY <1>4 DEF Typed, Lot
    <3> QED BY <3>1, <3>2
  <2>2. CASE lots[n] # NoLot
    <3> DEFINE l == lots[n]
               w == change[c][n]
    <3>1. /\ l \in Lot /\ w \in Write /\ lots'[n].balance = l.balance + w.move
          /\ lots'[n].status = IF w.to = "same" THEN l.status ELSE w.to
          BY <1>6, <2>2, ChangedIs
    <3>2. CASE w = NoChange
      <4>1. lots'[n] = l
            BY <1>6, <2>2, <3>2 DEF Changed
      <4> QED BY <1>1, <2>2, <4>1 DEF ClosedIffEmpty
    <3>3. CASE w # NoChange
      <4>1. Fits(l, w)
            BY <1>1, <3>3 DEF CallOK, Written
      <4> QED BY <3>1, <4>1 DEF Fits, Counted, Write, Lot
    <3> QED BY <3>2, <3>3
  <2> QED BY <2>1, <2>2
<1>8. CallOK(c)'
      BY <1>1, <1>2, OverDoes, OverOK
<1>9. ASSUME NEW d \in Call \ {c}
      PROVE  CallOK(d)'
  <2>1. SameCall(d) /\ LotsKept(d)
        BY <1>1, <1>2, OverDoes, CommitLeaves
  <2> QED BY <1>1, <2>1, CallKept
<1> QED BY <1>4, <1>7, <1>8, <1>9 DEF IInv

\* What the worker does to a lot.
LEMMA ExpireDoes ==
  ASSUME Typed, ExpireLots, NEW n \in LotId
  PROVE  \/ lots'[n] = lots[n]
         \/ /\ lots[n].status = "available" /\ PastBy(lots[n], clock)
            /\ lots[n] \in Lot /\ lots'[n] \in Lot
            /\ lots'[n].status = "expired"
            /\ lots'[n].ingredient = lots[n].ingredient
            /\ lots'[n].balance = lots[n].balance /\ lots'[n].at = lots[n].at
<1> DEFINE past == {m \in LotId : lots[m].status = "available" /\ PastBy(lots[m], clock)}
<1>1. lots' = [m \in LotId |-> IF m \in past THEN [lots[m] EXCEPT !.status = "expired"] ELSE lots[m]]
      BY DEF ExpireLots
<1>2. CASE n \notin past
      BY <1>1, <1>2
<1>3. CASE n \in past
  <2>1. lots'[n] = [lots[n] EXCEPT !.status = "expired"]
        BY <1>1, <1>3
  <2>2. lots[n].status = "available" /\ PastBy(lots[n], clock)
        BY <1>3
  <2>3. lots[n] \in Lot
    <3>1. lots[n] # NoLot
          BY <2>2 DEF NoLot
    <3> QED BY <3>1 DEF Typed
  <2> QED BY <2>1, <2>2, <2>3 DEF Lot
<1> QED BY <1>2, <1>3

LEMMA ExpireLeaves ==
  ASSUME Typed, ExpireLots, NEW c
  PROVE  LotsKept(c)
BY ExpireDoes DEF LotsKept, NoLot

LEMMA ExpireKeeps ==
  ASSUME IInv, ExpireLots
  PROVE  IInv'
<1>1. Typed /\ ClosedIffEmpty /\ \A d \in Call : CallOK(d)
      BY DEF IInv
<1>2. UNCHANGED <<clock, entered, holder, pc, tries, now, target, change, fresh>>
      BY DEF ExpireLots
<1>3. \A n \in LotId : lots'[n] \in Lot \cup {NoLot}
      BY <1>1, ExpireDoes DEF Typed
<1>4. lots' \in [LotId -> Lot \cup {NoLot}]
  <2> DEFINE L == Lot \cup {NoLot}
             past == {m \in LotId : lots[m].status = "available" /\ PastBy(lots[m], clock)}
             g(m) == IF m \in past THEN [lots[m] EXCEPT !.status = "expired"] ELSE lots[m]
  <2>1. lots' = [m \in LotId |-> g(m)] /\ \A m \in LotId : lots'[m] \in L
        BY <1>3 DEF ExpireLots
  <2> HIDE DEF L, g
  <2>2. lots' \in [LotId -> L]
        BY <2>1
  <2> QED BY <2>2 DEF L
<1>5. Typed'
      BY <1>1, <1>2, <1>4 DEF Typed
<1>6. \A n \in LotId : lots'[n] # lots[n] =>
        /\ lots[n] # NoLot /\ lots'[n] # NoLot
        /\ lots[n].status = "available" /\ lots'[n].status = "expired"
        /\ lots'[n].ingredient = lots[n].ingredient
        /\ lots'[n].balance = lots[n].balance /\ lots'[n].at = lots[n].at
      BY <1>1, ExpireDoes DEF NoLot
<1>7. ClosedIffEmpty'
      BY <1>1, <1>6 DEF ClosedIffEmpty
<1>8. ASSUME NEW c \in Call
      PROVE  CallOK(c)'
  <2>1. SameCall(c)
        BY <1>2 DEF SameCall, Held
  <2>2. LotsKept(c)
        BY <1>1, ExpireLeaves
  <2> QED BY <1>1, <2>1, <2>2, CallKept
<1> QED BY <1>5, <1>7, <1>8 DEF IInv

LEMMA InitOK == Init => IInv
<1> SUFFICES ASSUME Init PROVE IInv
    OBVIOUS
<1>1. Typed
  <2>1. clock \in Day .. MaxTime
        BY StockAssumption DEF Init
  <2>2. /\ change \in [Call -> [LotId -> Write]]
        /\ fresh \in [Call -> [Ingredient -> Lot \cup {NoLot}]]
        BY NoChangesTyped DEF Init
  <2> QED BY <2>1, <2>2 DEF Init, Typed
<1>2. ClosedIffEmpty
      BY DEF Init, ClosedIffEmpty
<1>3. ASSUME NEW c \in Call
      PROVE  CallOK(c)
  <2>1. pc[c] = "idle" /\ change[c] = NoChanges /\ fresh[c] = NoLots
        BY DEF Init
  <2>2. Held(c) = {}
        BY StockAssumption DEF Init, Held
  <2>3. Looking(c) /\ HoldsItsLocks(c) /\ UsesInOrder(c)
        BY <2>1, <2>2 DEF Looking, HoldsItsLocks, UsesInOrder
  <2>4. Written(c) /\ TakesOldest(c) /\ Inserted(c)
        BY <2>1, NoChangesTyped DEF Written, TakesOldest, Inserted
  <2> QED BY <2>3, <2>4 DEF CallOK
<1> QED BY <1>1, <1>2, <1>3 DEF IInv

LEMMA StutterKeeps ==
  ASSUME IInv, UNCHANGED vars
  PROVE  IInv'
<1>1. Typed' /\ ClosedIffEmpty'
      BY DEF IInv, vars, Typed, ClosedIffEmpty
<1>2. ASSUME NEW c \in Call
      PROVE  CallOK(c)'
  <2>1. SameCall(c) /\ LotsKept(c)
        BY LotsSame DEF SameCall, vars, Held
  <2> QED BY <2>1, CallKept DEF IInv
<1> QED BY <1>1, <1>2 DEF IInv

LEMMA StepOK == IInv /\ [Next]_vars => IInv'
<1> SUFFICES ASSUME IInv, [Next]_vars PROVE IInv'
    OBVIOUS
<1>1. ASSUME NEW c \in Call, Kill(c) \/ Stop(c)
      PROVE  IInv'
      BY <1>1, EndKeeps DEF Kill, Stop
<1>2. CASE Next
      BY <1>1, <1>2, TickKeeps, SendKeeps, ClaimKeeps, TakeLockKeeps, CommitKeeps, ExpireKeeps
         DEF Next, Work
<1> QED BY <1>2, StutterKeeps

\* All of it holds throughout: a call that got past its reading has the locks of
\* what it writes, and what it chose is still the oldest (LockIngredient, Consume).
THEOREM Invariance == Spec => []IInv
BY InitOK, StepOK, PTL DEF Spec

-----------------------------------------------------------------------------
\* What follows.

\* Every variable has the shape the code gives it, and a call that commits has
\* all the locks it takes.
THEOREM TypeCorrect == Spec => []TypeOK
<1>1. IInv => TypeOK
      BY DEF IInv, Typed, TypeOK, CallOK, HoldsItsLocks
<1> QED BY <1>1, Invariance, PTL

\* A lot is closed exactly when nothing is left of it (LockIngredient,
\* SetLotStatus).
THEOREM AlwaysClosedIffEmpty == Spec => []ClosedIffEmpty
<1>1. IInv => ClosedIffEmpty
      BY DEF IInv
<1> QED BY <1>1, Invariance, PTL

\* A batch and a count take the oldest first (Consume, count): a lot loses
\* some only together with the rest of every older one.
THEOREM AlwaysOldestFirst == Spec => OldestFirst
<1>1. IInv /\ [Next]_vars => [Emptied]_vars
  <2> SUFFICES ASSUME IInv, Next PROVE Emptied
      OBVIOUS
  <2>1. Typed /\ ClosedIffEmpty /\ \A d \in Call : CallOK(d)
        BY DEF IInv
  <2> SUFFICES ASSUME NEW m \in LotId, NEW n \in LotId,
                      lots[m].status = "available", lots[n].status = "available",
                      lots[m].ingredient = lots[n].ingredient, Older(m, n),
                      lots'[n].balance < lots[n].balance, lots'[n].status # "discarded"
               PROVE  lots'[m].balance = 0
      BY DEF Emptied
  <2>2. /\ lots[m] # NoLot /\ lots[n] # NoLot /\ lots[m] \in Lot /\ lots[n] \in Lot
        /\ lots[n].balance \in Int /\ lots[m].balance \in Int
        BY <2>1 DEF NoLot, Typed, Lot
  <2>3. ASSUME NEW c \in Call, Commit(c)
        PROVE  lots'[m].balance = 0
    <3>1. /\ lots'[m] = Changed(lots[m], change[c][m]) /\ change[c][m] \in Write
          /\ lots'[n] = Changed(lots[n], change[c][n]) /\ change[c][n] \in Write
          BY <2>1, <2>2, <2>3, CommitDoes DEF Typed
    <3>2. /\ lots'[m].balance = lots[m].balance + change[c][m].move
          /\ lots'[n].balance = lots[n].balance + change[c][n].move
          /\ lots'[n].status =
               IF change[c][n].to = "same" THEN lots[n].status ELSE change[c][n].to
      <4>1. Changed(lots[m], change[c][m]).balance = lots[m].balance + change[c][m].move
            BY <2>2, <3>1, ChangedIs
      <4>2. /\ Changed(lots[n], change[c][n]).balance = lots[n].balance + change[c][n].move
            /\ Changed(lots[n], change[c][n]).status =
                 IF change[c][n].to = "same" THEN lots[n].status ELSE change[c][n].to
            BY <2>2, <3>1, ChangedIs
      <4> QED BY <3>1, <4>1, <4>2
    <3>3. change[c][n].move < 0 /\ change[c][n].to # "discarded" /\ change[c][m].move \in Int
          BY <2>2, <3>1, <3>2 DEF Write
    <3>4. change[c][m].move + lots[m].balance = 0
          BY <2>1, <3>3 DEF CallOK, TakesOldest
    <3> QED BY <2>2, <3>2, <3>3, <3>4
  <2>4. ASSUME lots'[n] = lots[n]
        PROVE  FALSE
        BY <2>2, <2>4
  <2>5. CASE ExpireLots
    <3>1. lots'[n].balance = lots[n].balance
          BY <2>1, <2>5, ExpireDoes
    <3> QED BY <2>2, <3>1
  <2> QED BY <2>3, <2>4, <2>5 DEF Next, Work, Tick, Send, Claim, TakeLock, Kill, Stop
<1> QED BY <1>1, Invariance, PTL DEF Spec, OldestFirst

LEMMA DayOf ==
  ASSUME NEW t \in Nat, NEW d \in Int, DateOf(t) <= d
  PROVE  t < (d + 1) * Day
<1> DEFINE q == t \div Day
<1>1. q \in Int /\ t < Day * q + Day
      BY StockAssumption
<1>2. q <= d
      BY DEF DateOf
<1> HIDE DEF q
<1>3. Day * q <= Day * d
      BY <1>1, <1>2, StockAssumption
<1>4. Day \in Int /\ Day * q \in Int /\ Day * d \in Int /\ (d + 1) * Day = Day * d + Day
      BY <1>1, StockAssumption
<1>5. t < Day * d + Day
      BY <1>1, <1>3, <1>4
<1> QED BY <1>4, <1>5

\* A lot the worker marks expired counted for no batch of that day or a later
\* one (Periodic): its marking changes no shopping list.
THEOREM AlwaysMarkingChangesNoList == Spec => MarkingChangesNoList
<1>1. IInv /\ [Next]_vars => [NotCounted]_vars
  <2> SUFFICES ASSUME IInv, Next PROVE NotCounted
      OBVIOUS
  <2>1. Typed /\ ClosedIffEmpty /\ \A d \in Call : CallOK(d)
        BY DEF IInv
  <2> SUFFICES ASSUME NEW n \in LotId, NEW d \in DateOf(clock) .. DateOf(MaxTime) + 1,
                      lots[n].status = "available", lots'[n].status = "expired",
                      Countable(lots[n], d)
               PROVE  FALSE
      BY DEF NotCounted
  <2>2. lots[n] # NoLot /\ lots[n] \in Lot
        BY <2>1 DEF NoLot, Typed
  <2>3. ASSUME NEW c \in Call, Commit(c)
        PROVE  FALSE
    <3>1. lots'[n] = Changed(lots[n], change[c][n]) /\ change[c][n] \in Write
          BY <2>1, <2>2, <2>3, CommitDoes DEF Typed
    <3>2. lots'[n].status = IF change[c][n].to = "same" THEN lots[n].status ELSE change[c][n].to
          BY <2>2, <3>1, ChangedIs
    <3> QED BY <3>1, <3>2 DEF Write
  <2>4. CASE ExpireLots
    <3>1. PastBy(lots[n], clock)
          BY <2>1, <2>4, ExpireDoes
    <3>2. /\ clock \in Nat /\ DateOf(clock) \in Int /\ DateOf(MaxTime) \in Int
          /\ lots[n].expires \in Int
          BY <2>1, <2>2, StockAssumption DEF Typed, DateOf, Lot
    <3>3. d \in Int /\ DateOf(clock) <= d
          BY <3>2
    <3>4. clock < (d + 1) * Day
          BY <3>2, <3>3, DayOf
    <3>5. lots[n].expires # Never /\ lots[n].expires <= clock
          BY <3>1 DEF PastBy
    <3>6. lots[n].expires >= (d + 1) * Day
          BY <3>5 DEF Countable, KeepsFor
    <3>7. Day \in Int /\ (d + 1) * Day \in Int
          BY <3>3, StockAssumption
    <3> QED BY <3>2, <3>4, <3>5, <3>6, <3>7
  <2> QED BY <2>3, <2>4 DEF Next, Work, Tick, Send, Claim, TakeLock, Kill, Stop
<1> QED BY <1>1, Invariance, PTL DEF Spec, MarkingChangesNoList

\* Calls that wait in a circle have a purchase among them (Consume, and
\* procurement's Receive): each of the others that is waited for is a batch
\* with locks, and one that waits for it waits for an ingredient below its own.
THEOREM AlwaysNoCircle == Spec => []NoCircle
<1>1. ASSUME IInv, NEW S \in SUBSET Waiting, Circle(S),
             \A c \in S : Asked[c].kind # "purchase"
      PROVE  FALSE
  <2>1. Typed /\ \A c \in S : c \in Call /\ CallOK(c) /\ pc[c] = "locking"
        BY <1>1 DEF IInv, Waiting, Waits
  <2>2. ASSUME NEW c \in S
        PROVE  Asked[c].kind = "consume" /\ Held(c) # {} /\ c \in Call
    <3>1. PICK d \in S : WaitsFor(d, c)
          BY <1>1, <2>2 DEF Circle
    <3>2. NextLock(d) \in DOMAIN holder /\ holder[NextLock(d)] = c
          BY <2>1, <3>1, NextLockIs DEF WaitsFor, Typed
    <3>3. Held(c) # {}
          BY <3>2 DEF Held
    <3>4. Held(c) \subseteq Locks(c) /\ Held(c) # Locks(c)
          BY <2>1 DEF CallOK, HoldsItsLocks
    <3>5. ~Alone(c)
      <4>1. Alone(c) => Locks(c) = {Only(c)}
            BY <2>1, LocksAlone DEF CallOK
      <4> QED BY <3>3, <3>4, <4>1
    <3> QED BY <1>1, <2>1, <3>3, <3>5 DEF Alone
  <2> DEFINE N == {NextLock(c) : c \in S}
  <2>3. \A c \in S : NextLock(c) \in Nat /\ NextLock(c) \in Ingredient
    <3> TAKE c \in S
    <3>1. NextLock(c) \in Listed(Asked[c])
          BY <2>1, <2>2, NextOfBatch
    <3> QED BY <2>2, <3>1, ListIs
  <2>4. N \subseteq Nat /\ N # {}
        BY <1>1, <2>3 DEF Circle
  <2>5. PICK c \in S : \A d \in S : NextLock(c) <= NextLock(d)
    <3> HIDE DEF N
    <3>1. PICK m \in N : \A k \in N : m <= k
          BY <2>4, SmallestNumber
    <3> QED BY <3>1 DEF N
  <2>6. PICK d \in S : WaitsFor(d, c)
        BY <1>1 DEF Circle
  <2>7. NextLock(d) \in Held(c) \cap Ingredient
        BY <2>1, <2>3, <2>6 DEF WaitsFor, Held, Typed
  <2>8. NextLock(d) < NextLock(c)
        BY <2>1, <2>2, <2>7, NextOfBatch
  <2> QED BY <2>3, <2>5, <2>8
<1>2. IInv => NoCircle
      BY <1>1 DEF NoCircle
<1> QED BY <1>2, Invariance, PTL

-----------------------------------------------------------------------------
\* What the kitchen entered, and the stock.

\* The change of an ingredient's stock a call has written.
After(c, i) ==
  SumFunctionOnSet([n \in LotId |-> lots[n].balance + change[c][n].move], LotsOf(i, Counted))

Gained(c, i) == IF fresh[c][i] = NoLot THEN 0 ELSE fresh[c][i].balance

\* A call has written what it was made for: a batch and a look take, a delivery
\* brings what it says, and a count leaves what was counted.
Meant(c) ==
  /\ Asked[c].kind \notin {"receive", "purchase", "count"} =>
       fresh[c] = NoLots /\ \A n \in LotId : change[c][n].move <= 0
  /\ Asked[c].kind \in {"receive", "purchase"} =>
       /\ change[c] = NoChanges
       /\ \A i \in Held(c) \cap Ingredient : fresh[c][i] # NoLot /\ Gained(c, i) = QtyOf(c, i)
  /\ Asked[c].kind = "count" /\ pc[c] = "ending" =>
       LET i == Asked[c].ingredient IN After(c, i) + Gained(c, i) = Asked[c].qty

\* Of calls with one key one is beyond its claim, and none once one committed.
Begun(c) == Keyed(c) /\ pc[c] \in {"locking", "ending"}

Exclusive ==
  \A c \in Call : Begun(c) =>
    KeyOf(c) \notin entered /\ \A d \in Call \ {c} : Begun(d) => KeyOf(d) # KeyOf(c)

KInv == IInv /\ Exclusive /\ \A c \in Call : Meant(c)

\* Of some lots one is the youngest.
LEMMA YoungestLot ==
  ASSUME Typed, NEW S, S \subseteq Stocked, S # {}
  PROVE  \E y \in S : \A m \in S : m = y \/ Older(m, y)
<1> DEFINE Has(T) == T = {} \/ \E y \in T : \A m \in T : m = y \/ Older(m, y)
           G == {T \in SUBSET S : Has(T)}
<1>1. IsFiniteSet(S)
      BY StockAssumption, FS_Subset DEF Stocked
<1>2. {} \in G
      OBVIOUS
<1>3. ASSUME NEW T \in SUBSET S, NEW x \in T, T \ {x} \in G
      PROVE  T \in G
  <2>1. CASE T \ {x} = {}
        BY <2>1
  <2>2. CASE T \ {x} # {}
    <3>1. PICK y \in T \ {x} : \A m \in T \ {x} : m = y \/ Older(m, y)
          BY <1>3, <2>2
    <3>2. CASE Older(x, y)
          BY <3>1, <3>2
    <3>3. CASE Older(y, x)
          BY <3>1, <3>3, OlderIsOrder
    <3> QED BY <3>1, <3>2, <3>3, OlderIsOrder
  <2> QED BY <2>1, <2>2
<1> HIDE DEF G
<1>4. S \in G
      BY <1>1, <1>2, <1>3, SetByElements
<1> QED BY <1>4 DEF G

\* What is taken in all, of the older ones among the lots S.
TakenOf(S, qty) == [n \in LotId |-> Taken(S, qty, n)]

\* Where less is asked for than there is, what is taken is what was asked for.
LEMMA TakenInAll ==
  ASSUME Typed, ClosedIffEmpty, NEW S, S \subseteq Stocked, NEW qty \in Nat, qty <= Sum(S)
  PROVE  Adds(TakenOf(S, qty), S) /\ SumFunctionOnSet(TakenOf(S, qty), S) = qty
<1> DEFINE f == TakenOf(S, qty)
           Closed(T) == \A n \in T, m \in S : Older(m, n) => m \in T
           Is(T) == SumFunctionOnSet(f, T) = IF qty <= Sum(T) THEN qty ELSE Sum(T)
           Bad == {T \in SUBSET S : Closed(T) /\ ~Is(T)}
<1>1. IsFiniteSet(S) /\ S \subseteq LotId
      BY StockAssumption, FS_Subset DEF Stocked
<1>2. \A n \in LotId : f[n] = Taken(S, qty, n) /\ f[n] \in Nat
      BY TakenIs DEF TakenOf
<1>3. \A T \in SUBSET S : Adds(f, T)
      BY <1>1, <1>2, FS_Subset DEF Adds
<1> HIDE DEF f
<1>4. ASSUME Bad # {}
      PROVE  FALSE
  <2>1. PICK T \in Bad : \A V \in Bad : V \subseteq T => V = T
    <3>1. Bad \subseteq SUBSET S
          OBVIOUS
    <3> HIDE DEF Bad
    <3> QED BY <1>1, <1>4, <3>1, SmallestSet
  <2>2. T \subseteq S /\ Closed(T) /\ ~Is(T)
        BY <2>1
  <2>3. T # {}
    <3>1. SumFunctionOnSet(f, {}) = 0
          BY SumEmpty
    <3>2. Sum({}) = 0
          BY SumEmpty DEF Sum
    <3> QED BY <2>2, <3>1, <3>2
  <2>4. PICK y \in T : \A m \in T : m = y \/ Older(m, y)
        BY <2>2, <2>3, YoungestLot
  <2> DEFINE R == T \ {y}
  <2>5. R = Ahead(S, y)
        BY <2>2, <2>4, OlderIsOrder DEF Ahead
  <2>6. Closed(R)
        BY <2>2, <2>4, OlderIsOrder
  <2>7. Is(R)
    <3>1. R \subseteq T /\ R # T /\ R \in SUBSET S
          BY <2>2
    <3>2. R \notin Bad
          BY <2>1, <3>1
    <3> QED BY <2>6, <3>1, <3>2
  <2>8. SumFunctionOnSet(f, T) = f[y] + SumFunctionOnSet(f, R)
        BY <1>3, <2>2, SumTake
  <2>9. /\ Sum(T) = lots[y].balance + Sum(R) /\ Sum(R) \in Nat
        /\ lots[y].balance \in Nat
    <3>1. /\ Adds(LeftOf, T) /\ Sum(T) = SumFunctionOnSet(LeftOf, T)
          /\ Sum(R) = SumFunctionOnSet(LeftOf, R) /\ Sum(R) \in Nat
      <4>1. T \subseteq Stocked /\ R \subseteq Stocked
            BY <2>2
      <4> HIDE DEF R
      <4> QED BY <4>1, SumOfLots
    <3>2. y \in LotId /\ Left(y) = lots[y].balance /\ lots[y].balance \in Nat
          BY <2>2, LotIs DEF Stocked
    <3>3. SumFunctionOnSet(LeftOf, T) = LeftOf[y] + SumFunctionOnSet(LeftOf, R)
          BY <3>1, SumTake
    <3> QED BY <3>1, <3>2, <3>3 DEF LeftOf
  <2>10. f[y] = IF qty <= Sum(R) THEN 0
                ELSE IF lots[y].balance <= qty - Sum(R) THEN lots[y].balance
                ELSE qty - Sum(R)
        BY <1>1, <1>2, <2>2, <2>5, TakenIs
  <2> HIDE DEF R
  <2>11. Is(T)
    <3>1. SumFunctionOnSet(f, R) = IF qty <= Sum(R) THEN qty ELSE Sum(R)
          BY <2>7
    <3> QED BY <2>8, <2>9, <2>10, <3>1
  <2> QED BY <2>2, <2>11
<1>5. Is(S)
  <2>1. Closed(S)
        OBVIOUS
  <2>2. S \notin Bad
        BY <1>4
  <2> QED BY <2>1, <2>2
<1> QED BY <1>3, <1>5 DEF f

\* What is left of each lot as a call has written it.
LeftAfter(ch) == [n \in LotId |-> lots[n].balance + ch[n].move]

LEMMA AfterAdds ==
  ASSUME Typed, ClosedIffEmpty, NEW i, NEW ch \in [LotId -> Write]
  PROVE  /\ Adds(LeftAfter(ch), LotsOf(i, Counted)) /\ Adds(LeftOf, LotsOf(i, Counted))
         /\ \A n \in LotsOf(i, Counted) :
              /\ n \in LotId /\ lots[n].balance \in Nat /\ ch[n].move \in Int
              /\ LeftAfter(ch)[n] = lots[n].balance + ch[n].move
              /\ LeftOf[n] = lots[n].balance
         /\ Sum(LotsOf(i, Counted)) = SumFunctionOnSet(LeftOf, LotsOf(i, Counted))
         /\ Sum(LotsOf(i, Counted)) \in Nat
<1> DEFINE S == LotsOf(i, Counted)
<1>1. S \subseteq Stocked
      BY LotsOfStocked
<1> HIDE DEF S
<1>2. Adds(LeftOf, S) /\ S \subseteq LotId /\ Sum(S) = SumFunctionOnSet(LeftOf, S) /\ Sum(S) \in Nat
      BY <1>1, SumOfLots
<1>3. \A n \in S : /\ n \in LotId /\ lots[n].balance \in Nat /\ ch[n].move \in Int
                   /\ LeftAfter(ch)[n] = lots[n].balance + ch[n].move
                   /\ LeftOf[n] = lots[n].balance
  <2> TAKE n \in S
  <2>1. n \in LotId /\ lots[n].balance \in Nat /\ Left(n) = lots[n].balance
        BY <1>1, <1>2, LotIs DEF Stocked
  <2>2. ch[n].move \in Int
        BY <2>1 DEF Write
  <2> QED BY <2>1, <2>2 DEF LeftAfter, LeftOf
<1>4. Adds(LeftAfter(ch), S)
      BY <1>2, <1>3 DEF Adds
<1> QED BY <1>2, <1>3, <1>4 DEF S

\* With its changes, and the lot it adds where there was none, there is as much
\* as was counted.
LEMMA CountMeans ==
  ASSUME Typed, ClosedIffEmpty, NEW c \in Call, Asked[c].kind = "count"
  PROVE  LET i == Asked[c].ingredient
         IN  SumFunctionOnSet(LeftAfter(CountChanges(c)), LotsOf(i, Counted))
             + (IF Surplus(c) > 0 /\ NewestAvailable(i) = {} THEN Surplus(c) ELSE 0)
               = Asked[c].qty
<1> DEFINE i == Asked[c].ingredient
           S == LotsOf(i, Counted)
           ch == CountChanges(c)
           f == LeftAfter(ch)
           total == SumFunctionOnSet(f, S)
<1>1. /\ Surplus(c) \in Int /\ Asked[c].qty \in Nat /\ Surplus(c) = Asked[c].qty - Sum(S)
      BY SurplusIs DEF Surplus
<1>2. ch \in [LotId -> Write]
      BY CountRight DEF Right
<1>3. /\ Adds(f, S) /\ Adds(LeftOf, S)
      /\ \A n \in S : /\ n \in LotId /\ lots[n].balance \in Nat /\ ch[n].move \in Int
                      /\ f[n] = lots[n].balance + ch[n].move
                      /\ LeftOf[n] = lots[n].balance
      /\ Sum(S) = SumFunctionOnSet(LeftOf, S) /\ Sum(S) \in Nat
      BY <1>2, AfterAdds
<1>4. S \subseteq Stocked
      BY LotsOfStocked
<1>5. total \in Int
      BY <1>3, SumType
<1>6. ASSUME \A n \in S : ch[n] = NoChange
      PROVE  total = Sum(S)
  <2>1. \A n \in S : LeftOf[n] = f[n]
        BY <1>3, <1>6, NoChangesTyped
  <2> HIDE DEF f, S
  <2>2. SumFunctionOnSet(f, S) = SumFunctionOnSet(LeftOf, S)
        BY <1>3, <2>1, SumSame
  <2> QED BY <1>3, <2>2
<1>7. CASE Surplus(c) < 0
  <2> DEFINE qty == -Surplus(c)
             g == TakenOf(S, qty)
  <2>1. qty \in Nat /\ qty <= Sum(S)
        BY <1>1, <1>3, <1>7
  <2>2. ch = TakeOut(S, qty)
        BY <1>7 DEF CountChanges
  <2> HIDE DEF qty, S
  <2>3. Adds(g, S) /\ SumFunctionOnSet(g, S) = qty
        BY <1>4, <2>1, TakenInAll
  <2>4. \A n \in S : LeftOf[n] = f[n] + g[n]
    <3> TAKE n \in S
    <3>1. ch[n].move + g[n] = 0 /\ g[n] \in Int
      <4>1. n \in LotId /\ g[n] = Taken(S, qty, n)
            BY <1>3 DEF TakenOf
      <4>2. g[n] \in Int
            BY <2>3 DEF Adds
      <4>3. TakeOut(S, qty)[n].move + Taken(S, qty, n) = 0
            BY <1>4, <2>1, <4>1, TakeOutIs
      <4> QED BY <2>2, <4>1, <4>2, <4>3
    <3> QED BY <1>3, <3>1
  <2> HIDE DEF f, g, ch
  <2>5. SumFunctionOnSet(LeftOf, S) = SumFunctionOnSet(f, S) + SumFunctionOnSet(g, S)
        BY <1>3, <2>3, <2>4, SumPlus
  <2> QED BY <1>1, <1>3, <1>5, <1>7, <2>1, <2>3, <2>5 DEF S, f, ch, qty
<1>8. CASE Surplus(c) = 0
  <2>1. ch = NoChanges
        BY <1>8 DEF CountChanges
  <2>2. total = Sum(S)
        BY <1>3, <1>6, <2>1, NoChangesTyped
  <2> QED BY <1>1, <1>3, <1>8, <2>2
<1>9. CASE Surplus(c) > 0
  <2>1. ch = [n \in LotId |-> IF n \in NewestAvailable(i) THEN [NoChange EXCEPT !.move = Surplus(c)]
                              ELSE NoChange]
        BY <1>1, <1>9 DEF CountChanges
  <2>2. CASE NewestAvailable(i) = {}
    <3>1. total = Sum(S)
          BY <1>3, <1>6, <2>1, <2>2
    <3> QED BY <1>1, <1>3, <1>9, <2>2, <3>1
  <2>3. CASE NewestAvailable(i) # {}
    <3>1. PICK y \in NewestAvailable(i) : TRUE
          BY <2>3
    <3>2. y \in S
          BY <3>1 DEF NewestAvailable, LotsOf, Counted
    <3>3. \A n \in NewestAvailable(i) : n = y
      <4>1. NewestAvailable(i) \subseteq S
            BY DEF NewestAvailable, LotsOf, Counted
      <4> SUFFICES ASSUME NEW n \in NewestAvailable(i), n # y PROVE FALSE
          OBVIOUS
      <4>2. Older(n, y) /\ Older(y, n)
            BY <3>1 DEF NewestAvailable
      <4> QED BY <1>4, <3>2, <4>1, <4>2, OlderIsOrder
    <3>4. f[y] = LeftOf[y] + Surplus(c)
      <4>1. ch[y] = [NoChange EXCEPT !.move = Surplus(c)]
            BY <1>3, <2>1, <3>1, <3>2
      <4>2. ch[y].move = Surplus(c)
            BY <4>1 DEF NoChange
      <4> QED BY <1>3, <3>2, <4>2
    <3>5. \A n \in S \ {y} : LeftOf[n] = f[n]
      <4> TAKE n \in S \ {y}
      <4>1. ch[n] = NoChange
            BY <1>3, <2>1, <3>3
      <4> QED BY <1>3, <4>1, NoChangesTyped
    <3> DEFINE R == S \ {y}
    <3>6. /\ SumFunctionOnSet(f, S) = f[y] + SumFunctionOnSet(f, R)
          /\ SumFunctionOnSet(LeftOf, S) = LeftOf[y] + SumFunctionOnSet(LeftOf, R)
          /\ Adds(f, R) /\ Adds(LeftOf, R)
      <4> HIDE DEF f, S
      <4> QED BY <1>3, <3>2, SumTake, FS_Subset DEF Adds
    <3> HIDE DEF R
    <3>7. SumFunctionOnSet(LeftOf, R) = SumFunctionOnSet(f, R) /\ SumFunctionOnSet(f, R) \in Int
      <4> HIDE DEF f
      <4> QED BY <3>5, <3>6, SumSame, SumType DEF R
    <3>8. LeftOf[y] \in Int
          BY <1>3, <3>2
    <3> QED BY <1>1, <1>3, <1>9, <2>3, <3>4, <3>6, <3>7, <3>8
  <2> QED BY <2>2, <2>3
<1> QED BY <1>1, <1>7, <1>8, <1>9

-----------------------------------------------------------------------------
\* Each step keeps what was meant.

LEMMA MeantAtRest ==
  ASSUME NEW c \in Call, pc[c] # "ending", change[c] = NoChanges, fresh[c] = NoLots, Held(c) = {}
  PROVE  Meant(c)
BY NoChangesTyped DEF Meant

LEMMA MeantKept ==
  ASSUME Typed, ClosedIffEmpty, NEW c \in Call, CallOK(c), Meant(c), SameCall(c), LotsKept(c)
  PROVE  Meant(c)'
<1>1. Asked[c].kind \notin {"receive", "purchase", "count"} =>
        fresh'[c] = NoLots /\ \A n \in LotId : change'[c][n].move <= 0
      BY DEF Meant, SameCall
<1>2. Asked[c].kind \in {"receive", "purchase"} =>
        /\ change'[c] = NoChanges
        /\ \A i \in Held(c)' \cap Ingredient : fresh'[c][i] # NoLot /\ Gained(c, i)' = QtyOf(c, i)
      BY DEF Meant, SameCall, Gained
<1>3. ASSUME Asked[c].kind = "count", pc[c] = "ending"
      PROVE  After(c, Asked[c].ingredient)' + Gained(c, Asked[c].ingredient)' = Asked[c].qty
  <2> DEFINE i == Asked[c].ingredient
             S == LotsOf(i, Counted)
  <2>1. i \in Held(c)
        BY <1>3 DEF CallOK, HoldsItsLocks, Locks
  <2>2. \A n \in S : lots[n] # NoLot
        BY DEF LotsOf, Counted, NoLot
  <2>3. \A n \in S : lots'[n].balance = lots[n].balance
        BY <2>1, <2>2 DEF LotsOf, LotsKept
  <2>4. S' = S
    <3>1. ASSUME NEW n \in S
          PROVE  n \in S'
          BY <2>1, <2>2 DEF LotsOf, LotsKept, Counted
    <3>2. ASSUME NEW n \in S'
          PROVE  n \in S
      <4>1. n \in LotId /\ lots'[n].status \in Counted /\ lots'[n].ingredient = i
            BY <3>2 DEF LotsOf, Counted
      <4>2. lots'[n] # NoLot
            BY <4>1 DEF Counted, NoLot
      <4>3. lots[n] # NoLot /\ lots[n].ingredient = i
            BY <2>1, <4>1, <4>2 DEF LotsKept
      <4>4. lots[n].status \in Counted
            BY <2>1, <4>1, <4>3 DEF LotsKept, Counted
      <4> QED BY <4>1, <4>3, <4>4 DEF LotsOf
    <3> QED BY <3>1, <3>2
  <2>5. change[c] \in [LotId -> Write] /\ change'[c] = change[c]
        BY DEF Typed, SameCall
  <2> DEFINE f == LeftAfter(change[c])
             g == [n \in LotId |-> lots'[n].balance + change'[c][n].move]
  <2>6. Adds(f, S) /\ \A n \in S : n \in LotId
        BY <2>5, AfterAdds
  <2>7. \A n \in S : f[n] = g[n]
        BY <2>3, <2>5, <2>6 DEF LeftAfter
  <2>8. SumFunctionOnSet(g, S) = SumFunctionOnSet(f, S)
    <3> HIDE DEF f, g, S
    <3> QED BY <2>6, <2>7, SumSame
  <2>9. After(c, i)' = SumFunctionOnSet(g, S') /\ After(c, i) = SumFunctionOnSet(f, S)
        BY DEF After, LeftAfter
  <2>10. Gained(c, i)' = Gained(c, i)
        BY DEF Gained, SameCall
  <2> QED BY <1>3, <2>4, <2>8, <2>9, <2>10 DEF Meant
<1> QED BY <1>1, <1>2, <1>3 DEF Meant, SameCall

LEMMA LockMeant ==
  ASSUME Typed, ClosedIffEmpty, NEW c \in Call, CallOK(c), Meant(c), TakeLock(c),
         ~(Looks(c) /\ CheckRefused(c))
  PROVE  Meant(c)'
<1> DEFINE l == NextLock(c)
<1>1. /\ pc[c] = "locking" /\ l \in Ingredient \cup Batch /\ lots' = lots
      /\ Held(c)' = Held(c) \cup {l} /\ l \notin Held(c)
      /\ IF l \in Batch THEN change' = change /\ fresh' = fresh
         ELSE /\ change' = [change EXCEPT ![c] = Changes(c, l)]
              /\ fresh' = [fresh EXCEPT ![c][l] = Fresh(c, l)]
      /\ l \in Batch => ~Alone(c)
      BY LockDoes, NextLockIs
<1> HIDE DEF l
<1>2. CASE l \in Batch
  <2>1. change'[c] = change[c] /\ fresh'[c] = fresh[c]
        BY <1>1, <1>2
  <2>2. l \notin Ingredient /\ Asked[c].kind # "count"
        BY <1>1, <1>2, StockAssumption DEF Alone
  <2> QED BY <1>1, <2>1, <2>2 DEF Meant, Gained
<1>3. CASE l \notin Batch
  <2>1. /\ change'[c] = Changes(c, l) /\ fresh'[c][l] = Fresh(c, l)
        /\ \A i \in Ingredient : i # l => fresh'[c][i] = fresh[c][i]
        /\ fresh'[c] = [fresh[c] EXCEPT ![l] = Fresh(c, l)]
        BY <1>1, <1>3 DEF Typed
  <2>2. l \in Ingredient /\ l \in Locks(c)
        BY <1>1, <1>3, NextLockIs DEF l
  <2>3. CASE Asked[c].kind \notin {"receive", "purchase", "count"}
    <3>1. Fresh(c, l) = NoLot
          BY <1>1, <2>2, <2>3, FreshIs DEF l
    <3>2. fresh'[c] = NoLots
      <4>1. fresh[c] = NoLots
            BY <2>3 DEF Meant
      <4> QED BY <2>1, <2>2, <3>1, <4>1 DEF NoLots
    <3>3. ASSUME NEW n \in LotId
          PROVE  Changes(c, l)[n].move <= 0
      <4>1. CASE Asked[c].kind = "consume"
        <5> DEFINE S == LotsOf(l, {"available"})
                   qty == ListedOf(Asked[c], l)
        <5>1. Changes(c, l) = ConsumeChanges(c, l)
              BY <4>1 DEF Changes
        <5>2. l \in Listed(Asked[c])
              BY <1>3, <2>2, <4>1, ListIs
        <5>3. qty \in Nat /\ S \subseteq Stocked
              BY <4>1, <5>2, UsedOf, LotsOfStocked
        <5> HIDE DEF S, qty
        <5>4. /\ TakeOut(S, qty) \in [LotId -> Write]
              /\ TakeOut(S, qty)[n].move + Taken(S, qty, n) = 0 /\ Taken(S, qty, n) \in Nat
              BY <5>3, TakeOutIs, TakenIs
        <5>5. TakeOut(S, qty)[n].move <= 0
              BY <5>4 DEF Write
        <5>6. change[c][n].move <= 0
              BY <2>3 DEF Meant
        <5>7. ConsumeChanges(c, l)[n] = IF n \in S THEN TakeOut(S, qty)[n] ELSE change[c][n]
              BY DEF ConsumeChanges, S, qty
        <5> QED BY <5>1, <5>5, <5>6, <5>7
      <4>2. CASE Looks(c)
        <5> DEFINE t == target[c]
                   w == IF Asked[c].kind = "ok" THEN [NoChange EXCEPT !.ok = now[c]]
                        ELSE [move |-> -lots[t].balance, to |-> "discarded", ok |-> Never]
        <5>1. t \in LotId /\ lots[t] # NoLot /\ lots[t].balance \in Int
              BY <1>1, <4>2 DEF CallOK, Looking, Typed, Lot
        <5>2. lots[t].balance >= 0
              BY <5>1 DEF ClosedIffEmpty
        <5>3. Changes(c, l) = [NoChanges EXCEPT ![t] = w]
              BY <4>2 DEF Changes, Looks, CheckChanges
        <5>4. w.move <= 0
          <6>1. CASE Asked[c].kind = "ok"
                BY <6>1 DEF NoChange
          <6>2. CASE Asked[c].kind # "ok"
                BY <5>1, <5>2, <6>2
          <6> QED BY <6>1, <6>2
        <5>5. NoChanges[n].move <= 0
              BY NoChangesTyped
        <5> HIDE DEF w
        <5>6. Changes(c, l)[n] = IF n = t THEN w ELSE NoChanges[n]
              BY <5>1, <5>3, NoChangesTyped
        <5> QED BY <5>4, <5>5, <5>6
      <4> QED BY <2>3, <4>1, <4>2, StockAssumption DEF Looks
    <3> QED BY <2>1, <2>3, <3>2, <3>3 DEF Meant
  <2>4. CASE Asked[c].kind \in {"receive", "purchase"}
    <3>1. Fresh(c, l) # NoLot /\ Fresh(c, l).balance = QtyOf(c, l)
          BY <1>1, <2>2, <2>4, FreshIs DEF l
    <3>2. Changes(c, l) = NoChanges
          BY <2>4 DEF Changes
    <3>3. ASSUME NEW i \in Held(c)' \cap Ingredient
          PROVE  fresh'[c][i] # NoLot /\ Gained(c, i)' = QtyOf(c, i)
      <4>1. CASE i = l
            BY <2>1, <3>1, <4>1 DEF Gained
      <4>2. CASE i # l
            BY <1>1, <2>1, <2>4, <4>2 DEF Gained, Meant
      <4> QED BY <4>1, <4>2
    <3> QED BY <2>1, <2>4, <3>2, <3>3 DEF Meant
  <2>5. CASE Asked[c].kind = "count"
    <3> DEFINE i == Asked[c].ingredient
               ch == CountChanges(c)
    <3>1. l = i
          BY <2>2, <2>5 DEF Locks
    <3>2. change'[c] = ch
          BY <2>1, <2>5 DEF Changes
    <3>3. Gained(c, i)' = IF Surplus(c) > 0 /\ NewestAvailable(i) = {} THEN Surplus(c) ELSE 0
      <4>1. Fresh(c, i) # NoLot => Fresh(c, i).balance = Surplus(c)
            BY <1>1, <2>2, <2>5, <3>1, FreshIs DEF l
      <4>2. Fresh(c, i) # NoLot <=> Surplus(c) > 0 /\ NewestAvailable(i) = {}
            BY <1>1, <2>2, <2>5, <3>1, FreshIs DEF l
      <4> QED BY <2>1, <3>1, <4>1, <4>2 DEF Gained
    <3>4. After(c, i)' = SumFunctionOnSet(LeftAfter(ch), LotsOf(i, Counted))
          BY <1>1, <3>2 DEF After, LeftAfter, LotsOf
    <3>5. After(c, i)' + Gained(c, i)' = Asked[c].qty
          BY <2>5, <3>3, <3>4, CountMeans
    <3> QED BY <2>5, <3>5 DEF Meant
  <2> QED BY <2>3, <2>4, <2>5
<1> QED BY <1>2, <1>3

\* A step that changes nothing of the others' control, and of the entries none
\* of theirs.
LEMMA ExclusiveKept ==
  ASSUME Typed, Exclusive, entered' = entered, NEW c \in Call,
         \A d \in Call \ {c} : pc'[d] = pc[d],
         Begun(c)' => Begun(c)
  PROVE  Exclusive'
BY DEF Exclusive, Begun, Keyed, KeyOf

LEMMA RestMeant ==
  ASSUME Typed, ClosedIffEmpty, NEW c \in Call, \A d \in Call : CallOK(d) /\ Meant(d),
         lots' = lots, \A d \in Call \ {c} : SameCall(d), Meant(c)'
  PROVE  \A d \in Call : Meant(d)'
BY LotsSame, MeantKept

LEMMA EndMeans ==
  ASSUME KInv, NEW c \in Call, Over(c), UNCHANGED <<clock, lots, entered>>
  PROVE  Exclusive' /\ \A d \in Call : Meant(d)'
<1>1. /\ Typed /\ ClosedIffEmpty /\ Exclusive
      /\ \A d \in Call : CallOK(d) /\ Meant(d)
      BY DEF KInv, IInv
<1>2. /\ pc'[c] = "idle" /\ change'[c] = NoChanges /\ fresh'[c] = NoLots /\ Held(c)' = {}
      /\ \A d \in Call \ {c} : SameCall(d)
      BY <1>1, OverDoes
<1>3. Meant(c)'
      BY <1>2, NoChangesTyped DEF Meant
<1>4. Exclusive'
      BY <1>1, <1>2, ExclusiveKept DEF Begun, SameCall
<1> QED BY <1>1, <1>2, <1>3, <1>4, RestMeant

LEMMA StepMeans ==
  ASSUME KInv, [Next]_vars
  PROVE  Exclusive' /\ \A d \in Call : Meant(d)'
<1>1. /\ Typed /\ ClosedIffEmpty /\ Exclusive /\ IInv
      /\ \A d \in Call : CallOK(d) /\ Meant(d)
      BY DEF KInv, IInv
<1>2. IInv'
      BY <1>1, StepOK
<1>3. ASSUME UNCHANGED <<lots, entered, holder, pc, target, change, fresh>>
      PROVE  Exclusive' /\ \A d \in Call : Meant(d)'
  <2>1. Exclusive'
        BY <1>1, <1>3 DEF Exclusive, Begun, Keyed, KeyOf
  <2>2. \A d \in Call : SameCall(d)
        BY <1>3 DEF SameCall, Held
  <2> QED BY <1>1, <1>3, <2>1, <2>2, LotsSame, MeantKept
<1>4. ASSUME NEW c \in Call, Send(c)
      PROVE  Exclusive' /\ \A d \in Call : Meant(d)'
  <2>1. /\ pc[c] = "idle" /\ pc'[c] = Begins(c) /\ lots' = lots /\ entered' = entered
        /\ change'[c] = change[c] /\ fresh'[c] = fresh[c] /\ Held(c)' = Held(c)
        /\ \A d \in Call \ {c} : SameCall(d)
        BY <1>1, <1>4 DEF Send, Typed, Held, SameCall
  <2>2. change[c] = NoChanges /\ fresh[c] = NoLots /\ Held(c) = {}
        BY <1>1, <2>1 DEF CallOK, HoldsItsLocks
  <2>3. pc'[c] # "ending"
        BY <2>1 DEF Begins
  <2>4. Meant(c)'
        BY <2>1, <2>2, <2>3, NoChangesTyped DEF Meant
  <2>5. ~Begun(c)'
        BY <2>1 DEF Begun, Begins, Keyed
  <2>6. Exclusive'
        BY <1>1, <2>1, <2>5, ExclusiveKept DEF SameCall
  <2> QED BY <1>1, <2>1, <2>4, <2>6, RestMeant
<1>5. ASSUME NEW c \in Call, Claim(c)
      PROVE  Exclusive' /\ \A d \in Call : Meant(d)'
  <2>1. CASE Claimed(c)
        BY <1>5, <2>1, EndMeans DEF Claim
  <2>2. CASE ~Claimed(c)
    <3>1. /\ pc' = [pc EXCEPT ![c] = "locking"] /\ pc[c] = "claiming" /\ ~ClaimInFlight(c)
          /\ UNCHANGED <<lots, entered, holder, target, change, fresh>>
          BY <1>5, <2>2 DEF Claim
    <3>2. /\ \A d \in Call \ {c} : SameCall(d)
          /\ pc'[c] = "locking" /\ \A d \in Call \ {c} : pc'[d] = pc[d]
          BY <1>1, <3>1 DEF Typed, SameCall, Held
    <3>3. Held(c)' = {} /\ change'[c] = NoChanges /\ fresh'[c] = NoLots
          BY <1>1, <3>1 DEF CallOK, HoldsItsLocks, Held
    <3>4. Meant(c)'
          BY <3>2, <3>3, NoChangesTyped DEF Meant
    <3>5. Exclusive'
          BY <1>1, <2>2, <3>1, <3>2 DEF Exclusive, Begun, Keyed, KeyOf, Claimed, ClaimInFlight
    <3> QED BY <1>1, <3>1, <3>2, <3>4, <3>5, RestMeant
  <2> QED BY <2>1, <2>2
<1>6. ASSUME NEW c \in Call, TakeLock(c)
      PROVE  Exclusive' /\ \A d \in Call : Meant(d)'
  <2>1. CASE Looks(c) /\ CheckRefused(c)
        BY <1>6, <2>1, EndMeans DEF TakeLock, Looks
  <2>2. CASE ~(Looks(c) /\ CheckRefused(c))
    <3>1. /\ pc[c] = "locking" /\ lots' = lots /\ entered' = entered
          /\ \A d \in Call \ {c} : SameCall(d)
          BY <1>1, <1>6, <2>2, LockDoes
    <3>2. Meant(c)'
          BY <1>1, <1>6, <2>2, LockMeant
    <3>3. Exclusive'
          BY <1>1, <3>1, ExclusiveKept DEF SameCall, Begun, Keyed
    <3> QED BY <1>1, <3>1, <3>2, <3>3, RestMeant
  <2> QED BY <2>1, <2>2
<1>7. ASSUME NEW c \in Call, Commit(c)
      PROVE  Exclusive' /\ \A d \in Call : Meant(d)'
  <2>1. /\ Over(c) /\ pc[c] = "ending"
        /\ entered' = IF Keyed(c) THEN entered \cup {KeyOf(c)} ELSE entered
        BY <1>7 DEF Commit
  <2>2. /\ pc'[c] = "idle" /\ change'[c] = NoChanges /\ fresh'[c] = NoLots /\ Held(c)' = {}
        /\ \A d \in Call \ {c} : SameCall(d)
        BY <1>1, <2>1, OverDoes
  <2>3. Meant(c)'
        BY <2>2, NoChangesTyped DEF Meant
  <2>4. \A d \in Call \ {c} : LotsKept(d)
        BY <1>1, <1>7, CommitLeaves
  <2>5. Exclusive'
    <3>1. ~Begun(c)' /\ \A d \in Call \ {c} : Begun(d)' <=> Begun(d)
          BY <2>2 DEF Begun, SameCall, Keyed
    <3>2. \A d \in Call : KeyOf(d)' = KeyOf(d)
          BY DEF KeyOf
    <3>3. Keyed(c) => Begun(c)
          BY <2>1 DEF Begun
    <3> QED BY <1>1, <2>1, <3>1, <3>2, <3>3 DEF Exclusive
  <2> QED BY <1>1, <2>2, <2>3, <2>4, <2>5, MeantKept
<1>8. ASSUME ExpireLots
      PROVE  Exclusive' /\ \A d \in Call : Meant(d)'
  <2>1. UNCHANGED <<entered, holder, pc, target, change, fresh>>
        BY <1>8 DEF ExpireLots
  <2>2. \A d \in Call : SameCall(d) /\ LotsKept(d)
        BY <1>1, <1>8, <2>1, ExpireLeaves DEF SameCall, Held
  <2>3. Exclusive'
        BY <1>1, <2>1 DEF Exclusive, Begun, Keyed, KeyOf
  <2> QED BY <1>1, <2>2, <2>3, MeantKept
<1>9. ASSUME NEW c \in Call, Kill(c) \/ Stop(c)
      PROVE  Exclusive' /\ \A d \in Call : Meant(d)'
      BY <1>9, EndMeans DEF Kill, Stop
<1> QED BY <1>3, <1>4, <1>5, <1>6, <1>7, <1>8, <1>9 DEF Next, Work, Tick, vars

\* What was entered under a key is what its call meant, and one call at a time
\* has a key (Receive's and Count's keys), beside the first invariant.
THEOREM KeyedInvariance == Spec => []KInv
<1>1. Init => KInv
  <2> SUFFICES ASSUME Init PROVE KInv
      OBVIOUS
  <2>1. IInv
        BY InitOK
  <2>2. Exclusive
        BY DEF Init, Exclusive, Begun
  <2>3. ASSUME NEW c \in Call
        PROVE  Meant(c)
    <3>1. pc[c] = "idle" /\ change[c] = NoChanges /\ fresh[c] = NoLots /\ Held(c) = {}
          BY <2>1 DEF Init, IInv, CallOK, HoldsItsLocks
    <3> QED BY <3>1, MeantAtRest
  <2> QED BY <2>1, <2>2, <2>3 DEF KInv
<1>2. KInv /\ [Next]_vars => KInv'
      BY StepOK, StepMeans DEF KInv
<1> QED BY <1>1, <1>2, PTL DEF Spec

-----------------------------------------------------------------------------
\* The stock as numbers.

\* A lot inserted is the only new one of its ingredient.
LEMMA CommitAdds ==
  ASSUME Typed, ClosedIffEmpty, NEW c \in Call, CallOK(c), Commit(c),
         NEW i \in Ingredient, fresh[c][i] # NoLot
  PROVE  \E y \in LotId :
           /\ lots[y] = NoLot /\ lots'[y] = fresh[c][i]
           /\ \A n \in LotId :
                lots[n] = NoLot /\ lots'[n] # NoLot /\ lots'[n].ingredient = i => n = y
<1> DEFINE inserted == {j \in Ingredient : fresh[c][j] # NoLot}
           free == {n \in LotId : lots[n] = NoLot}
<1>1. PICK id \in Injection(inserted, free) :
        lots' = [ n \in LotId |->
                    IF \E j \in inserted : id[j] = n
                    THEN fresh[c][CHOOSE j \in inserted : id[j] = n]
                    ELSE Changed(lots[n], change[c][n]) ]
      BY DEF Commit
<1>2. /\ id \in [inserted -> free] /\ i \in inserted
      /\ \A j, k \in inserted : id[j] = id[k] => j = k
      BY DEF Injection, IsInjective
<1>3. id[i] \in LotId /\ lots[id[i]] = NoLot
      BY <1>2
<1>4. lots'[id[i]] = fresh[c][i]
  <2>1. (CHOOSE j \in inserted : id[j] = id[i]) = i
        BY <1>2
  <2> QED BY <1>1, <1>2, <1>3, <2>1
<1>5. ASSUME NEW n \in LotId, lots[n] = NoLot, lots'[n] # NoLot, lots'[n].ingredient = i
      PROVE  n = id[i]
  <2>1. change[c][n] = NoChange
        BY <1>5 DEF CallOK, Written
  <2>2. Changed(lots[n], change[c][n]) = NoLot
        BY <1>5, <2>1 DEF Changed
  <2>3. PICK j \in inserted : id[j] = n /\ lots'[n] = fresh[c][j]
        BY <1>1, <1>5, <2>2
  <2>4. j = i
        BY <1>5, <2>3 DEF CallOK, Inserted
  <2> QED BY <2>3, <2>4
<1> QED BY <1>3, <1>4, <1>5

LEMMA ShelfAfter ==
  ASSUME IInv, IInv', NEW c \in Call, Commit(c), NEW i \in Ingredient
  PROVE  Sum(LotsOf(i, Counted))' = After(c, i) + Gained(c, i)
<1> DEFINE S == LotsOf(i, Counted)
           T == LotsOf(i, Counted)'
           f == LeftAfter(change[c])
           h == [n \in LotId |-> Left(n)']
           P == S \cap T
           D == S \ T
           N == T \ S
<1>1. /\ Typed /\ ClosedIffEmpty /\ CallOK(c) /\ Typed' /\ ClosedIffEmpty'
      /\ change[c] \in [LotId -> Write]
      BY DEF IInv, Typed
<1>2. Sum(LotsOf(i, Counted))' = SumFunctionOnSet(h, T)
      BY DEF Sum
<1>3. After(c, i) = SumFunctionOnSet(f, S) /\ Adds(f, S)
      BY <1>1, AfterAdds DEF After, LeftAfter
<1>4. \A n \in T : n \in LotId /\ lots'[n].status \in Counted /\ lots'[n].ingredient = i
      BY DEF LotsOf, Counted
<1>5. \A n \in T : h[n] = lots'[n].balance /\ h[n] \in Int
  <2> TAKE n \in T
  <2>1. lots'[n] # NoLot
        BY <1>4 DEF Counted, NoLot
  <2>2. lots'[n].balance \in Int /\ lots'[n].balance >= 0
        BY <1>1, <1>4, <2>1 DEF Typed, Lot, ClosedIffEmpty
  <2>3. Left(n)' = lots'[n].balance
        BY <2>2, MaxOfTwo DEF Left
  <2> QED BY <1>4, <2>2, <2>3
<1>6. IsFiniteSet(T)
      BY <1>4, StockAssumption, FS_Subset
<1>7. \A n \in S : /\ n \in LotId /\ lots[n].ingredient = i /\ lots[n].status \in Counted
                   /\ lots[n] # NoLot /\ lots[n] \in Lot /\ change[c][n] \in Write
  <2> TAKE n \in S
  <2>1. n \in LotId /\ lots[n].ingredient = i /\ lots[n].status \in Counted
        BY DEF LotsOf
  <2> QED BY <1>1, <2>1, LotIs
<1>8. \A n \in S : /\ lots'[n] # NoLot /\ lots'[n].ingredient = i
                   /\ lots'[n].balance = f[n]
  <2> TAKE n \in S
  <2>1. lots'[n] = Changed(lots[n], change[c][n])
        BY <1>1, <1>7, CommitDoes
  <2>2. lots'[n] # NoLot /\ lots'[n].ingredient = i
        /\ lots'[n].balance = lots[n].balance + change[c][n].move
        BY <1>7, <2>1, ChangedIs
  <2> QED BY <1>7, <2>2 DEF LeftAfter
<1>9. \A n \in D : f[n] = 0
  <2> TAKE n \in D
  <2>1. lots'[n].status \notin Counted
        BY <1>7, <1>8 DEF LotsOf
  <2>2. lots'[n] \in Lot
        BY <1>1, <1>7, <1>8 DEF Typed
  <2>3. lots'[n].status \in {"exhausted", "discarded"}
        BY <2>1, <2>2 DEF Lot, Counted
  <2> QED BY <1>1, <1>7, <1>8, <2>3 DEF ClosedIffEmpty
<1>10. \A n \in N : lots[n] = NoLot /\ lots'[n] # NoLot /\ lots'[n] = fresh[c][i] /\ fresh[c][i] # NoLot
  <2> TAKE n \in N
  <2>1. lots'[n] # NoLot
        BY <1>4 DEF Counted, NoLot
  <2>2. lots[n] = NoLot
    <3> SUFFICES ASSUME lots[n] # NoLot PROVE FALSE
        OBVIOUS
    <3>1. n \in LotId /\ lots[n] \in Lot /\ change[c][n] \in Write
          BY <1>1, <1>4 DEF Typed
    <3>2. lots'[n] = Changed(lots[n], change[c][n])
          BY <1>1, <3>1, CommitDoes
    <3>3. /\ lots'[n].ingredient = lots[n].ingredient
          /\ lots'[n].status = IF change[c][n].to = "same" THEN lots[n].status ELSE change[c][n].to
          BY <3>1, <3>2, ChangedIs
    <3>4. lots[n].status \in Counted
          BY <1>4, <3>1, <3>3 DEF Write, Counted
    <3> QED BY <1>4, <3>1, <3>3, <3>4 DEF LotsOf
  <2>3. PICK j \in Ingredient : lots'[n].ingredient = j /\ lots'[n] = fresh[c][j]
        BY <1>1, <1>4, <2>1, <2>2, CommitInserts
  <2> QED BY <1>4, <2>1, <2>2, <2>3
<1>11. SumFunctionOnSet(h, N) = Gained(c, i)
  <2>1. CASE fresh[c][i] = NoLot
    <3>1. N = {}
          BY <1>10, <2>1
    <3> HIDE DEF N, h
    <3> QED BY <2>1, <3>1, SumEmpty DEF Gained
  <2>2. CASE fresh[c][i] # NoLot
    <3>1. PICK y \in LotId :
            /\ lots[y] = NoLot /\ lots'[y] = fresh[c][i]
            /\ \A n \in LotId :
                 lots[n] = NoLot /\ lots'[n] # NoLot /\ lots'[n].ingredient = i => n = y
          BY <1>1, <2>2, CommitAdds
    <3>2. fresh[c][i].ingredient = i /\ fresh[c][i].status = "available"
          BY <1>1, <2>2 DEF CallOK, Inserted
    <3>3. y \in T /\ y \notin S
          BY <1>7, <3>1, <3>2 DEF LotsOf, Counted
    <3>4. N = {y}
          BY <1>4, <1>10, <3>1, <3>3
    <3>5. h[y] = fresh[c][i].balance /\ h[y] \in Int
          BY <1>5, <3>1, <3>3
    <3> HIDE DEF N, h
    <3> QED BY <2>2, <3>4, <3>5, SumOne DEF Gained
  <2> QED BY <2>1, <2>2
<1>12. Adds(h, T)
      BY <1>5, <1>6 DEF Adds
<1>13. \A n \in P : f[n] = h[n]
      BY <1>5, <1>8
<1>14. P \cup N = T /\ P \cap N = {} /\ P \cup D = S /\ P \cap D = {}
      OBVIOUS
<1> HIDE DEF S, T, f, h, P, D, N
<1>15. SumFunctionOnSet(h, T) = SumFunctionOnSet(h, P) + SumFunctionOnSet(h, N)
      BY <1>12, <1>14, SumParts
<1>16. /\ SumFunctionOnSet(f, S) = SumFunctionOnSet(f, P) + SumFunctionOnSet(f, D)
       /\ Adds(f, P) /\ Adds(f, D)
      BY <1>3, <1>14, SumParts
<1>17. SumFunctionOnSet(h, P) = SumFunctionOnSet(f, P) /\ SumFunctionOnSet(f, P) \in Int
      BY <1>13, <1>16, SumSame, SumType
<1>18. SumFunctionOnSet(f, D) = 0
      BY <1>9, <1>16, SumZero DEF Adds
<1> QED BY <1>2, <1>3, <1>11, <1>15, <1>16, <1>17, <1>18

\* What an entry says, of the call that is made for it.
LEMMA SaysIs ==
  ASSUME NEW c \in Call, Keyed(c)
  PROVE  /\ KeyOf(c) \in DOMAIN Says
         /\ Says[KeyOf(c)].counts <=> Asked[c].kind = "count"
         /\ DOMAIN Says[KeyOf(c)].brings =
              IF Asked[c].kind = "purchase" THEN Listed(Asked[c]) ELSE {Asked[c].ingredient}
         /\ \A i \in DOMAIN Says[KeyOf(c)].brings : Says[KeyOf(c)].brings[i] = QtyOf(c, i)
<1> DEFINE k == KeyOf(c)
           t == CHOOSE d \in Call : Keyed(d) /\ KeyOf(d) = k
<1>1. k \in {KeyOf(d) : d \in {e \in Call : Keyed(e)}}
      OBVIOUS
<1>2. t \in Call /\ Keyed(t) /\ KeyOf(t) = k
      OBVIOUS
<1>3. Asked[t] = Asked[c]
      BY <1>2, StockAssumption DEF Keyed, KeyOf
<1> HIDE DEF k
<1>4. k \in DOMAIN Says
      BY <1>1 DEF Says
<1>5. Says[k] = LET a == Asked[t]
                    brought == IF a.kind = "purchase" THEN Listed(a) ELSE {a.ingredient}
                    qty(i) == IF a.kind = "purchase" THEN ListedOf(a, i) ELSE a.qty
                IN  [counts |-> a.kind = "count", brings |-> [i \in brought |-> qty(i)]]
      BY <1>1 DEF Says
<1>6. /\ Says[k].counts = (Asked[c].kind = "count")
      /\ Says[k].brings = [i \in (IF Asked[c].kind = "purchase" THEN Listed(Asked[c])
                                  ELSE {Asked[c].ingredient}) |-> QtyOf(c, i)]
      BY <1>3, <1>5 DEF QtyOf
<1> QED BY <1>4, <1>6 DEF k

-----------------------------------------------------------------------------
\* Every step is one the promise allows.

Shelf == [i \in Ingredient |-> Sum(LotsOf(i, Counted))]

ShelfTyped == \A i \in Ingredient : Sum(LotsOf(i, Counted)) \in Nat

LEMMA ShelfNat == IInv => ShelfTyped
BY LotsOfStocked, SumOfLots DEF IInv, ShelfTyped

LEMMA ShelfNatNext == IInv' => ShelfTyped'
BY ShelfNat, PTL

\* What a commit does to the stock of each ingredient.
LEMMA CommitShelf ==
  ASSUME KInv, KInv', NEW c \in Call, Commit(c), NEW i \in Ingredient
  PROVE  /\ Shelf[i] \in Nat /\ Shelf'[i] \in Nat
         /\ Asked[c].kind \notin {"receive", "purchase", "count"} => Shelf'[i] <= Shelf[i]
         /\ Asked[c].kind \in {"receive", "purchase"} =>
              Shelf'[i] = Shelf[i] + (IF i \in Held(c) THEN QtyOf(c, i) ELSE 0)
         /\ Asked[c].kind = "count" =>
              Shelf'[i] = IF i = Asked[c].ingredient THEN Asked[c].qty ELSE Shelf[i]
<1> DEFINE S == LotsOf(i, Counted)
           f == LeftAfter(change[c])
<1>1. /\ IInv /\ IInv' /\ Typed /\ ClosedIffEmpty /\ CallOK(c) /\ Meant(c)
      /\ change[c] \in [LotId -> Write] /\ pc[c] = "ending"
      BY DEF KInv, IInv, Typed, Commit
<1>2. /\ Adds(f, S) /\ Adds(LeftOf, S)
      /\ \A n \in S : /\ n \in LotId /\ lots[n].balance \in Nat /\ change[c][n].move \in Int
                      /\ f[n] = lots[n].balance + change[c][n].move
                      /\ LeftOf[n] = lots[n].balance
      /\ Sum(S) = SumFunctionOnSet(LeftOf, S) /\ Sum(S) \in Nat
      BY <1>1, AfterAdds
<1>3. Shelf[i] = Sum(S) /\ Shelf'[i] = After(c, i) + Gained(c, i)
      BY <1>1, ShelfAfter DEF Shelf
<1>4. After(c, i) = SumFunctionOnSet(f, S)
      BY DEF After, LeftAfter
<1>5. After(c, i) \in Int
  <2> HIDE DEF f, S
  <2> QED BY <1>2, <1>4, SumType
<1>6. Shelf'[i] \in Nat
  <2>1. Shelf'[i] = Sum(S)'
        BY DEF Shelf
  <2>2. Sum(S)' \in Nat
        BY <1>1, ShelfNatNext DEF ShelfTyped
  <2> QED BY <2>1, <2>2
<1>7. ASSUME \A n \in S : change[c][n] = NoChange
      PROVE  After(c, i) = Sum(S)
  <2>1. \A n \in S : LeftOf[n] = f[n]
        BY <1>2, <1>7, NoChangesTyped
  <2> HIDE DEF f, S
  <2> QED BY <1>2, <1>4, <2>1, SumSame
<1>8. CASE Asked[c].kind \notin {"receive", "purchase", "count"}
  <2>1. Gained(c, i) = 0
        BY <1>1, <1>8, NoChangesTyped DEF Meant, Gained
  <2>2. \A n \in S : f[n] <= LeftOf[n]
        BY <1>1, <1>2, <1>8 DEF Meant
  <2>3. After(c, i) <= Sum(S)
    <3> HIDE DEF f, S
    <3> QED BY <1>2, <1>4, <2>2, SumLess
  <2> QED BY <1>2, <1>3, <1>5, <1>6, <1>8, <2>1, <2>3
<1>9. CASE Asked[c].kind \in {"receive", "purchase"}
  <2>1. After(c, i) = Sum(S)
        BY <1>1, <1>2, <1>7, <1>9, NoChangesTyped DEF Meant
  <2>2. Gained(c, i) = IF i \in Held(c) THEN QtyOf(c, i) ELSE 0
        BY <1>1, <1>9 DEF Meant, Gained, CallOK, Inserted
  <2> QED BY <1>2, <1>3, <1>6, <1>9, <2>1, <2>2
<1>10. CASE Asked[c].kind = "count"
  <2>1. Held(c) = {Asked[c].ingredient}
        BY <1>1, <1>10 DEF CallOK, HoldsItsLocks, Locks
  <2>2. CASE i = Asked[c].ingredient
        BY <1>1, <1>2, <1>3, <1>6, <1>10, <2>2 DEF Meant
  <2>3. CASE i # Asked[c].ingredient
    <3>1. \A n \in S : change[c][n] = NoChange
          BY <1>1, <1>2, <2>1, <2>3 DEF CallOK, Written, LotsOf
    <3>2. Gained(c, i) = 0
          BY <1>1, <2>1, <2>3 DEF CallOK, Inserted, Gained
    <3> QED BY <1>2, <1>3, <1>6, <1>7, <1>10, <2>3, <3>1, <3>2
  <2> QED BY <2>2, <2>3
<1> QED BY <1>2, <1>3, <1>6, <1>8, <1>9, <1>10

LEMMA CommitPromised ==
  ASSUME KInv, KInv', NEW c \in Call, Commit(c)
  PROVE  Promise!Next
<1>1. entered' = IF Keyed(c) THEN entered \cup {KeyOf(c)} ELSE entered
      BY DEF Commit
<1>2. /\ pc[c] = "ending" /\ Held(c) = Locks(c)
      /\ Keyed(c) => KeyOf(c) \notin entered
      BY DEF Commit, KInv, IInv, CallOK, HoldsItsLocks, Exclusive, Begun
<1>3. CASE ~Keyed(c)
  <2>1. /\ Shelf' \in [Ingredient -> Nat]
        /\ \A i \in Ingredient : Shelf'[i] <= Shelf[i]
    <3>1. \A i \in Ingredient : Shelf'[i] \in Nat /\ Shelf'[i] <= Shelf[i]
          BY <1>3, CommitShelf DEF Keyed
    <3> QED BY <3>1 DEF Shelf
  <2> QED BY <1>1, <1>3, <2>1 DEF Promise!Next, Promise!Take, Shelf
<1>4. CASE Keyed(c)
  <2> DEFINE e == KeyOf(c)
  <2>1. /\ e \in DOMAIN Says
        /\ Says[e].counts <=> Asked[c].kind = "count"
        /\ DOMAIN Says[e].brings =
             IF Asked[c].kind = "purchase" THEN Listed(Asked[c]) ELSE {Asked[c].ingredient}
        /\ \A i \in DOMAIN Says[e].brings : Says[e].brings[i] = QtyOf(c, i)
        BY <1>4, SaysIs
  <2>2. Shelf' = [i \in Ingredient |-> Shelf'[i]]
        BY DEF Shelf
  <2> HIDE DEF e
  <2>3. CASE Asked[c].kind = "count"
    <3>1. \A i \in Ingredient :
            Shelf'[i] = IF i \in DOMAIN Says[e].brings THEN Promise!Brought(e, i) ELSE Shelf[i]
      <4> TAKE i \in Ingredient
      <4>1. Shelf'[i] = IF i = Asked[c].ingredient THEN Asked[c].qty ELSE Shelf[i]
            BY <2>3, CommitShelf
      <4> QED BY <2>1, <2>3, <4>1 DEF Promise!Brought, QtyOf
    <3>2. Promise!Recount(e)
          BY <2>1, <2>2, <2>3, <3>1 DEF Promise!Recount, Shelf
    <3> QED BY <1>1, <1>2, <1>4, <2>1, <3>2 DEF Promise!Next, Promise!Enter, e
  <2>4. CASE Asked[c].kind \in {"receive", "purchase"}
    <3>1. \A i \in Ingredient : Shelf'[i] = Shelf[i] + Promise!Brought(e, i)
      <4> TAKE i \in Ingredient
      <4>1. Shelf'[i] = Shelf[i] + (IF i \in Held(c) THEN QtyOf(c, i) ELSE 0)
            BY <2>4, CommitShelf
      <4>2. i \in Held(c) <=> i \in DOMAIN Says[e].brings
        <5>1. CASE Asked[c].kind = "receive"
              BY <1>2, <2>1, <5>1 DEF Locks
        <5>2. CASE Asked[c].kind = "purchase"
              BY <1>2, <2>1, <5>2, ListIs
        <5> QED BY <2>4, <5>1, <5>2
      <4> QED BY <2>1, <4>1, <4>2 DEF Promise!Brought
    <3>2. Promise!Deliver(e)
          BY <2>1, <2>2, <2>4, <3>1 DEF Promise!Deliver, Shelf
    <3> QED BY <1>1, <1>2, <1>4, <2>1, <3>2 DEF Promise!Next, Promise!Enter, e
  <2> QED BY <1>4, <2>3, <2>4 DEF Keyed
<1> QED BY <1>3, <1>4

\* The worker's marking changes no ingredient's stock.
LEMMA ExpireShelf ==
  ASSUME Typed, ClosedIffEmpty, ExpireLots, NEW i \in Ingredient
  PROVE  Sum(LotsOf(i, Counted))' = Sum(LotsOf(i, Counted))
<1> DEFINE S == LotsOf(i, Counted)
           h == [n \in LotId |-> Left(n)']
<1>1. \A n \in LotId :
        /\ lots'[n].balance = lots[n].balance
        /\ lots'[n].status \in Counted /\ lots'[n].ingredient = i <=>
             lots[n].status \in Counted /\ lots[n].ingredient = i
      BY ExpireDoes DEF Counted
<1>2. S' = S
      BY <1>1 DEF LotsOf, Counted
<1>3. Adds(LeftOf, S) /\ S \subseteq LotId /\ Sum(S) = SumFunctionOnSet(LeftOf, S)
  <2>1. S \subseteq Stocked
        BY LotsOfStocked
  <2> HIDE DEF S
  <2> QED BY <2>1, SumOfLots
<1>4. \A n \in S : LeftOf[n] = h[n]
      BY <1>1, <1>3 DEF LeftOf, Left
<1>5. Sum(S)' = SumFunctionOnSet(h, S')
      BY DEF Sum
<1>6. SumFunctionOnSet(h, S) = SumFunctionOnSet(LeftOf, S)
  <2> HIDE DEF S, h
  <2> QED BY <1>3, <1>4, SumSame
<1> QED BY <1>2, <1>3, <1>5, <1>6

\* The stock is what was entered, once each, less what was taken (Receive,
\* Count, Consume, Check).
THEOREM PromiseKept == Spec => KeepsPromise
<1>1. Init => Promise!Init
  <2> SUFFICES ASSUME Init PROVE Promise!Init
      OBVIOUS
  <2>1. ASSUME NEW i \in Ingredient
        PROVE  Sum(LotsOf(i, Counted)) = 0
    <3>1. LotsOf(i, Counted) = {}
          BY DEF Init, LotsOf, NoLot, Counted
    <3> QED BY <3>1, SumEmpty DEF Sum
  <2> QED BY <2>1 DEF Init, Promise!Init
<1>2. KInv /\ KInv' /\ [Next]_vars => [Promise!Next]_(Promise!vars)
  <2> SUFFICES ASSUME KInv, KInv', [Next]_vars
               PROVE  Promise!Next \/ (Shelf' = Shelf /\ entered' = entered)
      BY DEF Promise!vars, Shelf
  <2>1. ASSUME NEW c \in Call, Commit(c)
        PROVE  Promise!Next
        BY <2>1, CommitPromised
  <2>2. ASSUME lots' = lots
        PROVE  Shelf' = Shelf
        BY <2>2 DEF Shelf, Sum, LotsOf, Left
  <2>3. CASE ExpireLots
    <3>1. \A i \in Ingredient : Sum(LotsOf(i, Counted))' = Sum(LotsOf(i, Counted))
          BY <2>3, ExpireShelf DEF KInv, IInv
    <3>2. entered' = entered
          BY <2>3 DEF ExpireLots
    <3> QED BY <3>1, <3>2 DEF Shelf
  <2>4. CASE ~ExpireLots /\ ~(\E c \in Call : Commit(c))
    <3>1. lots' = lots /\ entered' = entered
          BY <2>4 DEF Next, Work, Tick, Send, Claim, TakeLock, Kill, Stop, vars
    <3> QED BY <2>2, <3>1
  <2> QED BY <2>1, <2>3, <2>4
<1> QED BY <1>1, <1>2, KeyedInvariance, PTL DEF Spec, KeepsPromise, Promise!Spec

=============================================================================
