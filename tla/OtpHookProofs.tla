--------------------------- MODULE OtpHookProofs ---------------------------
(***************************************************************************)
(* Proofs about OtpHook for any deliveries, phones and handlers, any rule  *)
(* of the limiter and any number of tries: the claim of a delivery lets    *)
(* one handler at a time send, and a bucket's tokens pay for its codes.    *)
(***************************************************************************)
EXTENDS OtpHook, TLAPS

-----------------------------------------------------------------------------
\* Types.

\* The smaller of two numbers.
LEMMA MinOfTwo ==
  ASSUME NEW a \in Int, NEW b \in Int
  PROVE  Min({a, b}) = IF a <= b THEN a ELSE b
<1> DEFINE m == IF a <= b THEN a ELSE b
<1>1. m \in {a, b} /\ \A y \in {a, b} : m <= y
      OBVIOUS
<1>2. \A x \in {a, b} : (\A y \in {a, b} : x <= y) => x = m
      OBVIOUS
<1> HIDE DEF m
<1>3. Min({a, b}) = m
      BY <1>1, <1>2 DEF Min
<1> QED BY <1>3 DEF m

\* No bucket was used later than now.
BucketsLag == \A p \in Phone : bucket[p].last <= clock

\* A bucket holds no more than a burst and no less than nothing, and dropping
\* idle ones changes nothing.
LEMMA TokensType ==
  ASSUME TypeOK, BucketsLag, NEW p \in Phone, NEW sweeps \in BOOLEAN
  PROVE  /\ Full \in Nat /\ Every \in Nat /\ Every > 0
         /\ Tokens(bucket[p]) \in 0 .. Full
         /\ Tokens(Swept(p, sweeps)) = Tokens(bucket[p])
         /\ Swept(p, sweeps) \in [tokens : 0 .. Full, last : Nat \cup {-1}]
         /\ Swept(p, sweeps).last <= clock
<1> DEFINE b == bucket[p]
<1>1. Full \in Nat /\ Every \in Nat /\ Every > 0
      BY HookAssumption DEF Full
<1>2. b \in [tokens : 0 .. Full, last : Nat \cup {-1}] /\ b.last <= clock /\ clock \in Nat
      BY DEF TypeOK, BucketsLag
<1> HIDE DEF b
<1>3. Full \in Int /\ b.tokens + clock - b.last \in Int
      BY <1>1, <1>2
<1>4. Tokens(b) = IF b = NoBucket THEN Full
                  ELSE IF Full <= b.tokens + clock - b.last THEN Full ELSE b.tokens + clock - b.last
      BY <1>3, MinOfTwo DEF Tokens
<1>5. Tokens(b) \in 0 .. Full
      BY <1>1, <1>2, <1>4
<1>6. CASE Swept(p, sweeps) = b
      BY <1>1, <1>2, <1>5, <1>6 DEF b
<1>7. CASE Swept(p, sweeps) # b
  <2>1. clock - b.last > Full /\ Swept(p, sweeps) = NoBucket
        BY <1>7 DEF Swept, IdleFor, b
  <2>2. Tokens(b) = Full
        BY <1>1, <1>2, <1>4, <2>1
  <2>3. Tokens(NoBucket) = Full
        BY DEF Tokens
  <2>4. NoBucket \in [tokens : 0 .. Full, last : Nat \cup {-1}] /\ NoBucket.last <= clock
        BY <1>1, <1>2 DEF NoBucket
  <2> QED BY <1>1, <1>5, <2>1, <2>2, <2>3, <2>4 DEF b
<1> QED BY <1>6, <1>7

\* What a handler serves.
LEMMA ServingType ==
  ASSUME TypeOK, NEW h \in Handler, serving[h] # Idle
  PROVE  /\ serving[h].at \in {"limit", "claim", "send", "done", "release"}
         /\ serving[h].code \in Delivery /\ serving[h].caller \in BOOLEAN
         /\ serving[h].at = "release" => serving[h].status \in Refused
         /\ serving[h].at # "release" =>
              serving[h] \in [at : {"limit", "claim", "send", "done"}, code : Delivery, caller : BOOLEAN]
         /\ serving[h].at = "release" =>
              serving[h] \in [at : {"release"}, code : Delivery, caller : BOOLEAN, status : Refused]
<1>1. serving[h] \in Serving
      BY DEF TypeOK
<1> QED BY <1>1 DEF Serving

\* A handler that waits for its answer to be heard serves what Supabase waits for.
CallersPending ==
  \A h \in Handler : serving[h] # Idle /\ serving[h].caller => call[serving[h].code] = "pending"

TInv == TypeOK /\ CallersPending /\ BucketsLag

CallState == {"new", "pending", "again", "ok", "failed"}

\* What an answer does.
LEMMA ReplyStep ==
  ASSUME TypeOK, CallersPending, NEW h \in Handler, serving[h] # Idle,
         NEW status \in {200, 400, 429, 500, 503}, Reply(h, status)
  PROVE  /\ serving' \in [Handler -> Serving \cup {Idle}] /\ call' \in [Delivery -> CallState]
         /\ serving'[h] = Idle /\ \A g \in Handler : g # h => serving'[g] = serving[g]
         /\ \A c \in Delivery :
              call'[c] = IF c = serving[h].code /\ serving[h].caller THEN Heard(status) ELSE call[c]
         /\ OneCaller' /\ CallersPending'
<1>1. serving[h].code \in Delivery /\ serving[h].caller \in BOOLEAN
      BY ServingType
<1>2. /\ serving' \in [Handler -> Serving \cup {Idle}]
      /\ serving'[h] = Idle /\ \A g \in Handler : g # h => serving'[g] = serving[g]
      BY DEF Reply, TypeOK
<1>3. \A c \in Delivery :
        call'[c] = IF c = serving[h].code /\ serving[h].caller THEN Heard(status) ELSE call[c]
      BY <1>1 DEF Reply, TypeOK
<1>4. Heard(status) \in CallState
      BY DEF Heard, CallState
<1>5. call' \in [Delivery -> CallState]
      BY <1>1, <1>4 DEF Reply, TypeOK, CallState
<1>6. OneCaller'
  <2> SUFFICES ASSUME NEW f \in Handler, NEW g \in Handler, f # g, serving'[f] # Idle, serving'[g] # Idle,
                      serving'[f].code = serving'[g].code
               PROVE  ~(serving'[f].caller /\ serving'[g].caller)
      BY DEF OneCaller
  <2>1. serving'[f] = serving[f] /\ serving'[g] = serving[g]
        BY <1>2
  <2> QED BY <2>1 DEF TypeOK, OneCaller
<1>7. CallersPending'
  <2> SUFFICES ASSUME NEW g \in Handler, serving'[g] # Idle, serving'[g].caller
               PROVE  call'[serving'[g].code] = "pending"
      BY DEF CallersPending
  <2>1. g # h /\ serving'[g] = serving[g] /\ call[serving[g].code] = "pending"
        BY <1>2 DEF CallersPending
  <2>2. ~(serving[g].code = serving[h].code /\ serving[h].caller)
        BY <2>1 DEF TypeOK, OneCaller
  <2>3. serving[g].code \in Delivery
        BY <2>1, ServingType
  <2> QED BY <1>3, <2>1, <2>2, <2>3
<1> QED BY <1>2, <1>3, <1>5, <1>6, <1>7

\* A handler goes on to its next step.
LEMMA MoveStep ==
  ASSUME TypeOK, CallersPending, NEW h \in Handler, serving[h] # Idle, serving[h].at # "release",
         NEW at \in {"limit", "claim", "send", "done"}, serving' = [serving EXCEPT ![h].at = at],
         call' = call
  PROVE  /\ serving' \in [Handler -> Serving \cup {Idle}]
         /\ serving'[h] # Idle /\ serving'[h].at = at /\ serving'[h].code = serving[h].code
         /\ serving'[h].caller = serving[h].caller
         /\ \A g \in Handler : g # h => serving'[g] = serving[g]
         /\ OneCaller' /\ CallersPending'
<1>1. serving[h] \in [at : {"limit", "claim", "send", "done"}, code : Delivery, caller : BOOLEAN]
      BY ServingType
<1>2. serving'[h] = [serving[h] EXCEPT !.at = at] /\ \A g \in Handler : g # h => serving'[g] = serving[g]
      BY DEF TypeOK
<1>3. /\ serving'[h] \in [at : {"limit", "claim", "send", "done"}, code : Delivery, caller : BOOLEAN]
      /\ serving'[h].at = at /\ serving'[h].code = serving[h].code
      /\ serving'[h].caller = serving[h].caller
      BY <1>1, <1>2
<1>4. serving'[h] # Idle
      BY <1>3 DEF Idle
<1>5. serving' \in [Handler -> Serving \cup {Idle}]
  <2>1. serving'[h] \in Serving
        BY <1>3 DEF Serving
  <2> QED BY <1>2, <2>1 DEF TypeOK
<1>6. OneCaller' /\ CallersPending'
      BY <1>2, <1>3 DEF TypeOK, OneCaller, CallersPending
<1> QED BY <1>2, <1>3, <1>4, <1>5, <1>6

\* Every code let through is paid for with a token.
LEMMA AllowStep ==
  ASSUME TInv, NEW h \in Handler, NEW sweeps \in BOOLEAN, Allow(h, sweeps)
  PROVE  TInv'
<1> USE DEF TInv
<1> DEFINE c == serving[h].code
           has == Tokens(Swept(PhoneOf[c], sweeps))
           next == [tokens |-> IF Allowed(has) THEN has - Every ELSE has, last |-> clock]
<1>0. /\ serving[h] # Idle /\ serving[h].at = "limit" /\ c \in Delivery /\ PhoneOf[c] \in Phone
      /\ clock \in Nat /\ UNCHANGED <<clock, tries, claims, sent, unsure, cut>>
  <2>1. serving[h] # Idle /\ serving[h].at = "limit"
        BY DEF Allow, Idle
  <2>2. c \in Delivery
        BY <2>1, ServingType
  <2> QED BY <2>1, <2>2, HookAssumption DEF Allow, TypeOK
<1>1. has \in 0 .. Full /\ Full \in Nat /\ Every \in Nat /\ Every > 0
      BY <1>0, TokensType
<1>2. bucket' = [p \in Phone |-> IF p # PhoneOf[c] THEN Swept(p, sweeps) ELSE next]
      BY DEF Allow
<1>3. next \in [tokens : 0 .. Full, last : Nat \cup {-1}] /\ next.last <= clock
  <2> HIDE DEF has
  <2>1. (IF Allowed(has) THEN has - Every ELSE has) \in 0 .. Full
        BY <1>1 DEF Allowed
  <2> QED BY <1>0, <2>1
<1>4. bucket' \in [Phone -> [tokens : 0 .. Full, last : Nat \cup {-1}]] /\ BucketsLag'
  <2> HIDE DEF next, c
  <2>1. \A p \in Phone : /\ bucket'[p] \in [tokens : 0 .. Full, last : Nat \cup {-1}]
                         /\ bucket'[p].last <= clock
        BY <1>2, <1>3, TokensType
  <2> QED BY <1>0, <1>2, <2>1 DEF BucketsLag
<1>5. CASE Allowed(has)
  <2>1. serving' = [serving EXCEPT ![h].at = "claim"] /\ call' = call
        /\ spent' = [spent EXCEPT ![PhoneOf[c]] = Append(@, clock)]
        BY <1>5 DEF Allow
  <2>2. spent' \in [Phone -> Seq(Nat)]
        BY <1>0, <2>1 DEF TypeOK
  <2> QED BY <1>0, <1>4, <2>1, <2>2, MoveStep DEF TypeOK
<1>6. CASE ~Allowed(has)
  <2>1. Reply(h, 429) /\ spent' = spent
        BY <1>6 DEF Allow
  <2> QED BY <1>0, <1>4, <2>1, ReplyStep DEF TypeOK, CallState
<1> QED BY <1>5, <1>6

\* A handler's steps at the claim of a delivery and at sending its code.
LEMMA ServeType ==
  ASSUME TInv, NEW h \in Handler,
         \/ Claim(h) \/ SendCode(h) \/ Done(h) \/ DoneFails(h) \/ Release(h) \/ ReleaseFails(h)
         \/ \E kept \in BOOLEAN : ClaimFails(h, kept)
         \/ \E status \in Refused, taken \in BOOLEAN : SendFails(h, status, taken)
  PROVE  TInv'
<1> USE DEF TInv
<1> DEFINE c == serving[h].code
<1>1. serving[h] # Idle /\ UNCHANGED <<clock, tries, bucket, spent>>
      BY DEF Idle, Claim, SendCode, Done, DoneFails, Release, ReleaseFails, ClaimFails, SendFails
<1>2. c \in Delivery
      BY <1>1, ServingType
<1>3. BucketsLag'
      BY <1>1 DEF BucketsLag
<1>4. claims \in [Delivery -> {"none", "claimed", "done"}]
      BY DEF TypeOK
<1>5. CASE Claim(h)
  <2>1. claims' \in [Delivery -> {"none", "claimed", "done"}]
        BY <1>4, <1>5 DEF Claim
  <2>2. CASE Fresh(c)
    <3>1. serving' = [serving EXCEPT ![h].at = "send"] /\ call' = call /\ serving[h].at = "claim"
          BY <1>5, <2>2 DEF Claim
    <3> QED BY <1>1, <1>3, <1>5, <2>1, <3>1, MoveStep DEF TypeOK, Claim
  <2>3. CASE ~Fresh(c)
    <3>1. Reply(h, 200)
          BY <1>5, <2>3 DEF Claim
    <3> QED BY <1>1, <1>3, <1>5, <2>1, <3>1, ReplyStep DEF TypeOK, CallState, Claim
  <2> QED BY <2>2, <2>3
<1>6. ASSUME NEW kept \in BOOLEAN, ClaimFails(h, kept) PROVE TInv'
  <2>1. Reply(h, 503) /\ UNCHANGED <<sent, unsure>>
        BY <1>6 DEF ClaimFails
  <2>2. claims' \in [Delivery -> {"none", "claimed", "done"}]
        BY <1>2, <1>4, <1>6 DEF ClaimFails
  <2>3. cut' \in [Delivery -> BOOLEAN]
    <3>1. (cut[c] \/ kept) \in BOOLEAN /\ cut' = [cut EXCEPT ![c] = @ \/ kept] /\ cut \in [Delivery -> BOOLEAN]
          BY <1>2, <1>6 DEF ClaimFails, TypeOK
    <3> HIDE DEF c
    <3> QED BY <1>2, <3>1
  <2> QED BY <1>1, <1>3, <2>1, <2>2, <2>3, ReplyStep DEF TypeOK, CallState
<1>7. CASE SendCode(h)
  <2>1. serving' = [serving EXCEPT ![h].at = "done"] /\ call' = call /\ serving[h].at = "send"
        BY <1>7 DEF SendCode
  <2>2. sent' \in [Delivery -> Nat]
        BY <1>2, <1>7 DEF SendCode, TypeOK
  <2> QED BY <1>1, <1>3, <1>7, <2>1, <2>2, MoveStep DEF TypeOK, SendCode
<1>8. CASE Done(h) \/ DoneFails(h) \/ Release(h) \/ ReleaseFails(h)
  <2>1. PICK status \in {200, 400, 429, 500, 503} : Reply(h, status)
    <3>1. CASE Done(h) \/ DoneFails(h)
          BY <3>1 DEF Done, DoneFails
    <3>2. CASE Release(h) \/ ReleaseFails(h)
      <4>1. serving[h].at = "release" /\ Reply(h, serving[h].status)
            BY <3>2 DEF Release, ReleaseFails
      <4>2. serving[h].status \in Refused
            BY <1>1, <4>1, ServingType
      <4> QED BY <4>1, <4>2 DEF Refused
    <3> QED BY <1>8, <3>1, <3>2
  <2>2. claims' \in [Delivery -> {"none", "claimed", "done"}]
        BY <1>2, <1>4, <1>8 DEF Done, DoneFails, Release, ReleaseFails, Released
  <2>3. cut' \in [Delivery -> BOOLEAN] /\ UNCHANGED <<sent, unsure>>
    <3>1. /\ cut' = cut \/ cut' = [cut EXCEPT ![c] = TRUE]
          /\ UNCHANGED <<sent, unsure>>
          BY <1>8 DEF Done, DoneFails, Release, ReleaseFails
    <3>2. cut \in [Delivery -> BOOLEAN]
          BY DEF TypeOK
    <3> HIDE DEF c
    <3>3. ASSUME cut' = cut PROVE cut' \in [Delivery -> BOOLEAN]
          BY <3>2, <3>3
    <3>4. ASSUME cut' = [cut EXCEPT ![c] = TRUE] PROVE cut' \in [Delivery -> BOOLEAN]
          BY <1>2, <3>2, <3>4
    <3>5. cut' \in [Delivery -> BOOLEAN]
          BY <3>1, <3>3, <3>4
    <3> QED BY <3>1, <3>5
  <2> QED BY <1>1, <1>3, <2>1, <2>2, <2>3, ReplyStep DEF TypeOK, CallState
<1>9. ASSUME NEW status \in Refused, NEW taken \in BOOLEAN, SendFails(h, status, taken) PROVE TInv'
  <2> DEFINE new == [at |-> "release", code |-> c, caller |-> serving[h].caller, status |-> status]
  <2>1. serving' = [serving EXCEPT ![h] = new] /\ UNCHANGED <<call, claims, cut>>
        BY <1>9 DEF SendFails
  <2>2. new \in Serving /\ new # Idle
    <3>1. serving[h].caller \in BOOLEAN
          BY <1>1, ServingType
    <3> QED BY <1>2, <3>1 DEF Serving, Idle
  <2>3. serving'[h] = new /\ \A g \in Handler : g # h => serving'[g] = serving[g]
        BY <2>1 DEF TypeOK
  <2>4. OneCaller' /\ CallersPending'
        BY <1>1, <2>1, <2>3 DEF OneCaller, CallersPending, TypeOK
  <2>5. sent' \in [Delivery -> Nat]
    <3>1. sent[c] + (IF taken THEN 1 ELSE 0) \in Nat
          BY <1>2 DEF TypeOK
    <3> QED BY <1>2, <1>9, <3>1 DEF SendFails, TypeOK
  <2>6. unsure' \in [Delivery -> BOOLEAN]
    <3>1. (unsure[c] \/ taken) \in BOOLEAN /\ unsure' = [unsure EXCEPT ![c] = @ \/ taken]
          /\ unsure \in [Delivery -> BOOLEAN]
          BY <1>2, <1>9 DEF SendFails, TypeOK
    <3> HIDE DEF c
    <3> QED BY <1>2, <3>1
  <2>7. serving' \in [Handler -> Serving \cup {Idle}]
        BY <2>1, <2>2 DEF TypeOK
  <2> QED BY <1>1, <1>3, <2>1, <2>4, <2>5, <2>6, <2>7 DEF TypeOK
<1> QED BY <1>5, <1>6, <1>7, <1>8, <1>9

\* The other steps.
LEMMA DeliverType ==
  ASSUME TInv, NEW c \in Delivery, NEW h \in Handler, Deliver(c, h)
  PROVE  TInv'
<1> USE DEF TInv
<1> DEFINE new == [at |-> "limit", code |-> c, caller |-> TRUE]
<1>1. /\ serving[h] = Idle /\ call[c] # "pending"
      /\ serving' = [serving EXCEPT ![h] = new] /\ call' = [call EXCEPT ![c] = "pending"]
      /\ UNCHANGED <<clock, claims, bucket, sent, spent, unsure, cut>>
      BY DEF Deliver
<1>2. new \in Serving
      BY DEF Serving
<1>3. serving'[h] = new /\ \A g \in Handler : g # h => serving'[g] = serving[g]
      BY <1>1 DEF TypeOK
<1>4. call' \in [Delivery -> CallState] /\ serving' \in [Handler -> Serving \cup {Idle}]
      BY <1>1, <1>2 DEF TypeOK, CallState
<1>5. \A g \in Handler : serving[g] # Idle /\ serving[g].caller => serving[g].code # c
      BY <1>1 DEF CallersPending
<1>6. OneCaller'
  <2> SUFFICES ASSUME NEW f \in Handler, NEW g \in Handler, f # g, serving'[f] # Idle, serving'[g] # Idle,
                      serving'[f].code = serving'[g].code, serving'[f].caller, serving'[g].caller
               PROVE  FALSE
      BY DEF OneCaller
  <2>1. CASE f # h /\ g # h
        BY <1>3, <2>1 DEF TypeOK, OneCaller
  <2>2. CASE f = h
        BY <1>3, <1>5, <2>2
  <2>3. CASE g = h
        BY <1>3, <1>5, <2>3
  <2> QED BY <2>1, <2>2, <2>3
<1>7. CallersPending'
  <2> SUFFICES ASSUME NEW g \in Handler, serving'[g] # Idle, serving'[g].caller
               PROVE  call'[serving'[g].code] = "pending"
      BY DEF CallersPending
  <2>1. CASE g = h
        BY <1>1, <1>3, <2>1 DEF TypeOK
  <2>2. CASE g # h
    <3>1. serving'[g] = serving[g] /\ serving[g].code # c /\ call[serving[g].code] = "pending"
          BY <1>3, <1>5, <2>2 DEF CallersPending
    <3>2. serving[g].code \in Delivery
          BY <3>1, ServingType
    <3> QED BY <1>1, <3>1, <3>2 DEF TypeOK
  <2> QED BY <2>1, <2>2
<1>8. tries' \in [Delivery -> Nat] /\ BucketsLag'
      BY <1>1 DEF Deliver, TypeOK, BucketsLag
<1> QED BY <1>1, <1>4, <1>6, <1>7, <1>8 DEF TypeOK, CallState

LEMMA GiveUpType ==
  ASSUME TInv, NEW h \in Handler, GiveUp(h)
  PROVE  /\ TInv'
         /\ serving'[h] # Idle /\ ~serving'[h].caller
         /\ serving'[h].at = serving[h].at /\ serving'[h].code = serving[h].code
         /\ \A g \in Handler : g # h => serving'[g] = serving[g]
<1> USE DEF TInv
<1> DEFINE c == serving[h].code
<1>1. /\ serving[h] # Idle /\ serving[h].caller
      /\ serving' = [serving EXCEPT ![h].caller = FALSE] /\ call' = [call EXCEPT ![c] = "again"]
      /\ cut' = [cut EXCEPT ![c] = TRUE]
      /\ UNCHANGED <<clock, tries, claims, bucket, sent, spent, unsure>>
      BY DEF GiveUp
<1>2. c \in Delivery
      BY <1>1, ServingType
<1>3. /\ serving'[h] = [serving[h] EXCEPT !.caller = FALSE]
      /\ \A g \in Handler : g # h => serving'[g] = serving[g]
      BY <1>1 DEF TypeOK
<1>4. /\ serving'[h] \in Serving /\ serving'[h].at = serving[h].at
      /\ serving'[h].code = serving[h].code /\ serving'[h].caller = FALSE
      /\ serving'[h].at # "idle"
  <2>1. CASE serving[h].at # "release"
    <3>1. serving[h] \in [at : {"limit", "claim", "send", "done"}, code : Delivery, caller : BOOLEAN]
          BY <1>1, <2>1, ServingType
    <3> QED BY <1>3, <3>1 DEF Serving
  <2>2. CASE serving[h].at = "release"
    <3>1. serving[h] \in [at : {"release"}, code : Delivery, caller : BOOLEAN, status : Refused]
          BY <1>1, <2>2, ServingType
    <3> QED BY <1>3, <3>1 DEF Serving
  <2> QED BY <2>1, <2>2
<1>5. serving'[h] # Idle
      BY <1>4 DEF Idle
<1>6. OneCaller'
      BY <1>1, <1>3, <1>4 DEF TypeOK, OneCaller
<1>7. CallersPending'
  <2> SUFFICES ASSUME NEW g \in Handler, serving'[g] # Idle, serving'[g].caller
               PROVE  call'[serving'[g].code] = "pending"
      BY DEF CallersPending
  <2>1. g # h /\ serving'[g] = serving[g] /\ call[serving[g].code] = "pending"
        BY <1>3, <1>4 DEF CallersPending
  <2>2. serving[g].code # c /\ serving[g].code \in Delivery
        BY <1>1, <2>1, ServingType DEF TypeOK, OneCaller
  <2> QED BY <1>1, <2>1, <2>2 DEF TypeOK
<1>8. /\ call' \in [Delivery -> CallState] /\ cut' \in [Delivery -> BOOLEAN]
      /\ serving' \in [Handler -> Serving \cup {Idle}] /\ BucketsLag'
  <2>1. serving' \in [Handler -> Serving \cup {Idle}]
        BY <1>3, <1>4, <1>1 DEF TypeOK
  <2> HIDE DEF c
  <2> QED BY <1>1, <1>2, <2>1 DEF TypeOK, CallState, BucketsLag
<1> QED BY <1>1, <1>3, <1>4, <1>5, <1>6, <1>7, <1>8 DEF TypeOK, CallState

LEMMA RestartType == ASSUME TInv, Restart PROVE TInv'
<1> USE DEF TInv
<1> DEFINE served == {serving[h].code : h \in {g \in Handler : serving[g] # Idle}}
<1>1. /\ serving' = [h \in Handler |-> Idle] /\ bucket' = [p \in Phone |-> NoBucket]
      /\ spent' = [p \in Phone |-> <<>>]
      /\ call' = [c \in Delivery |-> IF call[c] = "pending" THEN "again" ELSE call[c]]
      /\ cut' = [c \in Delivery |-> cut[c] \/ c \in served]
      /\ UNCHANGED <<clock, tries, claims, sent, unsure>>
      BY DEF Restart
<1>2. \A h \in Handler : serving'[h] = Idle
      BY <1>1
<1>3. OneCaller' /\ CallersPending'
      BY <1>2 DEF OneCaller, CallersPending
<1>4. NoBucket \in [tokens : 0 .. Full, last : Nat \cup {-1}] /\ NoBucket.last <= clock /\ clock \in Nat
      BY HookAssumption DEF NoBucket, Full, TypeOK
<1>5. BucketsLag' /\ bucket' \in [Phone -> [tokens : 0 .. Full, last : Nat \cup {-1}]]
      BY <1>1, <1>4 DEF BucketsLag
<1>6. call' \in [Delivery -> CallState]
      BY <1>1 DEF TypeOK, CallState
<1>7. cut' \in [Delivery -> BOOLEAN]
  <2>1. \A c \in Delivery : (cut[c] \/ c \in served) \in BOOLEAN
        OBVIOUS
  <2> HIDE DEF served
  <2> QED BY <1>1, <2>1
<1>8. spent' \in [Phone -> Seq(Nat)] /\ serving' \in [Handler -> Serving \cup {Idle}]
      BY <1>1
<1> QED BY <1>1, <1>3, <1>5, <1>6, <1>7, <1>8 DEF TypeOK, CallState

LEMMA NextType == TInv /\ [Next]_vars => TInv'
<1> SUFFICES ASSUME TInv, [Next]_vars PROVE TInv'
    OBVIOUS
<1>1. CASE Tick
  <2>1. clock \in Nat /\ clock' = clock + 1 /\ \A p \in Phone : bucket[p].last \in Int
        BY <1>1 DEF TInv, TypeOK, Tick
  <2>2. BucketsLag'
        BY <1>1, <2>1 DEF TInv, Tick, BucketsLag
  <2> QED BY <1>1, <2>1, <2>2 DEF TInv, TypeOK, Tick, OneCaller, CallersPending
<1>2. CASE UNCHANGED vars
      BY <1>2 DEF TInv, TypeOK, vars, OneCaller, CallersPending, BucketsLag
<1> QED BY <1>1, <1>2, AllowStep, ServeType, DeliverType, GiveUpType, RestartType DEF Next

LEMMA InitType == Init => TInv
<1> SUFFICES ASSUME Init PROVE TInv
    OBVIOUS
<1>1. NoBucket \in [tokens : 0 .. Full, last : Nat \cup {-1}] /\ NoBucket.last <= 0
      BY HookAssumption DEF NoBucket, Full
<1>2. \A h \in Handler : serving[h] = Idle
      BY DEF Init
<1>3. OneCaller /\ CallersPending
      BY <1>2 DEF OneCaller, CallersPending
<1>4. spent \in [Phone -> Seq(Nat)] /\ BucketsLag
      BY <1>1 DEF Init, BucketsLag
<1> QED BY <1>1, <1>3, <1>4 DEF Init, TInv, TypeOK

\* Type correctness: whatever is delivered again, given up or restarted, the
\* state keeps its shape, and one caller at most waits for each delivery.
THEOREM TypeCorrect == Spec => []TypeOK
<1>1. TInv => TypeOK
      BY DEF TInv
<1> QED BY InitType, NextType, <1>1, PTL DEF Spec

-----------------------------------------------------------------------------
\* Deliveries.

On(h, c) == serving[h] # Idle /\ serving[h].code = c

\* The handler has the claim of the delivery.
Owns(h, c) == On(h, c) /\ serving[h].at \in {"send", "done", "release"}

\* One handler at most has the claim, which is in the table as long.
ClaimHeld(c) ==
  \A h \in Handler : Owns(h, c) => claims[c] = "claimed" /\ \A g \in Handler : Owns(g, c) => g = h

\* The code is sent with the claim only, and known of unless an answer was lost.
SentKnown(c) ==
  /\ \A h \in Handler : Owns(h, c) /\ serving[h].at = "done" => sent[c] >= 1
  /\ ~unsure[c] =>
       /\ sent[c] <= 1 /\ (claims[c] = "none" => sent[c] = 0)
       /\ \A h \in Handler : Owns(h, c) /\ serving[h].at # "done" => sent[c] = 0

\* While nothing is cut short, who serves a delivery is waited for, and the
\* claim is there only while he has it or once the code is sent.
Smooth(c) ==
  ~cut[c] =>
    /\ call[c] \in {"new", "again"} => claims[c] = "none"
    /\ call[c] = "ok" => sent[c] >= 1
    /\ call[c] = "pending" => \E h \in Handler : On(h, c)
    /\ \A h \in Handler :
         On(h, c) => serving[h].caller /\ (serving[h].at \in {"limit", "claim"} => claims[c] = "none")

Good(c) == ClaimHeld(c) /\ SentKnown(c) /\ Smooth(c)

SInv == TInv /\ \A c \in Delivery : Good(c)

\* A step about other deliveries.
LEMMA FrameStep ==
  ASSUME NEW c \in Delivery, Good(c),
         claims'[c] = claims[c], sent'[c] = sent[c], unsure'[c] = unsure[c], cut'[c] = cut[c],
         call'[c] = call[c],
         \A g \in Handler : serving'[g] = serving[g] \/ (~On(g, c) /\ ~On(g, c)')
  PROVE  Good(c)'
<1>1. \A g \in Handler : On(g, c)' => serving'[g] = serving[g] /\ On(g, c)
      BY DEF On
<1>2. \A g \in Handler : Owns(g, c)' => Owns(g, c)
      BY <1>1 DEF Owns
<1>3. ClaimHeld(c)'
      BY <1>2 DEF Good, ClaimHeld
<1>4. SentKnown(c)'
      BY <1>1, <1>2 DEF Good, SentKnown, Owns
<1>5. (\E g \in Handler : On(g, c)) => \E g \in Handler : On(g, c)'
  <2> SUFFICES ASSUME NEW g \in Handler, On(g, c) PROVE On(g, c)'
      OBVIOUS
  <2> QED BY DEF On
<1>6. Smooth(c)'
      BY <1>1, <1>5 DEF Good, Smooth
<1> QED BY <1>3, <1>4, <1>6 DEF Good

\* While nothing is cut short, one handler at most serves a delivery.
LEMMA AloneUncut ==
  ASSUME TInv, NEW c \in Delivery, Good(c), ~cut[c], NEW h \in Handler, On(h, c)
  PROVE  serving[h].caller /\ call[c] = "pending" /\ \A g \in Handler : On(g, c) => g = h
<1>1. \A g \in Handler : On(g, c) => serving[g].caller
      BY DEF Good, Smooth
<1>2. call[c] = "pending"
      BY <1>1 DEF TInv, CallersPending, On
<1>3. \A g \in Handler : On(g, c) => g = h
      BY <1>1 DEF TInv, TypeOK, OneCaller, On
<1> QED BY <1>1, <1>2, <1>3

\* A handler is done with its delivery.
LEMMA AnswerStep ==
  ASSUME SInv, NEW h \in Handler, serving[h] # Idle, NEW status \in {200, 400, 429, 500, 503},
         Reply(h, status), NEW c \in Delivery, c = serving[h].code,
         sent'[c] = sent[c], unsure'[c] = unsure[c], cut'[c] \in BOOLEAN, ~cut'[c] => ~cut[c],
         \/ claims'[c] = claims[c] /\ (Owns(h, c) => claims[c] # "none")
         \/ Owns(h, c) /\ claims'[c] = "done"
         \/ Owns(h, c) /\ serving[h].at = "release" /\ claims'[c] = "none"
         \/ ~Owns(h, c) /\ claims[c] = "none" /\ claims'[c] = "claimed",
         ~cut'[c] /\ status = 200 => sent[c] >= 1,
         ~cut'[c] /\ status \in {429, 503} => claims'[c] = "none"
  PROVE  Good(c)'
<1> USE DEF SInv
<1>1. /\ serving'[h] = Idle /\ \A g \in Handler : g # h => serving'[g] = serving[g]
      /\ call'[c] = IF serving[h].caller THEN Heard(status) ELSE call[c]
      BY ReplyStep DEF TInv
<1>2. Good(c) /\ On(h, c)
      BY DEF On
<1>3. \A g \in Handler : On(g, c)' => g # h /\ serving'[g] = serving[g] /\ On(g, c)
      BY <1>1 DEF On
<1>4. \A g \in Handler : Owns(g, c)' => g # h /\ serving'[g] = serving[g] /\ Owns(g, c)
      BY <1>3 DEF Owns
<1>5. Owns(h, c) => \A g \in Handler : ~Owns(g, c)'
      BY <1>2, <1>4 DEF Good, ClaimHeld
<1>6. ClaimHeld(c)'
  <2>1. CASE Owns(h, c)
        BY <1>5, <2>1 DEF ClaimHeld
  <2>2. CASE ~Owns(h, c)
        BY <1>2, <1>4, <2>2 DEF ClaimHeld, Good
  <2> QED BY <2>1, <2>2
<1>7. SentKnown(c)'
  <2>1. ~unsure[c] /\ claims'[c] = "none" => sent[c] = 0
        BY <1>2 DEF Good, SentKnown, ClaimHeld
  <2> QED BY <1>2, <1>4, <2>1 DEF Good, SentKnown
<1>8. Smooth(c)'
  <2> SUFFICES ASSUME ~cut'[c]
               PROVE  /\ call'[c] \in {"new", "again"} => claims'[c] = "none"
                      /\ call'[c] = "ok" => sent[c] >= 1
                      /\ call'[c] # "pending"
                      /\ \A g \in Handler : ~On(g, c)'
      BY DEF Smooth
  <2>1. ~cut[c] /\ serving[h].caller /\ \A g \in Handler : On(g, c) => g = h
        BY <1>2, AloneUncut
  <2>2. call'[c] = Heard(status)
        BY <1>1, <2>1
  <2> QED BY <1>3, <2>1, <2>2 DEF Heard
<1> QED BY <1>6, <1>7, <1>8 DEF Good

\* A handler's answer leaves other deliveries alone.
LEMMA AnswerFrame ==
  ASSUME SInv, NEW h \in Handler, serving[h] # Idle, NEW status \in {200, 400, 429, 500, 503},
         Reply(h, status), NEW c \in Delivery, c # serving[h].code,
         claims'[c] = claims[c], sent'[c] = sent[c], unsure'[c] = unsure[c], cut'[c] = cut[c]
  PROVE  Good(c)'
<1>1. /\ serving'[h] = Idle /\ \A g \in Handler : g # h => serving'[g] = serving[g]
      /\ call'[c] = call[c]
      BY ReplyStep DEF SInv, TInv
<1>2. \A g \in Handler : serving'[g] = serving[g] \/ (~On(g, c) /\ ~On(g, c)')
      BY <1>1 DEF On
<1> QED BY <1>1, <1>2, FrameStep DEF SInv

\* So does its going on to a next step.
LEMMA MoveFrame ==
  ASSUME SInv, NEW h \in Handler, serving[h] # Idle, serving[h].at # "release",
         NEW at \in {"limit", "claim", "send", "done"}, serving' = [serving EXCEPT ![h].at = at],
         call' = call, NEW c \in Delivery, c # serving[h].code,
         claims'[c] = claims[c], sent'[c] = sent[c], unsure'[c] = unsure[c], cut'[c] = cut[c]
  PROVE  Good(c)'
<1>1. /\ serving'[h].code = serving[h].code
      /\ \A g \in Handler : g # h => serving'[g] = serving[g]
      BY MoveStep DEF SInv, TInv
<1>2. \A g \in Handler : serving'[g] = serving[g] \/ (~On(g, c) /\ ~On(g, c)')
      BY <1>1 DEF On
<1> QED BY <1>2, FrameStep DEF SInv

\* The limiter says nothing about deliveries.
LEMMA AllowGood ==
  ASSUME SInv, NEW h \in Handler, NEW sweeps \in BOOLEAN, Allow(h, sweeps), NEW c \in Delivery
  PROVE  Good(c)'
<1> USE DEF SInv
<1>1. /\ serving[h] # Idle /\ serving[h].at = "limit"
      /\ UNCHANGED <<clock, tries, claims, sent, unsure, cut>>
      /\ \/ serving' = [serving EXCEPT ![h].at = "claim"] /\ call' = call
         \/ Reply(h, 429)
      BY DEF Allow, Idle
<1>2. CASE c # serving[h].code
      BY <1>1, <1>2, MoveFrame, AnswerFrame
<1>3. CASE c = serving[h].code
  <2>1. On(h, c) /\ ~Owns(h, c) /\ Good(c) /\ cut[c] \in BOOLEAN
        BY <1>1, <1>3 DEF On, Owns, TInv, TypeOK
  <2>2. CASE Reply(h, 429)
    <3>1. ~cut[c] => claims[c] = "none"
          BY <1>1, <2>1 DEF Good, Smooth
    <3> QED BY <1>1, <1>3, <2>1, <2>2, <3>1, AnswerStep
  <2>3. CASE serving' = [serving EXCEPT ![h].at = "claim"] /\ call' = call
    <3>1. /\ serving'[h].at = "claim" /\ serving'[h].caller = serving[h].caller
          /\ \A g \in Handler : g # h => serving'[g] = serving[g]
          BY <1>1, <2>3, MoveStep DEF TInv
    <3>2. \A g \in Handler : Owns(g, c)' => g # h /\ serving'[g] = serving[g] /\ Owns(g, c)
          BY <3>1 DEF Owns, On
    <3>3. ClaimHeld(c)' /\ SentKnown(c)'
          BY <1>1, <2>1, <3>2 DEF Good, ClaimHeld, SentKnown
    <3>4. On(h, c)'
          BY <1>1, <2>3, <1>3 DEF On, Idle, TInv, TypeOK
    <3>5. Smooth(c)'
          BY <1>1, <2>1, <2>3, <3>1, <3>4 DEF Good, Smooth, On
    <3> QED BY <3>3, <3>5 DEF Good
  <2> QED BY <1>1, <2>2, <2>3
<1> QED BY <1>2, <1>3

\* Whoever finds no claim has it, and nobody sent the code before him.
LEMMA ClaimGood ==
  ASSUME SInv, NEW h \in Handler, Claim(h), NEW c \in Delivery
  PROVE  Good(c)'
<1> USE DEF SInv
<1> DEFINE d == serving[h].code
<1>1. /\ serving[h] # Idle /\ serving[h].at = "claim" /\ serving[h].caller
      /\ UNCHANGED <<clock, tries, sent, unsure, cut>>
      BY DEF Claim, Idle
<1>2. d \in Delivery
      BY <1>1, ServingType DEF TInv
<1>3. claims' = claims \/ claims' = [claims EXCEPT ![d] = "claimed"]
      BY DEF Claim
<1>4. CASE c # d
  <2>1. claims'[c] = claims[c]
        BY <1>2, <1>3, <1>4 DEF TInv, TypeOK
  <2>2. \/ serving' = [serving EXCEPT ![h].at = "send"] /\ call' = call
        \/ Reply(h, 200)
        BY DEF Claim
  <2> QED BY <1>1, <1>4, <2>1, <2>2, MoveFrame, AnswerFrame
<1>5. CASE c = d /\ ~Fresh(c)
  <2>1. Reply(h, 200) /\ claims' = claims /\ claims[c] # "none"
        BY <1>5 DEF Claim, Fresh
  <2>2. On(h, c) /\ ~Owns(h, c) /\ cut[c] /\ cut[c] \in BOOLEAN
        BY <1>1, <1>5, <2>1 DEF On, Owns, Good, Smooth, TInv, TypeOK
  <2>3. cut'[c] = cut[c] /\ cut'[c] \in BOOLEAN /\ (~cut'[c] => sent[c] >= 1)
        BY <1>1, <2>2
  <2>4. /\ claims'[c] = claims[c] /\ ~Owns(h, c)
        /\ sent'[c] = sent[c] /\ unsure'[c] = unsure[c]
        BY <1>1, <2>1, <2>2
  <2> QED BY <1>1, <1>5, <2>1, <2>3, <2>4, AnswerStep
<1>6. CASE c = d /\ Fresh(c)
  <2>1. /\ serving' = [serving EXCEPT ![h].at = "send"] /\ call' = call
        /\ claims'[c] = "claimed" /\ claims[c] = "none"
        BY <1>6 DEF Claim, Fresh, TInv, TypeOK
  <2>2. /\ serving'[h].at = "send" /\ serving'[h].caller = serving[h].caller
        /\ \A g \in Handler : g # h => serving'[g] = serving[g]
        BY <1>1, <2>1, MoveStep DEF TInv
  <2>3. \A g \in Handler : ~Owns(g, c)
        BY <2>1 DEF Good, ClaimHeld
  <2>4. \A g \in Handler : Owns(g, c)' => g = h
        BY <2>2, <2>3 DEF Owns, On
  <2>5. ClaimHeld(c)'
        BY <2>1, <2>4 DEF ClaimHeld
  <2>6. SentKnown(c)'
    <3>1. ~unsure[c] => sent[c] = 0
          BY <2>1 DEF Good, SentKnown
    <3>2. sent[c] \in Nat
          BY DEF TInv, TypeOK
    <3> QED BY <1>1, <2>2, <2>4, <3>1, <3>2 DEF SentKnown
  <2>7. On(h, c)'
        BY <1>1, <1>6, <2>1, <2>2, MoveStep DEF On, Idle, TInv
  <2>8. Smooth(c)'
    <3> SUFFICES ASSUME ~cut[c]
                 PROVE  /\ call[c] \notin {"new", "again"}
                        /\ call[c] = "ok" => sent[c] >= 1
                        /\ \A g \in Handler : On(g, c)' => g = h
        BY <1>1, <2>1, <2>2, <2>7 DEF Smooth
    <3>1. On(h, c)
          BY <1>1, <1>6 DEF On
    <3>2. call[c] = "pending" /\ \A g \in Handler : On(g, c) => g = h
          BY <3>1, AloneUncut
    <3> QED BY <2>2, <3>2 DEF On
  <2> QED BY <2>5, <2>6, <2>8 DEF Good
<1> QED BY <1>4, <1>5, <1>6

\* A claim that fails leaves none behind, or the delivery is cut short.
LEMMA ClaimFailsGood ==
  ASSUME SInv, NEW h \in Handler, NEW kept \in BOOLEAN, ClaimFails(h, kept), NEW c \in Delivery
  PROVE  Good(c)'
<1> USE DEF SInv
<1> DEFINE d == serving[h].code
<1>1. /\ serving[h] # Idle /\ serving[h].at = "claim" /\ Reply(h, 503)
      /\ UNCHANGED <<clock, tries, sent, unsure>>
      BY DEF ClaimFails, Idle
<1>2. d \in Delivery
      BY <1>1, ServingType DEF TInv
<1>3. /\ claims' = [claims EXCEPT ![d] = IF kept THEN "claimed" ELSE @]
      /\ cut' = [cut EXCEPT ![d] = @ \/ kept] /\ (kept => claims[d] = "none")
      BY DEF ClaimFails, Fresh
<1>4. CASE c # d
  <2>1. claims'[c] = claims[c] /\ cut'[c] = cut[c]
        BY <1>2, <1>3, <1>4 DEF TInv, TypeOK
  <2> QED BY <1>1, <1>4, <2>1, AnswerFrame
<1>5. CASE c = d
  <2>1. On(h, c) /\ ~Owns(h, c)
        BY <1>1, <1>5 DEF On, Owns
  <2>2. CASE kept
    <3>1. claims[c] = "none" /\ claims'[c] = "claimed"
          BY <1>3, <1>5, <2>2 DEF TInv, TypeOK
    <3>2. /\ cut'[c] \in BOOLEAN /\ (~cut'[c] => ~cut[c]) /\ (~cut'[c] => claims'[c] = "none")
      <4>1. cut'[c] = (cut[c] \/ kept) /\ cut[c] \in BOOLEAN
            BY <1>3, <1>5 DEF TInv, TypeOK
      <4> QED BY <2>2, <4>1
    <3> QED BY <1>1, <1>5, <2>1, <3>1, <3>2, AnswerStep
  <2>3. CASE ~kept
    <3>1. claims'[c] = claims[c]
          BY <1>3, <1>5, <2>3 DEF TInv, TypeOK
    <3>2. cut'[c] = cut[c] /\ cut[c] \in BOOLEAN
      <4>1. cut'[c] = (cut[c] \/ kept) /\ cut[c] \in BOOLEAN
            BY <1>3, <1>5 DEF TInv, TypeOK
      <4> QED BY <2>3, <4>1
    <3>3. ~cut[c] => claims[c] = "none"
          BY <1>1, <2>1 DEF Good, Smooth
    <3> QED BY <1>1, <1>5, <2>1, <3>1, <3>2, <3>3, AnswerStep
  <2> QED BY <2>2, <2>3
<1> QED BY <1>4, <1>5

\* The owner of the claim sends the code.
LEMMA SendCodeGood ==
  ASSUME SInv, NEW h \in Handler, SendCode(h), NEW c \in Delivery
  PROVE  Good(c)'
<1> USE DEF SInv
<1> DEFINE d == serving[h].code
<1>1. /\ serving[h] # Idle /\ serving[h].at = "send"
      /\ sent' = [sent EXCEPT ![d] = @ + 1] /\ serving' = [serving EXCEPT ![h].at = "done"]
      /\ UNCHANGED <<clock, call, tries, claims, bucket, spent, unsure, cut>>
      BY DEF SendCode, Idle
<1>2. d \in Delivery /\ \A e \in Delivery : sent[e] \in Nat
      BY <1>1, ServingType DEF TInv, TypeOK
<1>3. CASE c # d
  <2>1. sent'[c] = sent[c]
        BY <1>1, <1>2, <1>3 DEF TInv, TypeOK
  <2> QED BY <1>1, <1>3, <2>1, MoveFrame
<1>4. CASE c = d
  <2>1. /\ serving'[h].at = "done" /\ serving'[h].caller = serving[h].caller
        /\ \A g \in Handler : g # h => serving'[g] = serving[g]
        BY <1>1, MoveStep DEF TInv
  <2>2. sent'[c] = sent[c] + 1 /\ sent[c] \in Nat
        BY <1>1, <1>2, <1>4 DEF TInv, TypeOK
  <2>3. Owns(h, c) /\ On(h, c) /\ Good(c)
        BY <1>1, <1>4 DEF Owns, On
  <2>4. \A g \in Handler : Owns(g, c)' => g = h
        BY <2>1, <2>3 DEF Owns, On, Good, ClaimHeld
  <2>5. claims'[c] = "claimed" /\ claims[c] = "claimed"
        BY <1>1, <2>3 DEF Good, ClaimHeld
  <2>6. ClaimHeld(c)'
        BY <2>4, <2>5 DEF ClaimHeld
  <2>7. SentKnown(c)'
    <3>1. ~unsure[c] => sent[c] = 0
          BY <1>1, <2>3 DEF Good, SentKnown
    <3>2. sent'[c] >= 1 /\ (~unsure'[c] => sent'[c] <= 1)
          BY <1>1, <2>2, <3>1
    <3> QED BY <2>1, <2>4, <2>5, <3>2 DEF SentKnown
  <2>8. On(h, c)'
        BY <1>1, <1>4, MoveStep DEF On, TInv
  <2>9. Smooth(c)'
    <3> SUFFICES ASSUME ~cut[c]
                 PROVE  /\ call[c] = "pending"
                        /\ serving'[h].caller
                        /\ \A g \in Handler : On(g, c)' => g = h
        BY <1>1, <2>1, <2>5, <2>8 DEF Smooth
    <3>1. serving[h].caller /\ call[c] = "pending" /\ \A g \in Handler : On(g, c) => g = h
          BY <2>3, AloneUncut
    <3> QED BY <2>1, <3>1 DEF On
  <2> QED BY <2>6, <2>7, <2>9 DEF Good
<1> QED BY <1>3, <1>4

\* What was taken on and not said so is what "unsure" remembers.
LEMMA SendFailsGood ==
  ASSUME SInv, NEW h \in Handler, NEW status \in Refused, NEW taken \in BOOLEAN,
         SendFails(h, status, taken), NEW c \in Delivery
  PROVE  Good(c)'
<1> USE DEF SInv
<1> DEFINE d == serving[h].code
           new == [at |-> "release", code |-> d, caller |-> serving[h].caller, status |-> status]
<1>1. /\ serving[h] # Idle /\ serving[h].at = "send"
      /\ sent' = [sent EXCEPT ![d] = @ + IF taken THEN 1 ELSE 0]
      /\ unsure' = [unsure EXCEPT ![d] = @ \/ taken]
      /\ serving' = [serving EXCEPT ![h] = new]
      /\ UNCHANGED <<clock, call, tries, claims, bucket, spent, cut>>
      BY DEF SendFails, Idle
<1>2. d \in Delivery /\ \A e \in Delivery : sent[e] \in Nat /\ unsure[e] \in BOOLEAN
      BY <1>1, ServingType DEF TInv, TypeOK
<1>3. /\ serving'[h].at = "release" /\ serving'[h].caller = serving[h].caller /\ serving'[h].code = d
      /\ \A g \in Handler : g # h => serving'[g] = serving[g]
      BY <1>1 DEF TInv, TypeOK
<1>4. CASE c # d
  <2>1. sent'[c] = sent[c] /\ unsure'[c] = unsure[c]
        BY <1>1, <1>2, <1>4 DEF TInv, TypeOK
  <2>2. \A g \in Handler : serving'[g] = serving[g] \/ (~On(g, c) /\ ~On(g, c)')
        BY <1>3, <1>4 DEF On
  <2> QED BY <1>1, <2>1, <2>2, FrameStep
<1>5. CASE c = d
  <2>1. Owns(h, c) /\ On(h, c) /\ Good(c)
        BY <1>1, <1>5 DEF Owns, On
  <2>2. \A g \in Handler : Owns(g, c)' => g = h
        BY <1>3, <2>1 DEF Owns, On, Good, ClaimHeld
  <2>3. claims'[c] = "claimed" /\ claims[c] = "claimed"
        BY <1>1, <2>1 DEF Good, ClaimHeld
  <2>4. ClaimHeld(c)'
        BY <2>2, <2>3 DEF ClaimHeld
  <2>5. ~unsure'[c] => sent'[c] = 0
    <3>1. unsure'[c] = (unsure[c] \/ taken)
          BY <1>1, <1>2, <1>5 DEF TInv, TypeOK
    <3>2. sent'[c] = sent[c] + IF taken THEN 1 ELSE 0
          BY <1>1, <1>2, <1>5 DEF TInv, TypeOK
    <3>3. ~unsure[c] => sent[c] = 0
          BY <1>1, <2>1 DEF Good, SentKnown
    <3>4. CASE taken
          BY <3>1, <3>4
    <3>5. CASE ~taken
          BY <1>2, <3>1, <3>2, <3>3, <3>5
    <3> QED BY <3>4, <3>5
  <2>6. SentKnown(c)'
        BY <1>3, <2>2, <2>3, <2>5 DEF SentKnown
  <2>7. On(h, c)'
        BY <1>3, <1>5 DEF On, Idle
  <2>8. Smooth(c)'
    <3> SUFFICES ASSUME ~cut[c]
                 PROVE  /\ call[c] = "pending"
                        /\ serving'[h].caller
                        /\ \A g \in Handler : On(g, c)' => g = h
        BY <1>1, <1>3, <2>3, <2>7 DEF Smooth
    <3>1. serving[h].caller /\ call[c] = "pending" /\ \A g \in Handler : On(g, c) => g = h
          BY <2>1, AloneUncut
    <3> QED BY <1>3, <3>1 DEF On
  <2> QED BY <2>4, <2>6, <2>8 DEF Good
<1> QED BY <1>4, <1>5

\* The ends: the code is sent, or the claim is given up, or it was cut short.
LEMMA EndGood ==
  ASSUME SInv, NEW h \in Handler, Done(h) \/ DoneFails(h) \/ Release(h) \/ ReleaseFails(h),
         NEW c \in Delivery
  PROVE  Good(c)'
<1> USE DEF SInv
<1> DEFINE d == serving[h].code
<1>1. /\ serving[h] # Idle /\ serving[h].at \in {"done", "release"} /\ UNCHANGED <<sent, unsure>>
      BY DEF Done, DoneFails, Release, ReleaseFails, Idle
<1>2. d \in Delivery /\ Owns(h, d) /\ Good(d) /\ claims[d] = "claimed"
      BY <1>1, ServingType DEF TInv, Owns, On, Good, ClaimHeld
<1>3. CASE Done(h) \/ DoneFails(h)
  <2>1. Reply(h, 200) /\ cut' = cut /\ (claims' = claims \/ claims' = [claims EXCEPT ![d] = "done"])
        BY <1>3 DEF Done, DoneFails
  <2>2. claims'[c] = claims[c] \/ (c = d /\ claims'[c] = "done")
        BY <1>2, <2>1 DEF TInv, TypeOK
  <2>3. cut'[c] = cut[c] /\ cut[c] \in BOOLEAN
        BY <2>1 DEF TInv, TypeOK
  <2>4. CASE c # d
        BY <1>1, <2>1, <2>2, <2>3, <2>4, AnswerFrame
  <2>5. CASE c = d
    <3>1. sent[c] >= 1
          BY <1>2, <1>3, <2>5 DEF Good, SentKnown, Done, DoneFails
    <3> QED BY <1>1, <1>2, <2>1, <2>2, <2>3, <2>5, <3>1, AnswerStep
  <2> QED BY <2>4, <2>5
<1>4. CASE Release(h)
  <2>1. /\ serving[h].at = "release" /\ Reply(h, serving[h].status) /\ cut' = cut
        /\ claims' = [claims EXCEPT ![d] = "none"]
        BY <1>2, <1>4 DEF Release, Released
  <2>2. PICK status \in Refused : Reply(h, status)
        BY <1>1, <2>1, ServingType DEF TInv
  <2>3. status \in {200, 400, 429, 500, 503} /\ status # 200
        BY DEF Refused
  <2>4. cut'[c] = cut[c] /\ cut[c] \in BOOLEAN
        BY <2>1 DEF TInv, TypeOK
  <2>5. CASE c # d
    <3>1. claims'[c] = claims[c]
          BY <1>2, <2>1, <2>5 DEF TInv, TypeOK
    <3> QED BY <1>1, <2>2, <2>3, <2>4, <2>5, <3>1, AnswerFrame
  <2>6. CASE c = d
    <3>1. claims'[c] = "none"
          BY <1>2, <2>1, <2>6 DEF TInv, TypeOK
    <3> QED BY <1>1, <1>2, <2>1, <2>2, <2>3, <2>4, <2>6, <3>1, AnswerStep
  <2> QED BY <2>5, <2>6
<1>5. CASE ReleaseFails(h)
  <2>1. /\ serving[h].at = "release" /\ Reply(h, serving[h].status) /\ claims' = claims
        /\ cut' = [cut EXCEPT ![d] = TRUE]
        BY <1>5 DEF ReleaseFails
  <2>2. PICK status \in Refused : Reply(h, status)
        BY <1>1, <2>1, ServingType DEF TInv
  <2>3. status \in {200, 400, 429, 500, 503} /\ status # 200
        BY DEF Refused
  <2>4. CASE c # d
    <3>1. cut'[c] = cut[c] /\ claims'[c] = claims[c]
          BY <1>2, <2>1, <2>4 DEF TInv, TypeOK
    <3> QED BY <1>1, <2>2, <2>3, <2>4, <3>1, AnswerFrame
  <2>5. CASE c = d
    <3>1. /\ cut'[c] \in BOOLEAN /\ (~cut'[c] => ~cut[c])
          /\ (~cut'[c] => claims'[c] = "none")
          /\ claims'[c] = claims[c] /\ claims[c] # "none"
          BY <1>2, <2>1, <2>5 DEF TInv, TypeOK
    <3> QED BY <1>1, <2>2, <2>3, <2>5, <3>1, AnswerStep
  <2> QED BY <2>4, <2>5
<1> QED BY <1>3, <1>4, <1>5

\* A delivery comes again while nobody waits for it.
LEMMA DeliverGood ==
  ASSUME SInv, NEW d \in Delivery, NEW h \in Handler, Deliver(d, h), NEW c \in Delivery
  PROVE  Good(c)'
<1> USE DEF SInv
<1>1. /\ call[d] \in {"new", "again"} /\ serving[h] = Idle
      /\ UNCHANGED <<clock, claims, bucket, sent, spent, unsure, cut>>
      BY DEF Deliver
<1>2. /\ serving'[h].at = "limit" /\ serving'[h].code = d /\ serving'[h].caller
      /\ \A g \in Handler : g # h => serving'[g] = serving[g]
      /\ call'[d] = "pending" /\ (c # d => call'[c] = call[c])
      BY DEF Deliver, TInv, TypeOK
<1>3. CASE c # d
  <2>1. \A g \in Handler : serving'[g] = serving[g] \/ (~On(g, c) /\ ~On(g, c)')
        BY <1>1, <1>2, <1>3 DEF On
  <2> QED BY <1>1, <1>2, <1>3, <2>1, FrameStep
<1>4. CASE c = d
  <2>1. \A g \in Handler : Owns(g, c)' => serving'[g] = serving[g] /\ Owns(g, c)
        BY <1>2 DEF Owns, On
  <2>2. ClaimHeld(c)' /\ SentKnown(c)'
        BY <1>1, <2>1 DEF Good, ClaimHeld, SentKnown
  <2>3. On(h, c)'
        BY <1>2, <1>4 DEF On, Idle
  <2>4. Smooth(c)'
    <3> SUFFICES ASSUME ~cut[c]
                 PROVE  claims[c] = "none" /\ \A g \in Handler : On(g, c)' => g = h
        BY <1>1, <1>2, <1>4, <2>3 DEF Smooth
    <3>1. claims[c] = "none"
          BY <1>1, <1>4 DEF Good, Smooth
    <3>2. \A g \in Handler : ~On(g, c)
          BY <1>1, <1>4, AloneUncut
    <3> QED BY <1>2, <3>1, <3>2 DEF On
  <2> QED BY <2>2, <2>4 DEF Good
<1> QED BY <1>3, <1>4

\* Supabase gives up: the handler goes on, the delivery was cut short.
LEMMA GiveUpGood ==
  ASSUME SInv, NEW h \in Handler, GiveUp(h), NEW c \in Delivery
  PROVE  Good(c)'
<1> USE DEF SInv
<1> DEFINE d == serving[h].code
<1>1. /\ serving[h] # Idle /\ call' = [call EXCEPT ![d] = "again"] /\ cut' = [cut EXCEPT ![d] = TRUE]
      /\ UNCHANGED <<clock, tries, claims, bucket, sent, spent, unsure>>
      BY DEF GiveUp
<1>2. d \in Delivery
      BY <1>1, ServingType DEF TInv
<1>3. /\ serving'[h] # Idle /\ serving'[h].at = serving[h].at /\ serving'[h].code = d
      /\ \A g \in Handler : g # h => serving'[g] = serving[g]
      BY GiveUpType
<1>4. CASE c # d
  <2>1. cut'[c] = cut[c] /\ call'[c] = call[c]
        BY <1>1, <1>2, <1>4 DEF TInv, TypeOK
  <2>2. \A g \in Handler : serving'[g] = serving[g] \/ (~On(g, c) /\ ~On(g, c)')
        BY <1>3, <1>4 DEF On
  <2> QED BY <1>1, <2>1, <2>2, FrameStep
<1>5. CASE c = d
  <2>1. cut'[c]
        BY <1>1, <1>2, <1>5 DEF TInv, TypeOK
  <2>2. \A g \in Handler : Owns(g, c)' => serving'[g].at = serving[g].at /\ Owns(g, c)
        BY <1>1, <1>3 DEF Owns, On
  <2>3. ClaimHeld(c)' /\ SentKnown(c)'
        BY <1>1, <2>2 DEF Good, ClaimHeld, SentKnown
  <2>4. Smooth(c)'
        BY <2>1 DEF Smooth
  <2> QED BY <2>3, <2>4 DEF Good
<1> QED BY <1>4, <1>5

\* A restart leaves claims behind of what it cut short.
LEMMA RestartGood == ASSUME SInv, Restart, NEW c \in Delivery PROVE Good(c)'
<1> USE DEF SInv
<1> DEFINE served == {serving[h].code : h \in {g \in Handler : serving[g] # Idle}}
<1>1. /\ \A h \in Handler : serving'[h] = Idle
      /\ call'[c] = IF call[c] = "pending" THEN "again" ELSE call[c]
      /\ cut'[c] = (cut[c] \/ c \in served)
      /\ UNCHANGED <<clock, tries, claims, sent, unsure>>
      BY DEF Restart
<1>2. \A h \in Handler : ~On(h, c)' /\ ~Owns(h, c)'
      BY <1>1 DEF On, Owns
<1>3. ClaimHeld(c)' /\ SentKnown(c)'
      BY <1>1, <1>2 DEF Good, ClaimHeld, SentKnown
<1>4. CASE c \in served
  <2>1. cut'[c]
        BY <1>1, <1>4
  <2>2. Smooth(c)'
        BY <2>1 DEF Smooth
  <2> QED BY <1>3, <2>2 DEF Good
<1>5. CASE c \notin served
  <2>1. cut'[c] = cut[c]
    <3>1. cut[c] \in BOOLEAN
          BY DEF TInv, TypeOK
    <3> HIDE DEF served
    <3> QED BY <1>1, <1>5, <3>1
  <2>2. call[c] # "pending" => call'[c] = call[c]
        BY <1>1
  <2>3. CASE call[c] # "pending"
    <3>1. Smooth(c)'
          BY <1>1, <1>2, <2>1, <2>2, <2>3 DEF Good, Smooth
    <3> QED BY <1>3, <3>1 DEF Good
  <2>4. CASE call[c] = "pending"
    <3>1. \A h \in Handler : ~On(h, c)
          BY <1>5 DEF On
    <3>2. cut[c]
          BY <2>4, <3>1 DEF Good, Smooth
    <3>3. Smooth(c)'
          BY <2>1, <3>2 DEF Smooth
    <3> QED BY <1>3, <3>3 DEF Good
  <2> QED BY <2>3, <2>4
<1> QED BY <1>4, <1>5

LEMMA NextGood == SInv /\ [Next]_vars => SInv'
<1> SUFFICES ASSUME SInv, [Next]_vars PROVE SInv'
    OBVIOUS
<1>1. TInv'
      BY NextType DEF SInv
<1>2. SUFFICES ASSUME NEW c \in Delivery PROVE Good(c)'
      BY <1>1 DEF SInv
<1>3. ASSUME UNCHANGED <<call, tries, claims, bucket, serving, sent, spent, unsure, cut>>
      PROVE  Good(c)'
      BY <1>3, FrameStep DEF SInv
<1>4. CASE Tick
      BY <1>3, <1>4 DEF Tick
<1>5. CASE UNCHANGED vars
      BY <1>3, <1>5 DEF vars
<1> QED BY <1>4, <1>5, AllowGood, ClaimGood, ClaimFailsGood, SendCodeGood, SendFailsGood, EndGood,
           DeliverGood, GiveUpGood, RestartGood DEF Next

LEMMA InitGood == Init => SInv
<1> SUFFICES ASSUME Init, NEW c \in Delivery PROVE Good(c)
    BY InitType DEF SInv
<1>1. \A h \in Handler : ~On(h, c) /\ ~Owns(h, c)
      BY DEF Init, On, Owns
<1> QED BY <1>1 DEF Init, Good, ClaimHeld, SentKnown, Smooth

LEMMA GoodMeans == SInv => SentOnce /\ OkMeansSent /\ RetryCanSend
BY DEF SInv, Good, SentKnown, Smooth, SentOnce, OkMeansSent, RetryCanSend

\* A code goes out once, unless WhatsApp took it on and its answer was lost.
THEOREM NeverSentTwice == Spec => []SentOnce
BY InitGood, NextGood, GoodMeans, PTL DEF Spec

\* What was not cut short is answered 200 only with the code sent.
THEOREM OkAlwaysSent == Spec => []OkMeansSent
BY InitGood, NextGood, GoodMeans, PTL DEF Spec

\* What was not cut short and is delivered again finds no claim in its way.
THEOREM RetriesCanSend == Spec => []RetryCanSend
BY InitGood, NextGood, GoodMeans, PTL DEF Spec

-----------------------------------------------------------------------------
\* The limit of a phone.

\* The codes since the i-th, that one too, and what is left in the bucket were
\* all paid for: with a full bucket, and the time since.
Paid(p) ==
  \A i \in 1 .. Len(spent[p]) :
    /\ spent[p][i] <= clock
    /\ (Len(spent[p]) - i + 1) * Every + Tokens(bucket[p]) <= Full + clock - spent[p][i]

\* The limit, and no more has been let through later than now.
Limited(p) ==
  \A i, j \in 1 .. Len(spent[p]) :
    i <= j => (j - i + 1 - Burst) * Every <= spent[p][j] - spent[p][i]

PInv == TInv /\ \A p \in Phone : Paid(p) /\ Limited(p)

\* What a bucket holds and what was let through are numbers.
LEMMA PaidType ==
  ASSUME PInv, NEW p \in Phone
  PROVE  /\ Burst \in Nat /\ Burst >= 1 /\ Every \in Nat /\ Every > 0
         /\ Full = Burst * Every /\ Full \in Nat
         /\ clock \in Nat /\ Tokens(bucket[p]) \in 0 .. Full
         /\ spent[p] \in Seq(Nat) /\ Len(spent[p]) \in Nat
         /\ \A i \in 1 .. Len(spent[p]) : spent[p][i] \in Nat
<1>1. TRUE \in BOOLEAN /\ TypeOK /\ BucketsLag
      BY DEF PInv, TInv
<1>2. Tokens(bucket[p]) \in 0 .. Full /\ Full \in Nat
      BY <1>1, TokensType
<1>3. spent[p] \in Seq(Nat) /\ clock \in Nat
      BY <1>1 DEF TypeOK
<1>4. Len(spent[p]) \in Nat /\ \A i \in 1 .. Len(spent[p]) : spent[p][i] \in Nat
      BY <1>3
<1> QED BY <1>2, <1>3, <1>4, HookAssumption DEF Full

\* One code more costs one token more.
LEMMA OneMore ==
  ASSUME NEW k \in Int, NEW e \in Nat, NEW has \in Int, NEW t \in Int, k * e + has <= t
  PROVE  (k + 1) * e + (has - e) <= t
OBVIOUS

\* What is paid for keeps the limit.
LEMMA PaidKeeps ==
  ASSUME NEW k \in Int, NEW e \in Nat, NEW n \in Nat, NEW has \in Int, NEW t \in Int,
         k * e + has <= n * e + t, has >= e
  PROVE  (k + 1 - n) * e <= t
<1>1. (k + 1 - n) * e = k * e + e - n * e
      OBVIOUS
<1>2. k * e \in Int /\ n * e \in Int
      OBVIOUS
<1> QED BY <1>1, <1>2

\* A code that is let through is paid for.
LEMMA SpendPaid ==
  ASSUME PInv, NEW p \in Phone, Tokens(bucket[p]) >= Every,
         spent'[p] = Append(spent[p], clock), clock' = clock,
         Tokens(bucket[p])' = Tokens(bucket[p]) - Every
  PROVE  Paid(p)' /\ Limited(p)'
<1> DEFINE s == spent[p]
           L == Len(s)
           has == Tokens(bucket[p])
<1>1. /\ Full = Burst * Every /\ Burst \in Nat /\ Burst >= 1 /\ Every \in Nat /\ Full \in Nat
      /\ has \in 0 .. Full /\ clock \in Nat /\ L \in Nat /\ \A i \in 1 .. L : s[i] \in Nat
      BY PaidType
<1>2. \A i \in 1 .. L : s[i] <= clock /\ (L - i + 1) * Every + has <= Full + clock - s[i]
      BY DEF PInv, Paid
<1>3. \A i, j \in 1 .. L : i <= j => (j - i + 1 - Burst) * Every <= s[j] - s[i]
      BY DEF PInv, Limited
<1>4. /\ Len(spent'[p]) = L + 1 /\ spent'[p][L + 1] = clock
      /\ \A i \in 1 .. L : spent'[p][i] = s[i]
      BY PaidType
<1>5. has >= Every /\ Tokens(bucket[p])' = has - Every /\ clock' = clock
      OBVIOUS
<1> HIDE DEF s, L, has
<1>6. ASSUME NEW i \in 1 .. L + 1
      PROVE  /\ spent'[p][i] <= clock
             /\ (L + 1 - i + 1) * Every + (has - Every) <= Full + clock - spent'[p][i]
  <2>1. CASE i \in 1 .. L
    <3> DEFINE k == L - i + 1
               t == Full + clock - s[i]
    <3>1. s[i] <= clock /\ spent'[p][i] = s[i] /\ k * Every + has <= t
          BY <1>2, <1>4, <2>1
    <3>2. k \in Int /\ L + 1 - i + 1 = k + 1 /\ t \in Int /\ has \in Int
          BY <1>1, <2>1
    <3> HIDE DEF k, t
    <3>3. (k + 1) * Every + (has - Every) <= t
          BY <1>1, <3>1, <3>2, OneMore
    <3> QED BY <3>1, <3>2, <3>3 DEF t
  <2>2. CASE i = L + 1
    <3>1. L + 1 - i + 1 = 1 /\ 1 * Every = Every
          BY <1>1, <2>2
    <3> QED BY <1>1, <1>4, <2>2, <3>1
  <2>3. i \in 1 .. L \/ i = L + 1
        BY <1>1
  <2> QED BY <2>1, <2>2, <2>3
<1>7. Paid(p)'
  <2> DEFINE n == Len(spent'[p])
             new == Tokens(bucket[p])'
  <2>1. n = L + 1 /\ new = has - Every /\ clock' = clock
        BY <1>4, <1>5
  <2> HIDE DEF n, new
  <2>2. ASSUME NEW i \in 1 .. n
        PROVE  spent'[p][i] <= clock' /\ (n - i + 1) * Every + new <= Full + clock' - spent'[p][i]
    <3>1. i \in 1 .. L + 1 /\ n - i + 1 = L + 1 - i + 1
          BY <1>1, <2>1
    <3> QED BY <1>6, <2>1, <3>1
  <2> QED BY <2>2 DEF Paid, Full, n, new
<1>8. Limited(p)'
  <2> SUFFICES ASSUME NEW i \in 1 .. L + 1, NEW j \in 1 .. L + 1, i <= j
               PROVE  (j - i + 1 - Burst) * Every <= spent'[p][j] - spent'[p][i]
      BY <1>4 DEF Limited
  <2>1. CASE j \in 1 .. L
    <3>1. i \in 1 .. L /\ spent'[p][i] = s[i] /\ spent'[p][j] = s[j]
          BY <1>1, <1>4, <2>1
    <3> QED BY <1>3, <2>1, <3>1
  <2>2. CASE j = L + 1 /\ i \in 1 .. L
    <3> DEFINE k == L - i + 1
               t == clock - s[i]
    <3>1. k * Every + has <= Burst * Every + t
      <4>1. k * Every + has <= Full + clock - s[i]
            BY <1>2, <2>2
      <4>2. Full + clock - s[i] = Full + t
            BY <1>1, <2>2
      <4> QED BY <1>1, <4>1, <4>2
    <3>2. k \in Int /\ j - i + 1 - Burst = k + 1 - Burst /\ t \in Int /\ has \in Int
          BY <1>1, <2>2
    <3>3. spent'[p][j] - spent'[p][i] = t
          BY <1>4, <2>2
    <3> HIDE DEF k, t
    <3>4. (k + 1 - Burst) * Every <= t
          BY <1>1, <1>5, <3>1, <3>2, PaidKeeps
    <3> QED BY <3>2, <3>3, <3>4
  <2>3. CASE j = L + 1 /\ i = L + 1
    <3>1. spent'[p][j] - spent'[p][i] = 0
          BY <1>1, <1>4, <2>3
    <3>2. j - i + 1 - Burst = 1 - Burst
          BY <1>1, <2>3
    <3>3. (1 - Burst) * Every <= 0
      <4>1. ASSUME NEW n \in Nat, n >= 1, NEW e \in Nat PROVE (1 - n) * e <= 0
            BY <4>1
      <4> QED BY <1>1, <4>1
    <3> QED BY <3>1, <3>2, <3>3
  <2>4. j \in 1 .. L \/ (j = L + 1 /\ i \in 1 .. L) \/ (j = L + 1 /\ i = L + 1)
        BY <1>1
  <2> QED BY <2>1, <2>2, <2>3, <2>4
<1> QED BY <1>7, <1>8

\* Time and idleness earn no more than time.
LEMMA EarnPaid ==
  ASSUME PInv, NEW p \in Phone, spent'[p] = spent[p], clock' \in Nat, clock <= clock',
         Tokens(bucket[p])' \in Int,
         Tokens(bucket[p])' - Tokens(bucket[p]) <= clock' - clock
  PROVE  Paid(p)' /\ Limited(p)'
<1> DEFINE L == Len(spent[p])
           has == Tokens(bucket[p])
           new == Tokens(bucket[p])'
<1>1. /\ Every \in Nat /\ Full \in Nat /\ has \in Int /\ clock \in Nat
      /\ L \in Nat /\ \A i \in 1 .. L : spent[p][i] \in Nat
      BY PaidType
<1>2. Limited(p)'
      BY DEF PInv, Limited
<1>3. \A i \in 1 .. L :
        spent[p][i] <= clock /\ (L - i + 1) * Every + has <= Full + clock - spent[p][i]
      BY DEF PInv, Paid
<1>4. new \in Int /\ new - has <= clock' - clock
      OBVIOUS
<1>5. ASSUME NEW i \in 1 .. L
      PROVE  spent[p][i] <= clock' /\ (L - i + 1) * Every + new <= Full + clock' - spent[p][i]
  <2> DEFINE k == (L - i + 1) * Every
  <2>1. k \in Int
        BY <1>1, <1>5
  <2>2. spent[p][i] <= clock /\ k + has <= Full + clock - spent[p][i] /\ spent[p][i] \in Nat
        BY <1>1, <1>3, <1>5
  <2> HIDE DEF k, has, new, L
  <2>3. spent[p][i] <= clock' /\ k + new <= Full + clock' - spent[p][i]
        BY <1>1, <1>4, <2>1, <2>2
  <2> QED BY <2>3 DEF k
<1>6. Paid(p)'
  <2>1. spent'[p] = spent[p]
        OBVIOUS
  <2> QED BY <1>5, <2>1 DEF Paid, Full
<1> QED BY <1>2, <1>6

LEMMA TickPaid == ASSUME PInv, Tick, NEW p \in Phone PROVE Paid(p)' /\ Limited(p)'
<1> DEFINE b == bucket[p]
<1>1. /\ clock \in Nat /\ clock' = clock + 1 /\ bucket'[p] = b /\ spent'[p] = spent[p]
      /\ Full \in Nat /\ b.tokens \in Int /\ b.last \in Int
      BY PaidType DEF PInv, TInv, TypeOK, Tick
<1> HIDE DEF b
<1>2. Tokens(b) = IF b = NoBucket THEN Full
                  ELSE IF Full <= b.tokens + clock - b.last THEN Full ELSE b.tokens + clock - b.last
      BY <1>1, MinOfTwo DEF Tokens
<1>3. Tokens(b)' = IF b' = NoBucket THEN Full
                   ELSE IF Full <= b'.tokens + clock' - b'.last THEN Full ELSE b'.tokens + clock' - b'.last
  <2>1. b' = b
        BY <1>1 DEF b
  <2> QED BY <1>1, <2>1, MinOfTwo DEF Tokens, NoBucket, Full
<1>4. Tokens(b)' \in Int /\ Tokens(b)' - Tokens(b) <= 1
  <2>1. b' = b
        BY <1>1 DEF b
  <2> QED BY <1>1, <1>2, <1>3, <2>1
<1>5. clock' - clock = 1 /\ clock' \in Nat /\ clock <= clock'
      BY <1>1
<1> QED BY <1>1, <1>4, <1>5, EarnPaid DEF b

\* A step that leaves the limiter alone.
LEMMA LeavePaid ==
  ASSUME PInv, UNCHANGED <<clock, bucket, spent>>, NEW p \in Phone
  PROVE  Paid(p)' /\ Limited(p)'
BY DEF PInv, Paid, Limited, Tokens, NoBucket, Full

LEMMA AllowPaid ==
  ASSUME PInv, NEW h \in Handler, NEW sweeps \in BOOLEAN, Allow(h, sweeps), NEW p \in Phone
  PROVE  Paid(p)' /\ Limited(p)'
<1> DEFINE q == PhoneOf[serving[h].code]
           has == Tokens(Swept(q, sweeps))
           new == [tokens |-> IF Allowed(has) THEN has - Every ELSE has, last |-> clock]
<1>1. /\ serving[h] # Idle /\ clock' = clock
      /\ bucket' = [r \in Phone |-> IF r # q THEN Swept(r, sweeps) ELSE new]
      /\ \/ Allowed(has) /\ spent' = [spent EXCEPT ![q] = Append(@, clock)]
         \/ ~Allowed(has) /\ spent' = spent
      BY DEF Allow, Idle
<1>2. q \in Phone
      BY <1>1, ServingType, HookAssumption DEF PInv, TInv
<1>3. /\ has = Tokens(bucket[q]) /\ has \in 0 .. Full /\ Full \in Nat /\ Every \in Nat /\ clock \in Nat
      /\ Tokens(Swept(p, sweeps)) = Tokens(bucket[p]) /\ Tokens(bucket[p]) \in 0 .. Full
      BY <1>2, TokensType DEF PInv, TInv, TypeOK
<1> HIDE DEF q, has, new
<1>4. CASE p # q
  <2>1. bucket'[p] = Swept(p, sweeps) /\ spent'[p] = spent[p]
        BY <1>1, <1>2, <1>4 DEF PInv, TInv, TypeOK
  <2>2. Tokens(bucket[p])' = Tokens(bucket[p])
        BY <1>1, <1>3, <2>1 DEF Tokens, NoBucket, Full
  <2> QED BY <1>1, <1>3, <2>1, <2>2, EarnPaid
<1>5. CASE p = q
  <2>1. bucket'[p] = new
        BY <1>1, <1>5
  <2>2. Tokens(bucket[p])' = IF Allowed(has) THEN has - Every ELSE has
    <3>1. /\ new.tokens \in Nat /\ new.tokens <= Full /\ new.last = clock /\ new # NoBucket
          /\ new.tokens = IF Allowed(has) THEN has - Every ELSE has
          BY <1>3 DEF new, Allowed, NoBucket
    <3>2. Min({Full, new.tokens + clock - new.last}) = new.tokens
          BY <1>3, <3>1, MinOfTwo
    <3> QED BY <1>1, <2>1, <3>1, <3>2 DEF Tokens, NoBucket, Full
  <2>3. CASE Allowed(has)
    <3>1. spent'[p] = Append(spent[p], clock) /\ has >= Every
          BY <1>1, <1>5, <2>3 DEF PInv, TInv, TypeOK, Allowed
    <3> QED BY <1>1, <1>3, <1>5, <2>2, <2>3, <3>1, SpendPaid
  <2>4. CASE ~Allowed(has)
    <3>1. spent'[p] = spent[p]
          BY <1>1, <2>4
    <3> QED BY <1>1, <1>3, <1>5, <2>2, <2>4, <3>1, EarnPaid
  <2> QED BY <2>3, <2>4
<1> QED BY <1>4, <1>5

LEMMA NextPaid == PInv /\ [Next]_vars => PInv'
<1> SUFFICES ASSUME PInv, [Next]_vars PROVE PInv'
    OBVIOUS
<1>1. TInv'
      BY NextType DEF PInv
<1>2. SUFFICES ASSUME NEW p \in Phone PROVE Paid(p)' /\ Limited(p)'
      BY <1>1 DEF PInv
<1>3. CASE Restart
  <2>1. spent'[p] = <<>>
        BY <1>3 DEF Restart
  <2> QED BY <2>1 DEF Paid, Limited
<1>4. CASE UNCHANGED <<clock, bucket, spent>>
      BY <1>4, LeavePaid
<1>5. ASSUME NEW h \in Handler
      PROVE  /\ \A c \in Delivery : Deliver(c, h) => UNCHANGED <<clock, bucket, spent>>
             /\ \A kept \in BOOLEAN : ClaimFails(h, kept) => UNCHANGED <<clock, bucket, spent>>
             /\ \A status \in Refused, taken \in BOOLEAN :
                  SendFails(h, status, taken) => UNCHANGED <<clock, bucket, spent>>
      BY DEF Deliver, ClaimFails, SendFails
<1>6. ASSUME NEW h \in Handler
      PROVE  GiveUp(h) \/ Claim(h) \/ SendCode(h) \/ Done(h) \/ DoneFails(h) \/ Release(h) \/ ReleaseFails(h)
               => UNCHANGED <<clock, bucket, spent>>
      BY DEF GiveUp, Claim, SendCode, Done, DoneFails, Release, ReleaseFails
<1>7. CASE UNCHANGED vars
      BY <1>4, <1>7 DEF vars
<1> QED BY <1>3, <1>4, <1>5, <1>6, <1>7, TickPaid, AllowPaid DEF Next

LEMMA InitPaid == Init => PInv
<1> SUFFICES ASSUME Init, NEW p \in Phone PROVE Paid(p) /\ Limited(p)
    BY InitType DEF PInv
<1>1. spent[p] = <<>>
      BY DEF Init
<1> QED BY <1>1 DEF Paid, Limited

\* A phone gets a burst of codes and one per "every", over any stretch of time
\* between two starts of the process.
THEOREM PhonesLimited == Spec => []PhoneLimit
<1>1. PInv => PhoneLimit
  <2> SUFFICES ASSUME PInv, NEW p \in Phone,
                      NEW i \in DOMAIN spent[p], NEW j \in DOMAIN spent[p], i <= j
               PROVE  (j - i + 1 - Burst) * Every <= spent[p][j] - spent[p][i]
      BY DEF PhoneLimit
  <2>1. DOMAIN spent[p] = 1 .. Len(spent[p])
        BY PaidType
  <2> QED BY <2>1 DEF PInv, Limited
<1> QED BY InitPaid, NextPaid, <1>1, PTL DEF Spec

=============================================================================
