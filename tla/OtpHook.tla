------------------------------- MODULE OtpHook -------------------------------
(***************************************************************************)
(* Sign-in codes (packages identity/otp, platform/webhook and              *)
(* platform/ratelimit): Supabase delivers a code to the hook, which asks   *)
(* the limit of the phone, claims the delivery, has WhatsApp send the code *)
(* and answers.  Supabase delivers again what was answered with 429 or     *)
(* 503, and what was not answered.                                         *)
(*                                                                         *)
(* Each of these is a step of a handler's.  Its caller may give up waiting *)
(* at any of them, which ends the request's context: every call to the     *)
(* database or to WhatsApp after that fails.  The process may stop at any  *)
(* time, and forgets what the limiter knew.                                *)
(***************************************************************************)
EXTENDS Integers, FiniteSetsExt, Sequences

CONSTANTS
  Delivery,    \* by webhook id
  Phone,
  PhoneOf,     \* whom each delivery's code is for
  Handler,     \* requests served at once
  Every,       \* PerPhone: a code every so often, on average,
  Burst,       \* and so many at once
  MaxTries,    \* how often Supabase delivers a code
  MaxTime      \* bound: where the clock stops

ASSUME HookAssumption ==
  /\ PhoneOf \in [Delivery -> Phone]
  /\ Every \in Nat \ {0} /\ Burst \in Nat \ {0}
  /\ MaxTries \in Nat /\ MaxTime \in Nat

VARIABLES
  clock,
  call,      \* what Supabase makes of each delivery
  tries,     \* how often it delivered it
  claims,    \* webhook_events: "none", "claimed" or "done"
  bucket,    \* the limiter's, of each phone
  serving,   \* what each handler does
  sent,      \* the messages WhatsApp took on, per delivery
  spent,     \* history: when the limiter let each phone's codes through
  unsure,    \* history: a message was taken on that a handler does not know of
  cut        \* history: a caller gave up, a process stopped or a call failed

vars == <<clock, call, tries, claims, bucket, serving, sent, spent, unsure, cut>>

Idle == [at |-> "idle"]

\* Tokens are counted in the time it takes to earn them.
Full == Burst * Every
NoBucket == [tokens |-> Full, last |-> -1]

Init ==
  /\ clock = 0
  /\ call = [c \in Delivery |-> "new"]
  /\ tries = [c \in Delivery |-> 0]
  /\ claims = [c \in Delivery |-> "none"]
  /\ bucket = [p \in Phone |-> NoBucket]
  /\ serving = [h \in Handler |-> Idle]
  /\ sent = [c \in Delivery |-> 0]
  /\ spent = [p \in Phone |-> <<>>]
  /\ unsure = [c \in Delivery |-> FALSE]
  /\ cut = [c \in Delivery |-> FALSE]

Tick ==
  /\ clock < MaxTime
  /\ clock' = clock + 1
  /\ UNCHANGED <<call, tries, claims, bucket, serving, sent, spent, unsure, cut>>

-----------------------------------------------------------------------------
\* Supabase.

Deliver(c, h) ==
  /\ call[c] \in {"new", "again"} /\ tries[c] < MaxTries
  /\ serving[h] = Idle
  /\ call' = [call EXCEPT ![c] = "pending"]
  /\ tries' = [tries EXCEPT ![c] = @ + 1]
  /\ serving' = [serving EXCEPT ![h] = [at |-> "limit", code |-> c, caller |-> TRUE]]
  /\ UNCHANGED <<clock, claims, bucket, sent, spent, unsure, cut>>

\* Supabase waits no longer.
GiveUp(h) ==
  /\ serving[h] # Idle /\ serving[h].caller
  /\ serving' = [serving EXCEPT ![h].caller = FALSE]
  /\ call' = [call EXCEPT ![serving[h].code] = "again"]
  /\ cut' = [cut EXCEPT ![serving[h].code] = TRUE]
  /\ UNCHANGED <<clock, tries, claims, bucket, sent, spent, unsure>>

\* What a status is to Supabase.
Heard(status) ==
  CASE status = 200 -> "ok"
    [] status \in {429, 503} -> "again"
    [] OTHER -> "failed"

\* The handler answers, if anybody listens.
Reply(h, status) ==
  /\ serving' = [serving EXCEPT ![h] = Idle]
  /\ call' = IF serving[h].caller THEN [call EXCEPT ![serving[h].code] = Heard(status)] ELSE call

-----------------------------------------------------------------------------
\* The limit of a phone (Limiter).

\* Fault: a bucket is dropped once it has earned a token.
IdleFor_One(p) == clock - bucket[p].last > Every

\* A bucket nobody used for a full refill.
IdleFor(p) == clock - bucket[p].last > Full

\* One call in 1024 first drops the idle buckets, of every phone.
Swept(p, sweeps) == IF sweeps /\ bucket[p] # NoBucket /\ IdleFor(p) THEN NoBucket ELSE bucket[p]

\* What bucket b holds by now.
Tokens(b) == IF b = NoBucket THEN Full ELSE Min({Full, b.tokens + clock - b.last})

\* A code costs a token.
Allowed(has) == has >= Every

Allow(h, sweeps) ==
  LET c == serving[h].code
      has == Tokens(Swept(PhoneOf[c], sweeps))
      allowed == Allowed(has)
  IN  /\ serving[h].at = "limit"
      /\ bucket' = [p \in Phone |->
                      IF p # PhoneOf[c] THEN Swept(p, sweeps)
                      ELSE [tokens |-> IF allowed THEN has - Every ELSE has, last |-> clock]]
      /\ IF allowed
         THEN /\ serving' = [serving EXCEPT ![h].at = "claim"]
              /\ spent' = [spent EXCEPT ![PhoneOf[c]] = Append(@, clock)]
              /\ UNCHANGED call
         ELSE Reply(h, 429) /\ UNCHANGED spent
      /\ UNCHANGED <<clock, tries, claims, sent, unsure, cut>>

-----------------------------------------------------------------------------
\* The delivery (Claim, SendCode, Done, Release).

\* Fault: only a delivery that was handled is not fresh.
Fresh_Unhandled(c) == claims[c] # "done"

Fresh(c) == claims[c] = "none"

\* Inserts the delivery unless it is there.
Claim(h) ==
  LET c == serving[h].code
  IN  /\ serving[h].at = "claim" /\ serving[h].caller
      /\ IF Fresh(c)
         THEN /\ claims' = [claims EXCEPT ![c] = "claimed"]
              /\ serving' = [serving EXCEPT ![h].at = "send"]
              /\ UNCHANGED call
         ELSE Reply(h, 200) /\ UNCHANGED claims
      /\ UNCHANGED <<clock, tries, bucket, sent, spent, unsure, cut>>

\* The insert fails as far as the handler knows, at once if its caller is gone.
ClaimFails(h, kept) ==
  LET c == serving[h].code
  IN  /\ serving[h].at = "claim"
      /\ kept => Fresh(c)
      /\ claims' = [claims EXCEPT ![c] = IF kept THEN "claimed" ELSE @]
      /\ cut' = [cut EXCEPT ![c] = @ \/ kept]
      /\ Reply(h, 503)
      /\ UNCHANGED <<clock, tries, bucket, sent, spent, unsure>>

\* WhatsApp takes the message on, and says so.
SendCode(h) ==
  /\ serving[h].at = "send" /\ serving[h].caller
  /\ sent' = [sent EXCEPT ![serving[h].code] = @ + 1]
  /\ serving' = [serving EXCEPT ![h].at = "done"]
  /\ UNCHANGED <<clock, call, tries, claims, bucket, spent, unsure, cut>>

\* The status for a code that was not sent: the number cannot get it, WhatsApp
\* is down or did not answer, or what it answered makes no sense.
Refused == {400, 503, 500}

\* Sending fails as far as the handler knows.  WhatsApp may have taken the
\* message on all the same, when its answer was lost or made no sense.
SendFails(h, status, taken) ==
  LET c == serving[h].code
  IN  /\ serving[h].at = "send"
      /\ ~serving[h].caller => status = 503
      /\ taken => status # 400
      /\ serving' = [serving EXCEPT ![h] = [at |-> "release", code |-> c, caller |-> serving[h].caller,
                                            status |-> status]]
      /\ sent' = [sent EXCEPT ![c] = @ + IF taken THEN 1 ELSE 0]
      /\ unsure' = [unsure EXCEPT ![c] = @ \/ taken]
      /\ UNCHANGED <<clock, call, tries, claims, bucket, spent, cut>>

Done(h) ==
  /\ serving[h].at = "done" /\ serving[h].caller
  /\ claims' = [claims EXCEPT ![serving[h].code] = "done"]
  /\ Reply(h, 200)
  /\ UNCHANGED <<clock, tries, bucket, sent, spent, unsure, cut>>

\* The delivery stays claimed, which is enough.
DoneFails(h) ==
  /\ serving[h].at = "done"
  /\ Reply(h, 200)
  /\ UNCHANGED <<clock, tries, claims, bucket, sent, spent, unsure, cut>>

\* Fault: the failure is answered and the delivery forgotten about.
Released_Never(h) == claims[serving[h].code]

\* What becomes of the claim: deleted unless it was handled.
Released(h) == IF claims[serving[h].code] = "claimed" THEN "none" ELSE claims[serving[h].code]

Release(h) ==
  LET c == serving[h].code
  IN  /\ serving[h].at = "release" /\ serving[h].caller
      /\ claims' = [claims EXCEPT ![c] = Released(h)]
      /\ Reply(h, serving[h].status)
      /\ UNCHANGED <<clock, tries, bucket, sent, spent, unsure, cut>>

ReleaseFails(h) ==
  /\ serving[h].at = "release"
  /\ cut' = [cut EXCEPT ![serving[h].code] = TRUE]
  /\ Reply(h, serving[h].status)
  /\ UNCHANGED <<clock, tries, claims, bucket, sent, spent, unsure>>

\* The process stops and is started again.
Restart ==
  LET served == {serving[h].code : h \in {g \in Handler : serving[g] # Idle}}
  IN  /\ serving' = [h \in Handler |-> Idle]
      /\ bucket' = [p \in Phone |-> NoBucket]
      /\ spent' = [p \in Phone |-> <<>>]
      /\ call' = [c \in Delivery |-> IF call[c] = "pending" THEN "again" ELSE call[c]]
      /\ cut' = [c \in Delivery |-> cut[c] \/ c \in served]
      /\ UNCHANGED <<clock, tries, claims, sent, unsure>>

-----------------------------------------------------------------------------
Next ==
  \/ Tick \/ Restart
  \/ \E h \in Handler :
       \/ \E c \in Delivery : Deliver(c, h)
       \/ GiveUp(h)
       \/ \E sweeps \in BOOLEAN : Allow(h, sweeps)
       \/ Claim(h) \/ SendCode(h)
       \/ \E kept \in BOOLEAN : ClaimFails(h, kept)
       \/ \E status \in Refused, taken \in BOOLEAN : SendFails(h, status, taken)
       \/ Done(h) \/ DoneFails(h) \/ Release(h) \/ ReleaseFails(h)

Spec == Init /\ [][Next]_vars

-----------------------------------------------------------------------------
\* Properties.

Serving ==
  [at : {"limit", "claim", "send", "done"}, code : Delivery, caller : BOOLEAN]
  \cup [at : {"release"}, code : Delivery, caller : BOOLEAN, status : Refused]

\* Of a delivery's handlers one at most has a caller that waits.
OneCaller ==
  \A g, h \in Handler :
    g # h /\ serving[g] # Idle /\ serving[h] # Idle /\ serving[g].code = serving[h].code
      => ~(serving[g].caller /\ serving[h].caller)

\* Every variable has the shape the code gives it.
TypeOK ==
  /\ clock \in Nat
  /\ call \in [Delivery -> {"new", "pending", "again", "ok", "failed"}]
  /\ tries \in [Delivery -> Nat]
  /\ claims \in [Delivery -> {"none", "claimed", "done"}]
  /\ bucket \in [Phone -> [tokens : 0 .. Full, last : Nat \cup {-1}]]
  /\ serving \in [Handler -> Serving \cup {Idle}]
  /\ sent \in [Delivery -> Nat]
  /\ spent \in [Phone -> Seq(Nat)]
  /\ unsure \in [Delivery -> BOOLEAN] /\ cut \in [Delivery -> BOOLEAN]
  /\ OneCaller

\* "The webhook id keeps a retry from sending twice" (ServeHTTP), as far as it
\* can: a code goes out twice only if WhatsApp took a message on and the answer
\* was lost, whoever gives up, stops, or delivers again while it is being sent.
SentOnce == \A c \in Delivery : ~unsure[c] => sent[c] <= 1

\* "200 when the code is on its way (or was already)" (ServeHTTP), unless a
\* caller gave up, the process stopped or the database failed in between: then
\* the delivery may stay claimed by nobody, and is answered 200 without a code.
OkMeansSent == \A c \in Delivery : call[c] = "ok" /\ ~cut[c] => sent[c] >= 1

\* "Releases the delivery so a retry can send" (failed): whatever the answer
\* that Supabase delivers again, the delivery is there to be claimed, with the
\* same exceptions.
RetryCanSend == \A c \in Delivery : call[c] = "again" /\ ~cut[c] => claims[c] = "none"

\* A bucket lets a burst through and one code per "every" (PerPhone), over any
\* stretch of time between two starts of the process: dropping idle buckets
\* gives nothing away.
PhoneLimit ==
  \A p \in Phone : \A i, j \in DOMAIN spent[p] :
    i <= j => (j - i + 1 - Burst) * Every <= spent[p][j] - spent[p][i]

=============================================================================
