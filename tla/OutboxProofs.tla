---------------------------- MODULE OutboxProofs ----------------------------
(***************************************************************************)
(* Proofs about Outbox for any changes, records and events, any number of  *)
(* publishers and any size of a batch: events leave in the order in which  *)
(* changes that did not overlap wrote them, and Outbox implements          *)
(* OutboxPromise.                                                          *)
(***************************************************************************)
EXTENDS Outbox, Sums, SequenceTheorems

-----------------------------------------------------------------------------
\* Types.

Works == [at : {"dispatching", "marking"}, batch : SUBSET Number, todo : SUBSET Number]

\* A publisher rests, is about to try for the lock, or has it.
LEMMA PubType ==
  ASSUME TypeOK, NEW p \in Publisher
  PROVE  \/ pub[p] = Ready \/ pub[p] = Resting \/ pub[p] = [at |-> "reading"]
         \/ pub[p] \in Works
BY DEF TypeOK, Works

\* One that dispatches or marks has a batch.
LEMMA WorksType ==
  ASSUME TypeOK, NEW p \in Publisher, pub[p].at \in {"dispatching", "marking"}
  PROVE  /\ pub[p] \in Works /\ pub[p].batch \subseteq Number /\ pub[p].todo \subseteq Number
         /\ pub[p] # Ready /\ pub[p] # Resting
<1>1. Ready.at = "ready" /\ Resting.at = "resting" /\ [at |-> "reading"].at = "reading"
      BY DEF Ready, Resting
<1>2. pub[p] # Ready /\ pub[p] # Resting /\ pub[p] # [at |-> "reading"]
      BY <1>1
<1>3. pub[p] \in Works
      BY <1>2, PubType
<1> QED BY <1>2, <1>3 DEF Works

\* What a batch holds is saved.
BatchSaved ==
  \A p \in Publisher : pub[p].at \in {"dispatching", "marking"} =>
    \A n \in pub[p].batch : log[n].state = "saved"

\* Numbers not drawn yet have no event.
Undrawn == \A n \in Number : log[n].state # "none" => n <= drawn

TInv == TypeOK /\ BatchSaved /\ Undrawn

\* The publisher that works on goes to its next step, or another one to its
\* first.
LEMMA PubStep ==
  ASSUME TypeOK, NEW p \in Publisher, NEW next, pub' = [pub EXCEPT ![p] = next],
         next \in {Ready, Resting, [at |-> "reading"]} \cup Works,
         \/ next \in {Ready, Resting}
         \/ pub[p] \notin {Ready, Resting}
         \/ \A q \in Publisher : pub[q] \in {Ready, Resting}
  PROVE  /\ pub' \in [Publisher -> {Ready, Resting, [at |-> "reading"]} \cup Works]
         /\ pub'[p] = next /\ \A q \in Publisher : q # p => pub'[q] = pub[q]
         /\ \A q, r \in Publisher :
              pub'[q] \notin {Ready, Resting} /\ pub'[r] \notin {Ready, Resting} => q = r
<1>1. pub \in [Publisher -> {Ready, Resting, [at |-> "reading"]} \cup Works]
      BY DEF TypeOK, Works
<1>2. /\ pub' \in [Publisher -> {Ready, Resting, [at |-> "reading"]} \cup Works]
      /\ pub'[p] = next /\ \A q \in Publisher : q # p => pub'[q] = pub[q]
      BY <1>1
<1>3. \A q, r \in Publisher :
        pub[q] \notin {Ready, Resting} /\ pub[r] \notin {Ready, Resting} => q = r
      BY DEF TypeOK
<1> QED BY <1>2, <1>3

\* What is known of an event.
LEMMA EntryFacts ==
  ASSUME TypeOK, NEW n \in Number, log[n].state # "none"
  PROVE  /\ log[n] \in Entry /\ log[n].state \in State /\ log[n].change \in Change
         /\ log[n].after \subseteq Change
<1>1. log[n] \in Entry \cup {NoEvent}
      BY DEF TypeOK
<1>2. log[n] # NoEvent
      BY DEF NoEvent
<1> QED BY <1>1, <1>2 DEF Entry

\* The end of a change's transaction changes nothing else of its events.
LEMMA EndStep ==
  ASSUME TypeOK, NEW c \in Change, NEW state \in {"saved", "gone"}, Ends(c, state)
  PROVE  /\ log' \in [Number -> Entry \cup {NoEvent}]
         /\ written' \in [Change -> Nat]
         /\ \A n \in Number :
              /\ n \in InOpen(c) => /\ log'[n].state = state /\ log'[n].change = c
                                    /\ log'[n].after = log[n].after
              /\ n \notin InOpen(c) => log'[n] = log[n]
         /\ \A n \in Number : log'[n].state # "none" =>
              /\ log[n].state # "none" /\ log'[n].change = log[n].change
              /\ log'[n].after = log[n].after
<1>1. \A n \in Number : log'[n] = IF n \in InOpen(c) THEN [log[n] EXCEPT !.state = state] ELSE log[n]
      BY DEF Ends
<1>2. ASSUME NEW n \in InOpen(c)
      PROVE  /\ n \in Number /\ log[n] \in Entry /\ log[n].state = "open" /\ log[n].change = c
             /\ log'[n] \in Entry /\ log'[n].state = state
             /\ log'[n].change = c /\ log'[n].after = log[n].after
  <2>1. n \in Number /\ log[n].state = "open" /\ log[n].change = c
        BY DEF InOpen
  <2>2. log[n] \in Entry
        BY <2>1, EntryFacts
  <2>3. log'[n] = [log[n] EXCEPT !.state = state]
        BY <1>1, <2>1
  <2> QED BY <2>1, <2>2, <2>3 DEF Entry, State
<1>3. log' \in [Number -> Entry \cup {NoEvent}]
  <2>1. \A n \in Number : (IF n \in InOpen(c) THEN [log[n] EXCEPT !.state = state] ELSE log[n]) \in Entry \cup {NoEvent}
    <3> TAKE n \in Number
    <3>1. CASE n \in InOpen(c)
          BY <1>1, <1>2, <3>1
    <3>2. CASE n \notin InOpen(c)
          BY <3>2 DEF TypeOK
    <3> QED BY <3>1, <3>2
  <2> QED BY <2>1 DEF Ends
<1>4. written' \in [Change -> Nat]
      BY DEF Ends, TypeOK
<1>5. \A n \in Number : n \notin InOpen(c) => log'[n] = log[n]
      BY <1>1
<1>6. \A n \in Number : log'[n].state # "none" =>
              /\ log[n].state # "none" /\ log'[n].change = log[n].change
              /\ log'[n].after = log[n].after
      BY <1>2, <1>5
<1> QED BY <1>2, <1>3, <1>4, <1>5, <1>6

LEMMA TInvInit == Init => TInv
<1> SUFFICES ASSUME Init PROVE TInv
    OBVIOUS
<1>1. \A n \in Number : log[n].state = "none"
      BY DEF Init, NoEvent
<1>2. log \in [Number -> Entry \cup {NoEvent}] /\ jobs \in Jobs
      BY DEF Init, NoJobs, Jobs
<1>3. pub = [p \in Publisher |-> Ready] /\ \A p \in Publisher : pub[p] = Ready
      BY DEF Init
<1>4. BatchSaved
      BY <1>3 DEF BatchSaved, Ready
<1> QED BY <1>1, <1>2, <1>3, <1>4 DEF Init, TInv, TypeOK, Undrawn

\* A step of a change.
LEMMA TInvChange ==
  ASSUME TInv, NEW c \in Change, Begin(c) \/ AppendEvent(c) \/ Save(c) \/ Undo(c)
  PROVE  TInv'
<1> USE DEF TInv
<1>1. CASE Begin(c)
  <2>1. stage' \in [Change -> {"idle", "open", "saved"}]
        BY <1>1 DEF Begin, TypeOK
  <2>2. TypeOK'
        BY <1>1, <2>1 DEF Begin, TypeOK
  <2>3. BatchSaved' /\ Undrawn'
        BY <1>1 DEF Begin, BatchSaved, Undrawn
  <2> QED BY <2>2, <2>3
<1>2. CASE AppendEvent(c)
  <2> DEFINE k == written[c] + 1
             e == EventOf(c, k)
             new == drawn + 1
  <2>1. k \in Nat \ {0} /\ k \in 1 .. Len(Emits[c]) /\ new \in Number /\ new \in Nat /\ new > drawn
        BY <1>2, OutboxAssumption DEF AppendEvent, TypeOK, Number
  <2>2. Emits[c][k] \in Type
        BY <2>1, OutboxAssumption
  <2>3. e \in Entry /\ e.state = "open"
        BY <2>1, <2>2 DEF EventOf, Entry, State
  <2>4. log' = [log EXCEPT ![new] = e] /\ drawn' = new
        BY <1>2 DEF AppendEvent
  <2>5. written' \in [Change -> Nat]
        BY <1>2 DEF AppendEvent, TypeOK
  <2>6. log[new].state = "none"
        BY <2>1 DEF Undrawn, TypeOK
  <2> HIDE DEF e, k, new
  <2>7. log' \in [Number -> Entry \cup {NoEvent}]
        BY <2>1, <2>3, <2>4 DEF TypeOK
  <2>8. /\ \A n \in Number : n # new => log'[n] = log[n]
        /\ \A n \in Number : log[n].state = "saved" => log'[n].state = "saved"
        BY <2>1, <2>3, <2>4, <2>6 DEF TypeOK
  <2>9. UNCHANGED <<stage, published, jobs, pub>>
        BY <1>2 DEF AppendEvent
  <2>10. published' \subseteq {n \in Number : log'[n].state = "saved"}
        BY <2>8, <2>9 DEF TypeOK
  <2>11. TypeOK'
        BY <2>1, <2>4, <2>5, <2>7, <2>9, <2>10 DEF TypeOK
  <2>12. BatchSaved'
        BY <2>8, <2>9, WorksType DEF BatchSaved
  <2>13. Undrawn'
        BY <2>1, <2>4, <2>8 DEF Undrawn, TypeOK, Number
  <2> QED BY <2>11, <2>12, <2>13
<1>3. ASSUME NEW state \in {"saved", "gone"}, Ends(c, state), stage' \in [Change -> {"idle", "open", "saved"}],
             UNCHANGED <<drawn, published, jobs, pub, failures>>
      PROVE  TInv'
  <2>1. /\ log' \in [Number -> Entry \cup {NoEvent}] /\ written' \in [Change -> Nat]
        /\ \A n \in Number : log'[n].state # "none" => log[n].state # "none"
        BY <1>3, EndStep
  <2>2. \A n \in Number : log[n].state = "saved" => n \notin InOpen(c)
        BY DEF InOpen
  <2>3. \A n \in Number : log[n].state = "saved" => log'[n].state = "saved"
        BY <1>3, <2>2, EndStep
  <2>4. published' \subseteq {n \in Number : log'[n].state = "saved"}
        BY <1>3, <2>3 DEF TypeOK
  <2>5. TypeOK'
        BY <1>3, <2>1, <2>4 DEF TypeOK
  <2>6. BatchSaved'
        BY <1>3, <2>3, WorksType DEF BatchSaved
  <2>7. Undrawn'
        BY <1>3, <2>1 DEF Undrawn
  <2> QED BY <2>5, <2>6, <2>7
<1>4. CASE Save(c)
  <2>1. stage' \in [Change -> {"idle", "open", "saved"}]
        BY <1>4 DEF Save, TypeOK
  <2> QED BY <1>3, <1>4, <2>1 DEF Save
<1>5. CASE Undo(c)
  <2>1. stage' \in [Change -> {"idle", "open", "saved"}]
        BY <1>5 DEF Undo, TypeOK
  <2> QED BY <1>3, <1>5, <2>1 DEF Undo
<1> QED BY <1>1, <1>2, <1>4, <1>5

\* A publisher's transaction that ends, or none.
LEMMA TInvPub ==
  ASSUME TInv, NEW p \in Publisher, NEW next, pub' = [pub EXCEPT ![p] = next],
         next \in {Ready, Resting, [at |-> "reading"]} \cup Works,
         \/ next \in {Ready, Resting}
         \/ pub[p] \notin {Ready, Resting}
         \/ \A q \in Publisher : pub[q] \in {Ready, Resting},
         next \in Works => \A n \in next.batch : log[n].state = "saved",
         jobs' \in Jobs, published' \subseteq {n \in Number : log[n].state = "saved"},
         UNCHANGED <<stage, written, drawn, log>>
  PROVE  TInv'
<1>1. TypeOK'
      BY PubStep DEF TInv, TypeOK, Works
<1>2. BatchSaved'
  <2> SUFFICES ASSUME NEW q \in Publisher, pub'[q].at \in {"dispatching", "marking"}
               PROVE  \A n \in pub'[q].batch : log[n].state = "saved"
      BY DEF BatchSaved
  <2>1. CASE q = p
    <3>1. pub'[p] = next
          BY PubStep DEF TInv
    <3>2. next \notin {Ready, Resting, [at |-> "reading"]}
          BY <2>1, <3>1 DEF Ready, Resting
    <3> QED BY <2>1, <3>1, <3>2
  <2>2. CASE q # p
    <3>1. pub'[q] = pub[q]
          BY <2>2, PubStep DEF TInv
    <3> QED BY <3>1 DEF TInv, BatchSaved
  <2> QED BY <2>1, <2>2
<1>3. Undrawn'
      BY DEF TInv, Undrawn
<1> QED BY <1>1, <1>2, <1>3 DEF TInv

\* What a dispatch makes of what its publisher has in hand.
LEMMA WorksStep ==
  ASSUME NEW w \in Works, NEW at \in {"dispatching", "marking"}, NEW todo \in SUBSET Number
  PROVE  [w EXCEPT !.at = at, !.todo = todo] \in Works /\ [w EXCEPT !.at = at, !.todo = todo].batch = w.batch
BY DEF Works

LEMMA InsertedType ==
  ASSUME NEW p \in Publisher, NEW n, NEW s
  PROVE  Inserted(p, n, s) \in Nat
BY DEF Inserted

LEMMA TInvPublisher ==
  ASSUME TInv, NEW p \in Publisher, Publish(p) \/ Fail(p)
  PROVE  TInv'
<1>1. /\ jobs \in Jobs /\ published \subseteq {n \in Number : log[n].state = "saved"}
      /\ Ready \in {Ready, Resting} /\ Resting \in {Ready, Resting}
      BY DEF TInv, TypeOK
<1>2. CASE TryLock(p)
  <2>1. CASE LockFree
    <3>1. \A q \in Publisher : pub[q] \in {Ready, Resting}
          BY <2>1, PubType DEF TInv, LockFree, Works
    <3>2. [at |-> "reading"] \notin Works
          BY DEF Works
    <3>3. pub' = [pub EXCEPT ![p] = [at |-> "reading"]] /\ UNCHANGED <<stage, written, drawn, log, published, jobs>>
          BY <1>2, <2>1 DEF TryLock
    <3> QED BY <1>1, <3>1, <3>2, <3>3, TInvPub
  <2>2. CASE ~LockFree
    <3>1. Resting \notin Works
          BY DEF Works, Resting
    <3>2. pub' = [pub EXCEPT ![p] = Resting] /\ UNCHANGED <<stage, written, drawn, log, published, jobs>>
          BY <1>2, <2>2 DEF TryLock
    <3> QED BY <1>1, <3>1, <3>2, TInvPub
  <2> QED BY <2>1, <2>2
<1>3. ASSUME pub[p].at \in {"reading", "dispatching", "marking"}
      PROVE  pub[p] \notin {Ready, Resting}
      BY <1>3 DEF Ready, Resting
<1>4. CASE Read(p)
  <2>1. pub[p].at = "reading" /\ UNCHANGED <<stage, written, drawn, log, published, jobs>>
        BY <1>4 DEF Read
  <2>2. Oldest(Waiting) \subseteq Number /\ \A n \in Oldest(Waiting) : log[n].state = "saved"
        BY DEF Oldest, Waiting
  <2> DEFINE taken == [at |-> "dispatching", batch |-> Oldest(Waiting), todo |-> Oldest(Waiting)]
  <2>3. CASE Waiting = {}
    <3>1. Resting \notin Works
          BY DEF Works, Resting
    <3>2. pub' = [pub EXCEPT ![p] = Resting]
          BY <1>4, <2>3 DEF Read
    <3> QED BY <1>1, <2>1, <3>1, <3>2, TInvPub
  <2>4. CASE Waiting # {}
    <3>1. taken \in Works
          BY <2>2 DEF Works
    <3>2. pub' = [pub EXCEPT ![p] = taken]
          BY <1>4, <2>4 DEF Read
    <3>3. taken.batch = Oldest(Waiting)
          OBVIOUS
    <3> HIDE DEF taken
    <3> QED BY <1>1, <1>3, <2>1, <2>2, <3>1, <3>2, <3>3, TInvPub
  <2> QED BY <2>3, <2>4
<1>5. CASE Dispatch(p)
  <2> DEFINE rest == pub[p].todo \ {Min(pub[p].todo)}
             at == IF rest = {} THEN "marking" ELSE "dispatching"
             next == [pub[p] EXCEPT !.at = at, !.todo = rest]
  <2>1. pub[p].at = "dispatching" /\ UNCHANGED <<stage, written, drawn, log, published, jobs>>
        BY <1>5 DEF Dispatch
  <2>2. pub[p] \in Works
        BY <2>1, WorksType DEF TInv
  <2>3. pub' = [pub EXCEPT ![p] = next]
        BY <1>5, <2>1 DEF Dispatch
  <2>4. rest \in SUBSET Number /\ at \in {"dispatching", "marking"}
        BY <2>2 DEF Works
  <2> HIDE DEF rest, at
  <2>5. next \in Works /\ next.batch = pub[p].batch
        BY <2>2, <2>4, WorksStep
  <2>6. \A n \in pub[p].batch : log[n].state = "saved"
        BY <2>1 DEF TInv, BatchSaved
  <2> HIDE DEF next
  <2> QED BY <1>1, <1>3, <2>1, <2>3, <2>5, <2>6, TInvPub
<1>6. CASE Mark(p)
  <2>1. pub[p].at = "marking" /\ UNCHANGED <<stage, written, drawn, log>>
        BY <1>6 DEF Mark
  <2>2. \A n \in pub[p].batch : log[n].state = "saved"
        BY <2>1 DEF TInv, BatchSaved
  <2>3. published' \subseteq {n \in Number : log[n].state = "saved"}
        BY <1>1, <1>6, <2>1, <2>2, WorksType DEF Mark, Marked, TInv
  <2>4. \A n \in Number, t \in Subscriber : jobs[n][t] + Inserted(p, n, t) \in Nat
        BY <1>1, InsertedType DEF Jobs
  <2>5. jobs' \in Jobs
        BY <1>6, <2>4 DEF Mark, Jobs
  <2>6. NextBatch(p) \in {Ready, Resting} /\ NextBatch(p) \notin Works
        BY DEF NextBatch, Works, Ready, Resting
  <2>7. pub' = [pub EXCEPT ![p] = NextBatch(p)]
        BY <1>6 DEF Mark
  <2>8. ASSUME NEW next \in {Ready, Resting}, next \notin Works, pub' = [pub EXCEPT ![p] = next]
        PROVE  TInv'
        BY <2>1, <2>3, <2>5, <2>8, TInvPub
  <2> QED BY <2>6, <2>7, <2>8
<1>7. CASE Wake(p)
  <2>1. Ready \notin Works
        BY DEF Works, Ready
  <2>2. pub' = [pub EXCEPT ![p] = Ready] /\ UNCHANGED <<stage, written, drawn, log, published, jobs>>
        BY <1>7 DEF Wake
  <2> QED BY <1>1, <2>1, <2>2, TInvPub
<1>8. CASE Fail(p)
  <2>1. Resting \notin Works
        BY DEF Works, Resting
  <2>2. pub' = [pub EXCEPT ![p] = Resting] /\ UNCHANGED <<stage, written, drawn, log, published>>
        BY <1>8 DEF Fail
  <2>3. \A n \in Number, t \in Subscriber : jobs[n][t] + Kept(p, n, t) \in Nat
        BY <1>1 DEF Jobs, Kept
  <2>4. jobs' \in Jobs
        BY <1>8, <2>3 DEF Fail, Jobs
  <2> QED BY <1>1, <2>1, <2>2, <2>4, TInvPub
<1> QED BY <1>2, <1>4, <1>5, <1>6, <1>7, <1>8 DEF Publish

\* The invariant above is inductive.
LEMMA TInvNext ==
  ASSUME TInv, [Next]_vars
  PROVE  TInv'
<1>1. CASE UNCHANGED vars
      BY <1>1 DEF vars, TInv, TypeOK, BatchSaved, Undrawn, InOpen
<1>2. CASE Next
      BY <1>2, TInvChange, TInvPublisher DEF Next
<1> QED BY <1>1, <1>2

\* Every variable keeps its shape, and the advisory lock has one holder
\* (PublishBatch), for any number of publishers.
THEOREM TypeCorrect == Spec => []TypeOK
<1>1. Init => TInv
      BY TInvInit
<1>2. TInv /\ [Next]_vars => TInv'
      BY TInvNext
<1>3. TInv => TypeOK
      BY DEF TInv
<1> QED BY <1>1, <1>2, <1>3, PTL DEF Spec

-----------------------------------------------------------------------------
\* The order of events.

\* A change is open as long as an event of it is.
OpenChange == \A n \in Number : log[n].state = "open" => stage[log[n].change] = "open"

\* What was saved when an event drew its number stays saved, its events have
\* lower numbers.
AfterLower ==
  \A n \in Number : log[n].state # "none" =>
    \A d \in log[n].after :
      /\ stage[d] = "saved"
      /\ \A m \in Number : log[m].state # "none" /\ log[m].change = d => m < n

\* All that comes before an event of S is in S or published.
Covered(S) ==
  \A n \in S : \A m \in Number :
    log[m].state = "saved" /\ log[m].change \in log[n].after => m \in published \cup S

\* So it is of what a publisher has in hand.
BatchKept == \A p \in Publisher : pub[p].at \in {"dispatching", "marking"} => Covered(pub[p].batch)

IInv == TInv /\ OpenChange /\ AfterLower /\ BatchKept /\ OrderKept

\* Nothing is published and no event is drawn or ended.
LEMMA KeptQuiet ==
  ASSUME IInv, TInv', UNCHANGED <<stage, log, published>>,
         \A p \in Publisher : pub'[p].at \in {"dispatching", "marking"} => Covered(pub'[p].batch)
  PROVE  IInv'
<1>1. OpenChange' /\ AfterLower' /\ OrderKept'
      BY DEF IInv, OpenChange, AfterLower, OrderKept
<1>2. BatchKept'
      BY DEF BatchKept, Covered
<1> QED BY <1>1, <1>2 DEF IInv

\* A change begins, writes an event, or ends: nothing is published, and no
\* event that is saved now was saved by a change that others came after.
LEMMA KeptChange ==
  ASSUME IInv, TInv', NEW c \in Change, stage[c] # "saved",
         \A d \in Change : d # c => stage'[d] = stage[d],
         UNCHANGED <<published, pub>>,
         \A n \in Number : log[n].state = "saved" => log'[n] = log[n],
         \A n \in Number : log'[n].state = "saved" /\ log[n].state # "saved" => log'[n].change = c,
         OpenChange', AfterLower'
  PROVE  IInv'
<1>1. ASSUME NEW n \in Number, log[n].state = "saved", NEW m \in Number, log'[m].state = "saved",
             log'[m].change \in log'[n].after
      PROVE  log[m].state = "saved" /\ log[m].change \in log[n].after
  <2>1. log'[n] = log[n] /\ log[n].state # "none"
        BY <1>1
  <2>2. stage[log'[m].change] = "saved"
        BY <1>1, <2>1 DEF IInv, AfterLower
  <2> QED BY <1>1, <2>1, <2>2
<1>2. BatchKept'
  <2> SUFFICES ASSUME NEW p \in Publisher, pub[p].at \in {"dispatching", "marking"}
               PROVE  Covered(pub[p].batch)'
      BY DEF BatchKept, Covered
  <2> DEFINE S == pub[p].batch
  <2>1. Covered(S) /\ \A n \in S : n \in Number /\ log[n].state = "saved"
        BY WorksType DEF IInv, TInv, BatchSaved, BatchKept
  <2>2. S' = S
        OBVIOUS
  <2> HIDE DEF S
  <2>3. Covered(S)'
        BY <1>1, <2>1, <2>2 DEF Covered
  <2> QED BY <2>3 DEF S
<1>3. OrderKept'
  <2>1. \A n \in published : n \in Number /\ log[n].state = "saved"
        BY DEF IInv, TInv, TypeOK
  <2> QED BY <1>1, <2>1 DEF IInv, OrderKept
<1> QED BY <1>2, <1>3 DEF IInv

\* A step of a change.
LEMMA IInvChange ==
  ASSUME IInv, NEW c \in Change, Begin(c) \/ AppendEvent(c) \/ Save(c) \/ Undo(c)
  PROVE  IInv'
<1>1. TInv /\ TInv' /\ TypeOK /\ stage \in [Change -> {"idle", "open", "saved"}]
      BY TInvChange DEF IInv, TInv, TypeOK
<1>2. stage[c] # "saved"
      BY DEF Begin, AppendEvent, Save, Undo
<1>3. CASE Begin(c)
  <2>1. stage' = [stage EXCEPT ![c] = "open"] /\ UNCHANGED <<log, published, pub>>
        BY <1>3 DEF Begin
  <2>2. OpenChange'
        BY <1>1, <2>1, EntryFacts DEF OpenChange, IInv
  <2>3. AfterLower'
        BY <1>1, <1>2, <2>1, EntryFacts DEF AfterLower, IInv
  <2>4. \A d \in Change : d # c => stage'[d] = stage[d]
        BY <1>1, <2>1
  <2> QED BY <1>1, <1>2, <2>1, <2>2, <2>3, <2>4, KeptChange
<1>4. CASE AppendEvent(c)
  <2> DEFINE e == EventOf(c, written[c] + 1)
             new == drawn + 1
  <2>1. new \in Number /\ log' = [log EXCEPT ![new] = e] /\ stage[c] = "open"
        /\ UNCHANGED <<stage, published, pub>>
        BY <1>1, <1>4, OutboxAssumption DEF AppendEvent, TypeOK, Number
  <2>2. e.state = "open" /\ e.change = c /\ e.after = {d \in Change : stage[d] = "saved"}
        BY DEF EventOf
  <2>3. \A n \in Number : log[n].state # "none" => n < new
        BY <1>1 DEF TInv, Undrawn, TypeOK, Number
  <2> HIDE DEF e, new
  <2>4. log'[new] = e /\ \A n \in Number : n # new => log'[n] = log[n]
        BY <1>1, <2>1 DEF TypeOK
  <2>5. log[new].state = "none"
        BY <2>1, <2>3 DEF Number
  <2>6. OpenChange'
        BY <2>1, <2>2, <2>4 DEF OpenChange, IInv
  <2>7. AfterLower'
    <3> SUFFICES ASSUME NEW n \in Number, log'[n].state # "none", NEW d \in log'[n].after
                 PROVE  /\ stage[d] = "saved"
                        /\ \A m \in Number : log'[m].state # "none" /\ log'[m].change = d => m < n
        BY <2>1 DEF AfterLower
    <3>1. stage[d] = "saved"
          BY <2>2, <2>4 DEF IInv, AfterLower
    <3>2. \A m \in Number : log'[m].change = d => m # new
          BY <2>1, <2>2, <2>4, <3>1
    <3>3. \A m \in Number : log[m].state # "none" /\ log[m].change = d => m < n
          BY <2>3, <2>4 DEF IInv, AfterLower
    <3> QED BY <2>4, <3>1, <3>2, <3>3
  <2> QED BY <1>1, <1>2, <2>1, <2>2, <2>4, <2>5, <2>6, <2>7, KeptChange
<1>5. ASSUME NEW state \in {"saved", "gone"}, Ends(c, state),
             \A d \in Change : d # c => stage'[d] = stage[d],
             UNCHANGED <<published, pub>>
      PROVE  IInv'
  <2>1. \A n \in Number : log'[n].state # "none" =>
              /\ log[n].state # "none" /\ log'[n].change = log[n].change
              /\ log'[n].after = log[n].after
        BY <1>1, <1>5, EndStep
  <2>2. \A n \in Number :
          /\ n \in InOpen(c) => log'[n].state = state /\ log'[n].change = c
          /\ n \notin InOpen(c) => log'[n] = log[n]
        BY <1>1, <1>5, EndStep
  <2>3. OpenChange'
    <3> SUFFICES ASSUME NEW n \in Number, log'[n].state = "open"
                 PROVE  stage'[log'[n].change] = "open"
        BY DEF OpenChange
    <3>1. n \notin InOpen(c) /\ log'[n] = log[n]
          BY <2>2
    <3>2. log[n].change # c /\ log[n].change \in Change
          BY <1>1, <3>1, EntryFacts DEF InOpen
    <3> QED BY <1>5, <3>1, <3>2 DEF IInv, OpenChange
  <2>4. AfterLower'
    <3> SUFFICES ASSUME NEW n \in Number, log'[n].state # "none", NEW d \in log'[n].after
                 PROVE  /\ stage'[d] = "saved"
                        /\ \A m \in Number : log'[m].state # "none" /\ log'[m].change = d => m < n
        BY DEF AfterLower
    <3>1. /\ stage[d] = "saved" /\ d \in Change
          /\ \A m \in Number : log[m].state # "none" /\ log[m].change = d => m < n
          BY <1>1, <2>1, EntryFacts DEF IInv, AfterLower
    <3>2. stage'[d] = "saved"
          BY <1>2, <1>5, <3>1
    <3> QED BY <2>1, <3>1, <3>2
  <2>5. \A n \in Number : log[n].state = "saved" => log'[n] = log[n]
        BY <2>2 DEF InOpen
  <2>6. \A n \in Number : log'[n].state = "saved" /\ log[n].state # "saved" => log'[n].change = c
        BY <2>2
  <2> QED BY <1>1, <1>2, <1>5, <2>3, <2>4, <2>5, <2>6, KeptChange
<1>6. CASE Save(c)
  <2>1. \A d \in Change : d # c => stage'[d] = stage[d]
        BY <1>1, <1>6 DEF Save
  <2> QED BY <1>5, <1>6, <2>1 DEF Save
<1>7. CASE Undo(c)
  <2>1. \A d \in Change : d # c => stage'[d] = stage[d]
        BY <1>1, <1>7 DEF Undo
  <2> QED BY <1>5, <1>7, <2>1 DEF Undo
<1> QED BY <1>3, <1>4, <1>6, <1>7

\* A batch takes no event and leaves an older one.
LEMMA OldestFirst ==
  ASSUME NEW S \in SUBSET Number, NEW n \in Oldest(S), NEW m \in S, m < n
  PROVE  m \in Oldest(S)
<1> DEFINE Below(k) == {x \in S : x < k}
<1>1. IsFiniteSet(Number) /\ Number \subseteq Nat /\ Batch \in Nat
      BY OutboxAssumption, FS_Interval DEF Number
<1>2. n \in S /\ Cardinality(Below(n)) < Batch
      BY DEF Oldest
<1>3. IsFiniteSet(Below(n)) /\ IsFiniteSet(Below(m))
      BY <1>1, FS_Subset
<1>4. ASSUME NEW x \in S, x < m
      PROVE  x < n
  <2>1. x \in Nat /\ m \in Nat /\ n \in Nat
        BY <1>1, <1>2
  <2> QED BY <1>4, <2>1
<1>5. Below(m) \subseteq Below(n)
      BY <1>4
<1> HIDE DEF Below
<1>6. Cardinality(Below(m)) <= Cardinality(Below(n))
      BY <1>3, <1>5, FS_Subset
<1>7. Cardinality(Below(m)) \in Nat /\ Cardinality(Below(n)) \in Nat
      BY <1>3, FS_CardinalityType
<1>8. Cardinality(Below(m)) < Batch
      BY <1>1, <1>2, <1>6, <1>7
<1> QED BY <1>8 DEF Below, Oldest

\* What a publisher reads leaves nothing behind that comes before.
LEMMA ReadCovers ==
  ASSUME IInv
  PROVE  Covered(Oldest(Waiting))
<1> SUFFICES ASSUME NEW n \in Oldest(Waiting), NEW m \in Number, log[m].state = "saved",
                    log[m].change \in log[n].after, m \notin published
             PROVE  m \in Oldest(Waiting)
    BY DEF Covered
<1>1. n \in Number /\ log[n].state = "saved"
      BY DEF Oldest, Waiting
<1>2. m < n
      BY <1>1 DEF IInv, AfterLower
<1>3. m \in Waiting /\ Waiting \in SUBSET Number
      BY DEF Waiting
<1> QED BY <1>2, <1>3, OldestFirst

\* A step of a publisher.
LEMMA IInvPublisher ==
  ASSUME IInv, NEW p \in Publisher, Publish(p) \/ Fail(p)
  PROVE  IInv'
<1>1. TInv /\ TInv' /\ TypeOK /\ UNCHANGED <<stage, log>>
      BY TInvPublisher DEF IInv, TInv, Publish, Fail, TryLock, Read, Dispatch, Mark, Wake
<1>2. ASSUME NEW next, pub' = [pub EXCEPT ![p] = next], published' = published,
             next.at \in {"dispatching", "marking"} => Covered(next.batch)
      PROVE  IInv'
  <2>1. pub'[p] = next /\ \A q \in Publisher : q # p => pub'[q] = pub[q]
        BY <1>1, <1>2 DEF TypeOK
  <2>2. \A q \in Publisher : pub'[q].at \in {"dispatching", "marking"} => Covered(pub'[q].batch)
        BY <1>2, <2>1 DEF IInv, BatchKept
  <2> QED BY <1>1, <1>2, <2>2, KeptQuiet
<1>3. ASSUME NEW next \in {Ready, Resting, [at |-> "reading"]}, pub' = [pub EXCEPT ![p] = next], published' = published
      PROVE  IInv'
  <2>1. next.at \notin {"dispatching", "marking"}
        BY <1>3 DEF Ready, Resting
  <2> QED BY <1>2, <1>3, <2>1
<1>4. CASE TryLock(p) \/ Wake(p) \/ Fail(p)
  <2>1. CASE TryLock(p) /\ LockFree
        BY <1>3, <2>1 DEF TryLock
  <2>2. CASE TryLock(p) /\ ~LockFree
        BY <1>3, <2>2 DEF TryLock
  <2>3. CASE Wake(p) \/ Fail(p)
        BY <1>3, <2>3 DEF Wake, Fail
  <2> QED BY <1>4, <2>1, <2>2, <2>3
<1>5. CASE Read(p)
  <2> DEFINE taken == [at |-> "dispatching", batch |-> Oldest(Waiting), todo |-> Oldest(Waiting)]
  <2>1. CASE Waiting = {}
        BY <1>3, <1>5, <2>1 DEF Read
  <2>2. CASE Waiting # {}
    <3>1. pub' = [pub EXCEPT ![p] = taken] /\ published' = published
          BY <1>5, <2>2 DEF Read
    <3>2. Covered(taken.batch)
          BY ReadCovers
    <3> HIDE DEF taken
    <3> QED BY <1>2, <3>1, <3>2
  <2> QED BY <2>1, <2>2
<1>6. CASE Dispatch(p)
  <2> DEFINE rest == pub[p].todo \ {Min(pub[p].todo)}
             at == IF rest = {} THEN "marking" ELSE "dispatching"
             next == [pub[p] EXCEPT !.at = at, !.todo = rest]
  <2>1. pub[p].at = "dispatching" /\ published' = published
        BY <1>6 DEF Dispatch
  <2>2. pub[p] \in Works
        BY <1>1, <2>1, WorksType
  <2>3. pub' = [pub EXCEPT ![p] = next]
        BY <1>6, <2>1 DEF Dispatch
  <2>4. rest \in SUBSET Number /\ at \in {"dispatching", "marking"}
        BY <2>2 DEF Works
  <2> HIDE DEF rest, at
  <2>5. next.batch = pub[p].batch
        BY <2>2, <2>4, WorksStep
  <2>6. Covered(pub[p].batch)
        BY <2>1 DEF IInv, BatchKept
  <2> HIDE DEF next
  <2> QED BY <1>2, <2>1, <2>3, <2>5, <2>6
<1>7. CASE Mark(p)
  <2>1. /\ published' = published \cup pub[p].batch /\ pub' = [pub EXCEPT ![p] = NextBatch(p)]
        /\ pub[p].at = "marking"
        BY <1>7 DEF Mark, Marked
  <2>2. Covered(pub[p].batch)
        BY <2>1 DEF IInv, BatchKept
  <2>3. OrderKept'
        BY <1>1, <2>1, <2>2 DEF IInv, OrderKept, Covered
  <2>4. NextBatch(p).at \notin {"dispatching", "marking"}
        BY DEF NextBatch, Ready, Resting
  <2>5. pub'[p] = NextBatch(p) /\ \A q \in Publisher : q # p => pub'[q] = pub[q]
        BY <1>1, <2>1 DEF TypeOK
  <2>6. BatchKept'
    <3> SUFFICES ASSUME NEW q \in Publisher, pub'[q].at \in {"dispatching", "marking"},
                        NEW n \in pub'[q].batch, NEW m \in Number,
                        log[m].state = "saved", log[m].change \in log[n].after
                 PROVE  m \in published' \cup pub'[q].batch
        BY <1>1 DEF BatchKept, Covered
    <3>1. q # p /\ pub'[q] = pub[q]
          BY <2>4, <2>5
    <3> QED BY <2>1, <3>1 DEF IInv, BatchKept, Covered
  <2>7. OpenChange' /\ AfterLower'
        BY <1>1 DEF IInv, OpenChange, AfterLower
  <2> QED BY <1>1, <2>3, <2>6, <2>7 DEF IInv
<1> QED BY <1>4, <1>5, <1>6, <1>7 DEF Publish

\* Events leave in the order of changes that did not overlap, though numbers
\* are drawn at the insert and seen at the commit (Publisher), for any number
\* of publishers, whether or not they have the lock.
THEOREM OrderAlwaysKept == Spec => []OrderKept
<1>1. Init => IInv
  <2> SUFFICES ASSUME Init PROVE IInv
      OBVIOUS
  <2>1. /\ \A n \in Number : log[n].state = "none"
        /\ \A p \in Publisher : pub[p].at = "ready"
        /\ published = {}
        BY DEF Init, NoEvent, Ready
  <2> QED BY <2>1, TInvInit DEF IInv, OpenChange, AfterLower, BatchKept, OrderKept
<1>2. IInv /\ [Next]_vars => IInv'
  <2> SUFFICES ASSUME IInv, [Next]_vars PROVE IInv'
      OBVIOUS
  <2>1. CASE UNCHANGED vars
    <3>1. TInv'
          BY <2>1, TInvNext DEF IInv
    <3>2. UNCHANGED <<stage, log, published, pub>>
          BY <2>1 DEF vars
    <3> QED BY <3>1, <3>2, KeptQuiet DEF IInv, BatchKept
  <2>2. CASE Next
        BY <2>2, IInvChange, IInvPublisher DEF Next
  <2> QED BY <2>1, <2>2
<1>3. IInv => OrderKept
      BY DEF IInv
<1> QED BY <1>1, <1>2, <1>3, PTL DEF Spec
-----------------------------------------------------------------------------
\* Numbers in ascending order, of two sets.

LEMMA AscendingIs ==
  ASSUME NEW S \in SUBSET Nat, IsFiniteSet(S), NEW n \in S, NEW k \in 1 .. Cardinality(S), RankIn(S, n) = k
  PROVE  Ascending(S)[k] = n
BY AscendingAt

LEMMA DisjointCount ==
  ASSUME NEW S, IsFiniteSet(S), NEW T, IsFiniteSet(T), S \cap T = {}
  PROVE  IsFiniteSet(S \cup T) /\ Cardinality(S \cup T) = Cardinality(S) + Cardinality(T)
<1>1. Cardinality(S \cap T) = 0
      BY FS_EmptySet
<1>2. /\ IsFiniteSet(S \cup T)
      /\ Cardinality(S \cup T) = Cardinality(S) + Cardinality(T) - Cardinality(S \cap T)
      BY FS_Union
<1>3. Cardinality(S) \in Nat /\ Cardinality(T) \in Nat
      BY FS_CardinalityType
<1> QED BY <1>1, <1>2, <1>3

\* What comes after all of S comes after it in the order, too.
LEMMA AscendingJoin ==
  ASSUME NEW S \in SUBSET Nat, IsFiniteSet(S), NEW T \in SUBSET Nat, IsFiniteSet(T),
         \A m \in S, n \in T : m < n
  PROVE  /\ Cardinality(S \cup T) = Cardinality(S) + Cardinality(T)
         /\ \A k \in 1 .. Cardinality(S) : Ascending(S \cup T)[k] = Ascending(S)[k]
         /\ \A k \in 1 .. Cardinality(T) : Ascending(S \cup T)[Cardinality(S) + k] = Ascending(T)[k]
<1>1. S \cap T = {}
  <2> SUFFICES ASSUME NEW x \in S, x \in T PROVE FALSE
      OBVIOUS
  <2>1. x \in Nat /\ x < x
        OBVIOUS
  <2> QED BY <2>1
<1>2. Cardinality(S) \in Nat /\ Cardinality(T) \in Nat
      BY FS_CardinalityType
<1>3. IsFiniteSet(S \cup T) /\ Cardinality(S \cup T) = Cardinality(S) + Cardinality(T)
      BY <1>1, DisjointCount
<1>4. \A m \in S : RankIn(S \cup T, m) = RankIn(S, m)
  <2> TAKE m \in S
  <2>1. {x \in S \cup T : x <= m} = {x \in S : x <= m}
    <3>1. \A x \in T : ~(x <= m)
      <4> TAKE x \in T
      <4>1. x \in Nat /\ m \in Nat /\ m < x
            OBVIOUS
      <4> QED BY <4>1
    <3> QED BY <3>1
  <2> QED BY <2>1 DEF RankIn
<1>5. \A n \in T : RankIn(S \cup T, n) = Cardinality(S) + RankIn(T, n)
  <2> TAKE n \in T
  <2> DEFINE U == {x \in T : x <= n}
  <2>1. {x \in S \cup T : x <= n} = S \cup U
    <3>1. \A x \in S : x <= n
      <4> TAKE x \in S
      <4>1. x \in Nat /\ n \in Nat /\ x < n
            OBVIOUS
      <4> QED BY <4>1
    <3> QED BY <3>1
  <2>2. S \cap U = {} /\ IsFiniteSet(U)
        BY <1>1, FS_Subset
  <2> HIDE DEF U
  <2>3. Cardinality(S \cup U) = Cardinality(S) + Cardinality(U)
        BY <2>2, DisjointCount
  <2> QED BY <2>1, <2>3 DEF RankIn, U
<1>6. S \cup T \in SUBSET Nat
      OBVIOUS
<1>7. ASSUME NEW k \in 1 .. Cardinality(S)
      PROVE  Ascending(S \cup T)[k] = Ascending(S)[k]
  <2>1. Ascending(S)[k] \in S /\ RankIn(S, Ascending(S)[k]) = k
        BY AscendingAt
  <2>2. k \in 1 .. Cardinality(S \cup T)
        BY <1>2, <1>3
  <2>3. RankIn(S \cup T, Ascending(S)[k]) = k /\ Ascending(S)[k] \in S \cup T
        BY <1>4, <2>1
  <2> QED BY <1>3, <1>6, <2>2, <2>3, AscendingIs
<1>8. ASSUME NEW k \in 1 .. Cardinality(T)
      PROVE  Ascending(S \cup T)[Cardinality(S) + k] = Ascending(T)[k]
  <2>1. Ascending(T)[k] \in T /\ RankIn(T, Ascending(T)[k]) = k
        BY AscendingAt
  <2>2. Cardinality(S) + k \in 1 .. Cardinality(S \cup T)
        BY <1>2, <1>3
  <2>3. RankIn(S \cup T, Ascending(T)[k]) = Cardinality(S) + k /\ Ascending(T)[k] \in S \cup T
        BY <1>5, <2>1
  <2> QED BY <1>3, <1>6, <2>2, <2>3, AscendingIs
<1> QED BY <1>3, <1>7, <1>8
-----------------------------------------------------------------------------
\* The promise.

\* Two open changes are of different records.
OneOpen ==
  \A c, d \in Change :
    stage[c] = "open" /\ stage[d] = "open" /\ RecordOf[c] = RecordOf[d] => c = d

\* The events of a change's last try, and what they are.
Live(c) == {n \in Number : log[n].state \in {"open", "saved"} /\ log[n].change = c}

EventsKept ==
  \A n \in Number : log[n].state # "none" =>
    /\ log[n].part \in 1 .. Len(Emits[log[n].change])
    /\ log[n].type = Emits[log[n].change][log[n].part]
    /\ log[n].state \in {"open", "saved"} => stage[log[n].change] = log[n].state

\* Each event that is written has one number, in the order they are written.
InOrder ==
  \A c \in Change :
    /\ \A n \in InOpen(c) : log[n].part <= written[c]
    /\ \A k \in 1 .. written[c] : \E n \in InOpen(c) : log[n].part = k
    /\ \A n, m \in Live(c) : n < m <=> log[n].part < log[m].part

\* An open change of a record comes after the saved ones.
OpenLast ==
  \A n, m \in Number :
    log[n].state = "open" /\ log[m].state = "saved" /\ RecordOf[log[n].change] = RecordOf[log[m].change]
      => m < n

\* A batch waits, is the first of each queue, and what is not dispatched yet is
\* of it.
BatchFirst ==
  \A p \in Publisher : pub[p].at \in {"dispatching", "marking"} =>
    /\ pub[p].batch # {} /\ pub[p].batch \subseteq Waiting /\ pub[p].todo \subseteq pub[p].batch
    /\ pub[p].todo = {} <=> pub[p].at = "marking"
    /\ \A n \in pub[p].batch : \A m \in Waiting :
         m < n /\ RecordOf[log[m].change] = RecordOf[log[n].change] => m \in pub[p].batch

\* What is not published has no jobs.
NotStarted == \A n \in Number : n \notin published => \A s \in Subscriber : jobs[n][s] = 0

RInv == TInv /\ OneOpen /\ EventsKept /\ InOrder /\ OpenLast /\ BatchFirst /\ NotStarted

\* What else is known of an event.
LEMMA PartFacts ==
  ASSUME RInv, NEW n \in Number, log[n].state # "none"
  PROVE  /\ log[n].state \in State /\ log[n].change \in Change /\ log[n].part \in Nat
         /\ log[n].part \in 1 .. Len(Emits[log[n].change])
         /\ log[n].state \in {"open", "saved"} => n \in Live(log[n].change)
<1>1. log[n] \in Entry /\ log[n].state \in State /\ log[n].change \in Change
      BY EntryFacts DEF RInv, TInv
<1> QED BY <1>1 DEF RInv, EventsKept, Entry, Live

\* The end of a change's transaction leaves everything of its events but their
\* state.
LEMMA EndKeeps ==
  ASSUME RInv, NEW c \in Change, NEW state \in {"saved", "gone"}, Ends(c, state)
  PROVE  \A n \in Number :
           /\ n \in InOpen(c) => log'[n].state = state
           /\ n \notin InOpen(c) => log'[n] = log[n]
           /\ log'[n].state # "none" <=> log[n].state # "none"
           /\ log'[n].state # "none" => /\ log'[n].change = log[n].change
                                        /\ log'[n].part = log[n].part /\ log'[n].type = log[n].type
<1> SUFFICES ASSUME NEW n \in Number
             PROVE  /\ n \in InOpen(c) => log'[n].state = state
                    /\ n \notin InOpen(c) => log'[n] = log[n]
                    /\ log'[n].state # "none" <=> log[n].state # "none"
                    /\ log'[n].state # "none" => /\ log'[n].change = log[n].change
                                                 /\ log'[n].part = log[n].part /\ log'[n].type = log[n].type
    OBVIOUS
<1>1. CASE n \in InOpen(c)
  <2>1. log[n].state = "open" /\ log'[n] = [log[n] EXCEPT !.state = state]
        BY <1>1 DEF Ends, InOpen
  <2>2. log[n] \in Entry
        BY <2>1, EntryFacts DEF RInv, TInv
  <2>3. /\ log'[n].state = state /\ log'[n].change = log[n].change
        /\ log'[n].part = log[n].part /\ log'[n].type = log[n].type
        BY <2>1, <2>2 DEF Entry
  <2> QED BY <1>1, <2>1, <2>3
<1>2. CASE n \notin InOpen(c)
      BY <1>2 DEF Ends
<1> QED BY <1>1, <1>2

\* The events of an open change are open.
LEMMA LiveOpen ==
  ASSUME RInv, NEW c \in Change
  PROVE  /\ InOpen(c) \subseteq Live(c)
         /\ stage[c] = "open" => Live(c) = InOpen(c)
         /\ stage[c] # "open" => InOpen(c) = {}
<1>1. \A n \in Live(c) : n \in Number /\ log[n].change = c /\ log[n].state = stage[c] /\ log[n].state # "none"
      BY DEF RInv, EventsKept, Live
<1>2. InOpen(c) \subseteq Live(c)
      BY DEF InOpen, Live
<1>3. stage[c] = "open" => Live(c) \subseteq InOpen(c)
      BY <1>1 DEF InOpen
<1>4. stage[c] # "open" => InOpen(c) = {}
      BY <1>1, <1>2 DEF InOpen
<1> QED BY <1>2, <1>3, <1>4

LEMMA RInvInit == Init => RInv
<1> SUFFICES ASSUME Init PROVE RInv
    OBVIOUS
<1>1. \A n \in Number : log[n].state = "none"
      BY DEF Init, NoEvent
<1>2. \A p \in Publisher : pub[p].at = "ready"
      BY DEF Init, Ready
<1>3. TInv
      BY TInvInit
<1>4. OneOpen /\ EventsKept /\ OpenLast
      BY <1>1 DEF Init, OneOpen, EventsKept, OpenLast
<1>5. InOrder
  <2>1. \A c \in Change : InOpen(c) = {} /\ Live(c) = {} /\ written[c] = 0
        BY <1>1 DEF InOpen, Live, Init
  <2> QED BY <2>1 DEF InOrder
<1>6. BatchFirst /\ NotStarted
      BY <1>2 DEF Init, BatchFirst, NotStarted, NoJobs
<1> QED BY <1>3, <1>4, <1>5, <1>6 DEF RInv

LEMMA RInvBegin ==
  ASSUME RInv, NEW c \in Change, Begin(c)
  PROVE  RInv'
<1>1. TInv' /\ UNCHANGED <<written, log, published, jobs, pub>> /\ stage[c] = "idle" /\ RecordFree(c)
      BY TInvChange DEF RInv, Begin
<1>2. stage'[c] = "open" /\ \A d \in Change : d # c => stage'[d] = stage[d]
      BY DEF RInv, TInv, TypeOK, Begin
<1>3. OneOpen'
      BY <1>1, <1>2 DEF RInv, OneOpen, RecordFree
<1>4. EventsKept'
  <2> SUFFICES ASSUME NEW n \in Number, log[n].state # "none"
               PROVE  log[n].state \in {"open", "saved"} => stage'[log[n].change] = log[n].state
      BY <1>1 DEF RInv, EventsKept
  <2>1. log[n].change \in Change
        BY PartFacts
  <2>2. log[n].state \in {"open", "saved"} => stage[log[n].change] = log[n].state
        BY DEF RInv, EventsKept
  <2> QED BY <1>1, <1>2, <2>1, <2>2
<1>5. InOrder' /\ OpenLast' /\ BatchFirst' /\ NotStarted'
      BY <1>1 DEF RInv, InOrder, InOpen, Live, OpenLast, BatchFirst, Waiting, NotStarted
<1> QED BY <1>1, <1>3, <1>4, <1>5 DEF RInv

\* What the insert of an event does.
LEMMA AppendDoes ==
  ASSUME TInv, NEW c \in Change, AppendEvent(c)
  PROVE  /\ drawn + 1 \in Number /\ log[drawn + 1].state = "none"
         /\ log'[drawn + 1] = EventOf(c, written[c] + 1)
         /\ \A n \in Number : n # drawn + 1 => log'[n] = log[n]
         /\ \A n \in Number : log[n].state # "none" => n < drawn + 1
         /\ written[c] \in Nat /\ written[c] + 1 \in 1 .. Len(Emits[c]) /\ stage[c] = "open"
         /\ written'[c] = written[c] + 1 /\ \A d \in Change : d # c => written'[d] = written[d]
         /\ UNCHANGED <<stage, published, jobs, pub>>
<1> DEFINE new == drawn + 1
           e == EventOf(c, written[c] + 1)
<1>1. written[c] \in Nat /\ drawn \in Nat /\ MaxNumber \in Nat /\ Len(Emits[c]) \in Nat
      BY OutboxAssumption DEF TInv, TypeOK
<1>2. new \in Number /\ new \in Nat /\ new > drawn /\ written[c] + 1 \in 1 .. Len(Emits[c])
      BY <1>1 DEF AppendEvent, Number
<1>3. log' = [log EXCEPT ![new] = e] /\ stage[c] = "open" /\ UNCHANGED <<stage, published, jobs, pub>>
      BY DEF AppendEvent
<1>4. written'[c] = written[c] + 1 /\ \A d \in Change : d # c => written'[d] = written[d]
      BY DEF AppendEvent, TInv, TypeOK
<1>5. \A n \in Number : log[n].state # "none" => n < new
      BY <1>1 DEF TInv, Undrawn, Number
<1>6. log[new].state = "none"
      BY <1>2, <1>5
<1> HIDE DEF e
<1>7. log'[new] = e /\ \A n \in Number : n # new => log'[n] = log[n]
      BY <1>2, <1>3 DEF TInv, TypeOK
<1> QED BY <1>1, <1>2, <1>3, <1>4, <1>5, <1>6, <1>7 DEF e

LEMMA RInvAppend ==
  ASSUME RInv, NEW c \in Change, AppendEvent(c)
  PROVE  RInv'
<1> DEFINE new == drawn + 1
           last == written[c] + 1
<1>1. TInv /\ TInv' /\ new \in Number /\ log[new].state = "none"
      BY TInvChange, AppendDoes DEF RInv
<1>2. /\ log'[new].state = "open" /\ log'[new].change = c /\ log'[new].part = last
      /\ log'[new].type = Emits[c][last]
  <2>1. log'[new] = EventOf(c, last)
        BY <1>1, AppendDoes
  <2> HIDE DEF new, last
  <2>2. /\ EventOf(c, last).state = "open" /\ EventOf(c, last).change = c
        /\ EventOf(c, last).part = last /\ EventOf(c, last).type = Emits[c][last]
        BY DEF EventOf
  <2> QED BY <2>1, <2>2
<1>3. /\ \A n \in Number : n # new => log'[n] = log[n]
      /\ \A n \in Number : log[n].state # "none" => n < new
      /\ last \in 1 .. Len(Emits[c]) /\ stage[c] = "open" /\ written[c] \in Nat
      /\ written'[c] = last /\ \A d \in Change : d # c => written'[d] = written[d]
      /\ UNCHANGED <<stage, published, jobs, pub>>
      BY <1>1, AppendDoes
<1>4. new \in Nat /\ last \in Nat /\ last > written[c]
      BY <1>1, <1>3 DEF Number
<1> HIDE DEF new, last
<1>5. OneOpen'
      BY <1>3 DEF RInv, OneOpen
<1>6. EventsKept'
  <2>1. ASSUME NEW n \in Number, n # new, log'[n].state # "none"
        PROVE  /\ log'[n].part \in 1 .. Len(Emits[log'[n].change])
               /\ log'[n].type = Emits[log'[n].change][log'[n].part]
               /\ log'[n].state \in {"open", "saved"} => stage'[log'[n].change] = log'[n].state
        BY <1>3, <2>1 DEF RInv, EventsKept
  <2> QED BY <1>2, <1>3, <2>1 DEF EventsKept
<1>7. InOrder'
  <2>1. ASSUME NEW d \in Change, d # c
        PROVE  InOpen(d)' = InOpen(d) /\ Live(d)' = Live(d)
        BY <1>1, <1>2, <1>3, <2>1 DEF InOpen, Live
  <2>2. InOpen(c)' = InOpen(c) \cup {new} /\ Live(c)' = Live(c) \cup {new} /\ new \notin Live(c)
        BY <1>1, <1>2, <1>3 DEF InOpen, Live
  <2>3. InOpen(c) = Live(c) /\ \A n \in Live(c) : n \in Number /\ log'[n] = log[n] /\ n < new /\ log[n].part \in Nat
    <3>1. InOpen(c) = Live(c)
          BY <1>3, LiveOpen
    <3>2. \A n \in Live(c) : n \in Number /\ log[n].state # "none"
          BY DEF Live
    <3>3. \A n \in Live(c) : n # new
          BY <2>2
    <3> QED BY <1>3, <3>1, <3>2, <3>3, PartFacts
  <2>4. \A n \in Live(c) : log[n].part <= written[c]
        BY <2>3 DEF RInv, InOrder
  <2>5. \A n \in Live(c) : log[n].part < last
        BY <1>3, <1>4, <2>3, <2>4
  <2>6. \A k \in 1 .. last : k = last \/ k \in 1 .. written[c]
        BY <1>3, <1>4 DEF last
  <2>7. ASSUME NEW n \in InOpen(c)'
        PROVE  log'[n].part <= last
        BY <1>2, <1>4, <2>2, <2>3, <2>5, <2>7
  <2>8. ASSUME NEW k \in 1 .. last
        PROVE  \E n \in InOpen(c)' : log'[n].part = k
    <3>1. CASE k = last
          BY <1>2, <2>2, <3>1
    <3>2. CASE k \in 1 .. written[c]
      <4>1. PICK n \in InOpen(c) : log[n].part = k
            BY <3>2 DEF RInv, InOrder
      <4> QED BY <2>2, <2>3, <4>1
    <3> QED BY <2>6, <3>1, <3>2
  <2>9. ASSUME NEW n \in Live(c)', NEW m \in Live(c)'
        PROVE  n < m <=> log'[n].part < log'[m].part
    <3>1. CASE n = new /\ m = new
          BY <1>2, <1>4, <3>1
    <3>2. CASE n = new /\ m \in Live(c)
      <4>1. m < new /\ log'[m].part < last /\ m \in Nat /\ log'[m].part \in Nat
            BY <2>3, <2>5, <3>2 DEF Number
      <4> QED BY <1>2, <1>4, <3>2, <4>1
    <3>3. CASE n \in Live(c) /\ m = new
          BY <1>2, <2>3, <2>5, <3>3
    <3>4. CASE n \in Live(c) /\ m \in Live(c)
          BY <2>3, <3>4 DEF RInv, InOrder
    <3> QED BY <2>2, <3>1, <3>2, <3>3, <3>4
  <2>10. ASSUME NEW d \in Change
         PROVE  /\ \A n \in InOpen(d)' : log'[n].part <= written'[d]
                /\ \A k \in 1 .. written'[d] : \E n \in InOpen(d)' : log'[n].part = k
                /\ \A n, m \in Live(d)' : n < m <=> log'[n].part < log'[m].part
    <3>1. CASE d = c
          BY <1>3, <2>7, <2>8, <2>9, <3>1
    <3>2. CASE d # c
      <4>1. \A n \in Live(d) : n # new
            BY <1>1 DEF Live
      <4>2. \A n \in Live(d) : log'[n] = log[n]
            BY <1>3, <4>1 DEF Live
      <4>3. InOpen(d) \subseteq Live(d)
            BY LiveOpen
      <4> QED BY <1>3, <2>1, <3>2, <4>2, <4>3 DEF RInv, InOrder
    <3> QED BY <3>1, <3>2
  <2> QED BY <2>10 DEF InOrder
<1>8. OpenLast'
  <2> SUFFICES ASSUME NEW n \in Number, NEW m \in Number, log'[n].state = "open", log'[m].state = "saved",
                      RecordOf[log'[n].change] = RecordOf[log'[m].change]
               PROVE  m < n
      BY DEF OpenLast
  <2>1. m # new /\ log'[m] = log[m]
        BY <1>2, <1>3
  <2>2. CASE n = new
        BY <1>3, <2>1, <2>2
  <2>3. CASE n # new
        BY <1>3, <2>1, <2>3 DEF RInv, OpenLast
  <2> QED BY <2>2, <2>3
<1>9. BatchFirst'
  <2>1. Waiting' = Waiting
        BY <1>1, <1>2, <1>3 DEF Waiting
  <2>2. \A n \in Waiting : log'[n] = log[n]
        BY <1>1, <1>3 DEF Waiting
  <2>3. pub' = pub
        BY <1>3
  <2> QED BY <2>1, <2>2, <2>3 DEF RInv, BatchFirst
<1>10. NotStarted'
      BY <1>3 DEF RInv, NotStarted
<1> QED BY <1>1, <1>5, <1>6, <1>7, <1>8, <1>9, <1>10 DEF RInv

\* What a record's change leaves of the batches when its transaction ends.
LEMMA RInvEnds ==
  ASSUME RInv, NEW c \in Change, NEW state \in {"saved", "gone"}, Ends(c, state), TInv',
         stage[c] = "open", stage'[c] = IF state = "saved" THEN "saved" ELSE "idle",
         \A d \in Change : d # c => stage'[d] = stage[d],
         UNCHANGED <<published, jobs, pub>>
  PROVE  RInv'
<1>1. \A n \in Number :
        /\ n \in InOpen(c) => log'[n].state = state
        /\ n \notin InOpen(c) => log'[n] = log[n]
        /\ log'[n].state # "none" <=> log[n].state # "none"
        /\ log'[n].state # "none" => /\ log'[n].change = log[n].change
                                     /\ log'[n].part = log[n].part /\ log'[n].type = log[n].type
      BY EndKeeps
<1>2. Live(c) = InOpen(c)
      BY LiveOpen
<1>3. ASSUME NEW n \in Number, n \notin InOpen(c), log[n].state \in {"open", "saved"}
      PROVE  log[n].change \in Change /\ log[n].change # c
  <2>1. log[n].state # "none"
        BY <1>3
  <2>2. log[n].change # c
        BY <1>2, <1>3 DEF Live
  <2> QED BY <2>1, <2>2, PartFacts
<1>4. ASSUME NEW n \in InOpen(c)
      PROVE  n \in Number /\ log[n].state = "open" /\ log[n].change = c
      BY DEF InOpen
<1>5. OneOpen'
      BY DEF RInv, OneOpen
<1>6. EventsKept'
  <2> SUFFICES ASSUME NEW n \in Number, log'[n].state # "none"
               PROVE  /\ log'[n].part \in 1 .. Len(Emits[log'[n].change])
                      /\ log'[n].type = Emits[log'[n].change][log'[n].part]
                      /\ log'[n].state \in {"open", "saved"} => stage'[log'[n].change] = log'[n].state
      BY DEF EventsKept
  <2>1. /\ log'[n].part \in 1 .. Len(Emits[log'[n].change])
        /\ log'[n].type = Emits[log'[n].change][log'[n].part]
        BY <1>1 DEF RInv, EventsKept
  <2>2. CASE n \in InOpen(c)
        BY <1>1, <1>4, <2>1, <2>2
  <2>3. CASE n \notin InOpen(c)
        BY <1>1, <1>3, <2>1, <2>3 DEF RInv, EventsKept
  <2> QED BY <2>2, <2>3
<1>7. written'[c] = 0 /\ \A d \in Change : d # c => written'[d] = written[d]
      BY DEF Ends, RInv, TInv, TypeOK
<1>8. InOpen(c)' = {}
      BY <1>1 DEF InOpen
<1>9. ASSUME NEW d \in Change, d # c
      PROVE  InOpen(d)' = InOpen(d) /\ Live(d)' = Live(d)
      BY <1>1, <1>4, <1>9 DEF InOpen, Live
<1>10. Live(c)' \subseteq Live(c)
      BY <1>1, <1>4 DEF Live
<1>11. InOrder'
  <2>1. \A d \in Change : \A n \in Live(d)' : n \in Live(d) /\ log'[n].part = log[n].part
    <3>1. \A d \in Change : Live(d)' \subseteq Live(d)
          BY <1>9, <1>10
    <3>2. \A d \in Change : \A n \in Live(d) : n \in Number /\ log[n].state # "none"
          BY DEF Live
    <3> QED BY <1>1, <3>1, <3>2
  <2>2. \A d \in Change : \A n, m \in Live(d)' : n < m <=> log'[n].part < log'[m].part
        BY <2>1 DEF RInv, InOrder
  <2>3. ASSUME NEW d \in Change, d # c
        PROVE  /\ \A n \in InOpen(d)' : log'[n].part <= written'[d]
               /\ \A k \in 1 .. written'[d] : \E n \in InOpen(d)' : log'[n].part = k
    <3>1. \A n \in InOpen(d) : n \in Number /\ log[n].state # "none"
          BY DEF InOpen
    <3> QED BY <1>1, <1>7, <1>9, <2>3, <3>1 DEF RInv, InOrder
  <2>4. /\ \A n \in InOpen(c)' : log'[n].part <= written'[c]
        /\ \A k \in 1 .. written'[c] : \E n \in InOpen(c)' : log'[n].part = k
        BY <1>7, <1>8
  <2> QED BY <2>2, <2>3, <2>4 DEF InOrder
<1>12. OpenLast'
  <2> SUFFICES ASSUME NEW n \in Number, NEW m \in Number, log'[n].state = "open", log'[m].state = "saved",
                      RecordOf[log'[n].change] = RecordOf[log'[m].change]
               PROVE  m < n
      BY DEF OpenLast
  <2>1. n \notin InOpen(c) /\ log'[n] = log[n]
        BY <1>1
  <2>2. CASE m \in InOpen(c)
    <3>1. log[n].change \in Change /\ log[n].change # c /\ stage[log[n].change] = "open"
          BY <1>3, <2>1 DEF RInv, EventsKept
    <3>2. log'[m].change = c
          BY <1>1, <1>4, <2>2
    <3> QED BY <2>1, <3>1, <3>2 DEF RInv, OneOpen
  <2>3. CASE m \notin InOpen(c)
    <3>1. log'[m] = log[m]
          BY <1>1, <2>3
    <3> QED BY <2>1, <3>1 DEF RInv, OpenLast
  <2> QED BY <2>2, <2>3
<1>13. BatchFirst'
  <2>1. Waiting \subseteq Waiting' /\ \A n \in Waiting : log'[n] = log[n] /\ n \in Number /\ log[n].state = "saved"
        BY <1>1, <1>4 DEF Waiting
  <2>2. ASSUME NEW n \in Waiting, NEW m \in Waiting', RecordOf[log'[m].change] = RecordOf[log'[n].change], m < n
        PROVE  m \in Waiting /\ RecordOf[log[m].change] = RecordOf[log[n].change]
    <3>1. m \in Number /\ m \notin published /\ log'[m].state = "saved"
          BY DEF Waiting
    <3>2. CASE m \in InOpen(c)
      <4>1. log[m].state = "open" /\ log'[m].change = log[m].change
            BY <1>1, <1>4, <3>1, <3>2
      <4>2. n < m
            BY <2>1, <2>2, <3>1, <4>1 DEF RInv, OpenLast
      <4>3. n \in Nat /\ m \in Nat
            BY <2>1, <3>1 DEF Number
      <4> QED BY <2>2, <4>2, <4>3
    <3>3. CASE m \notin InOpen(c)
      <4>1. log'[m] = log[m]
            BY <1>1, <3>1, <3>3
      <4> QED BY <2>1, <2>2, <3>1, <4>1 DEF Waiting
    <3> QED BY <3>2, <3>3
  <2>3. pub' = pub
        OBVIOUS
  <2> QED BY <2>1, <2>2, <2>3 DEF RInv, BatchFirst
<1>14. NotStarted'
      BY DEF RInv, NotStarted
<1> QED BY <1>5, <1>6, <1>11, <1>12, <1>13, <1>14 DEF RInv

LEMMA RInvChange ==
  ASSUME RInv, NEW c \in Change, Begin(c) \/ AppendEvent(c) \/ Save(c) \/ Undo(c)
  PROVE  RInv'
<1>1. TInv' /\ stage \in [Change -> {"idle", "open", "saved"}]
      BY TInvChange DEF RInv, TInv, TypeOK
<1>2. CASE Save(c)
  <2>1. stage'[c] = "saved" /\ \A d \in Change : d # c => stage'[d] = stage[d]
        BY <1>1, <1>2 DEF Save
  <2>2. Ends(c, "saved") /\ stage[c] = "open" /\ UNCHANGED <<published, jobs, pub>>
        BY <1>2 DEF Save
  <2> QED BY <1>1, <2>1, <2>2, RInvEnds
<1>3. CASE Undo(c)
  <2>1. stage'[c] = "idle" /\ \A d \in Change : d # c => stage'[d] = stage[d]
        BY <1>1, <1>3 DEF Undo
  <2>2. Ends(c, "gone") /\ stage[c] = "open" /\ UNCHANGED <<published, jobs, pub>>
        BY <1>3 DEF Undo
  <2> QED BY <1>1, <2>1, <2>2, RInvEnds
<1> QED BY <1>2, <1>3, RInvBegin, RInvAppend

\* A publisher's step changes nothing of the changes.
LEMMA RInvPub ==
  ASSUME RInv, TInv', UNCHANGED <<stage, written, drawn, log>>, BatchFirst', NotStarted'
  PROVE  RInv'
BY DEF RInv, OneOpen, EventsKept, InOrder, InOpen, Live, OpenLast

\* It goes on with what satisfies BatchFirst, and publishes nothing.
LEMMA RInvGoesOn ==
  ASSUME RInv, TInv', NEW p \in Publisher, NEW next, pub' = [pub EXCEPT ![p] = next],
         UNCHANGED <<stage, written, drawn, log, published, jobs>>,
         next.at \in {"dispatching", "marking"} =>
           /\ next.batch # {} /\ next.batch \subseteq Waiting /\ next.todo \subseteq next.batch
           /\ next.todo = {} <=> next.at = "marking"
           /\ \A n \in next.batch : \A m \in Waiting :
                m < n /\ RecordOf[log[m].change] = RecordOf[log[n].change] => m \in next.batch
  PROVE  RInv'
<1>1. pub'[p] = next /\ \A q \in Publisher : q # p => pub'[q] = pub[q]
      BY DEF RInv, TInv, TypeOK
<1>2. Waiting' = Waiting
      BY DEF Waiting
<1>3. BatchFirst'
  <2> SUFFICES ASSUME NEW q \in Publisher, pub'[q].at \in {"dispatching", "marking"}
               PROVE  /\ pub'[q].batch # {} /\ pub'[q].batch \subseteq Waiting /\ pub'[q].todo \subseteq pub'[q].batch
                      /\ pub'[q].todo = {} <=> pub'[q].at = "marking"
                      /\ \A n \in pub'[q].batch : \A m \in Waiting :
                           m < n /\ RecordOf[log[m].change] = RecordOf[log[n].change] => m \in pub'[q].batch
      BY <1>2 DEF BatchFirst
  <2>1. CASE q = p
        BY <1>1, <2>1
  <2>2. CASE q # p
        BY <1>1, <2>2 DEF RInv, BatchFirst
  <2> QED BY <2>1, <2>2
<1>4. NotStarted'
      BY DEF RInv, NotStarted
<1> QED BY <1>3, <1>4, RInvPub

\* The first of what waits are some, and the first of each queue.
LEMMA OldestIs ==
  ASSUME NEW S \in SUBSET Number, S # {}
  PROVE  /\ Oldest(S) # {} /\ Oldest(S) \subseteq S
         /\ \A n \in Oldest(S) : \A m \in S : m < n => m \in Oldest(S)
<1>1. PICK least \in S : \A n \in S : least <= n
  <2>1. S \subseteq Nat
        BY DEF Number
  <2> QED BY <2>1, SmallestNumber
<1>2. {m \in S : m < least} = {}
  <2> SUFFICES ASSUME NEW m \in S, m < least PROVE FALSE
      OBVIOUS
  <2>1. m \in Nat /\ least \in Nat /\ least <= m
        BY <1>1 DEF Number
  <2> QED BY <2>1
<1>3. Cardinality({m \in S : m < least}) = 0 /\ 0 < Batch
  <2>1. Cardinality({}) = 0
        BY FS_EmptySet
  <2>2. 0 < Batch
        BY OutboxAssumption
  <2> QED BY <1>2, <2>1, <2>2
<1>4. least \in Oldest(S)
      BY <1>3 DEF Oldest
<1> QED BY <1>4, OldestFirst DEF Oldest

LEMMA RInvPublisher ==
  ASSUME RInv, NEW p \in Publisher, Publish(p) \/ Fail(p)
  PROVE  RInv'
<1>1. TInv /\ TInv' /\ TypeOK /\ UNCHANGED <<stage, written, drawn, log>>
      BY TInvPublisher DEF RInv, TInv, Publish, Fail, TryLock, Read, Dispatch, Mark, Wake
<1>2. ASSUME NEW next \in {Ready, Resting, [at |-> "reading"]}, pub' = [pub EXCEPT ![p] = next],
             UNCHANGED <<published, jobs>>
      PROVE  RInv'
  <2>1. next.at \notin {"dispatching", "marking"}
        BY <1>2 DEF Ready, Resting
  <2> QED BY <1>1, <1>2, <2>1, RInvGoesOn
<1>3. CASE TryLock(p) \/ Wake(p)
  <2>1. CASE TryLock(p) /\ LockFree
        BY <1>2, <2>1 DEF TryLock
  <2>2. CASE TryLock(p) /\ ~LockFree
        BY <1>2, <2>2 DEF TryLock
  <2>3. CASE Wake(p)
        BY <1>2, <2>3 DEF Wake
  <2> QED BY <1>3, <2>1, <2>2, <2>3
<1>4. CASE Fail(p)
  <2>1. \A n \in Number, s \in Subscriber : jobs'[n][s] = jobs[n][s] + 0 /\ jobs[n][s] \in Nat
        BY <1>1, <1>4 DEF Fail, Kept, TypeOK, Jobs
  <2>2. NotStarted'
        BY <1>4, <2>1 DEF Fail, RInv, NotStarted
  <2>3. pub' = [pub EXCEPT ![p] = Resting] /\ published' = published
        BY <1>4 DEF Fail
  <2>4. BatchFirst'
    <3>1. pub'[p] = Resting /\ \A q \in Publisher : q # p => pub'[q] = pub[q]
          BY <1>1, <2>3 DEF TypeOK
    <3>2. \A q \in Publisher : pub'[q].at \in {"dispatching", "marking"} => pub'[q] = pub[q]
          BY <3>1 DEF Resting
    <3>3. Waiting' = Waiting
          BY <1>1, <2>3 DEF Waiting
    <3> QED BY <1>1, <3>2, <3>3 DEF RInv, BatchFirst
  <2> QED BY <1>1, <2>2, <2>4, RInvPub
<1>5. CASE Read(p)
  <2> DEFINE taken == [at |-> "dispatching", batch |-> Oldest(Waiting), todo |-> Oldest(Waiting)]
  <2>1. CASE Waiting = {}
        BY <1>2, <1>5, <2>1 DEF Read
  <2>2. CASE Waiting # {}
    <3>1. pub' = [pub EXCEPT ![p] = taken] /\ UNCHANGED <<published, jobs>>
          BY <1>5, <2>2 DEF Read
    <3>2. /\ Oldest(Waiting) # {} /\ Oldest(Waiting) \subseteq Waiting
          /\ \A n \in Oldest(Waiting) : \A m \in Waiting : m < n => m \in Oldest(Waiting)
      <4>1. Waiting \in SUBSET Number
            BY DEF Waiting
      <4> QED BY <2>2, <4>1, OldestIs
    <3>3. taken.at = "dispatching" /\ taken.batch = Oldest(Waiting) /\ taken.todo = Oldest(Waiting)
          OBVIOUS
    <3> HIDE DEF taken
    <3> QED BY <1>1, <3>1, <3>2, <3>3, RInvGoesOn
  <2> QED BY <2>1, <2>2
<1>6. CASE Dispatch(p)
  <2> DEFINE rest == pub[p].todo \ {Min(pub[p].todo)}
             at == IF rest = {} THEN "marking" ELSE "dispatching"
             next == [pub[p] EXCEPT !.at = at, !.todo = rest]
  <2>1. pub[p].at = "dispatching" /\ UNCHANGED <<published, jobs>>
        BY <1>6 DEF Dispatch
  <2>2. pub[p] \in Works
        BY <1>1, <2>1, WorksType
  <2>3. pub' = [pub EXCEPT ![p] = next]
        BY <1>6, <2>1 DEF Dispatch
  <2>4. rest \in SUBSET Number /\ at \in {"dispatching", "marking"} /\ rest \subseteq pub[p].todo
        BY <2>2 DEF Works
  <2>5. rest = {} <=> at = "marking"
        OBVIOUS
  <2> HIDE DEF rest, at
  <2>6. next.batch = pub[p].batch
        BY <2>2, <2>4, WorksStep
  <2>7. next.at = at /\ next.todo = rest
        BY <2>2, <2>4 DEF Works
  <2>8. /\ pub[p].batch # {} /\ pub[p].batch \subseteq Waiting /\ rest \subseteq pub[p].batch
        /\ \A n \in pub[p].batch : \A m \in Waiting :
             m < n /\ RecordOf[log[m].change] = RecordOf[log[n].change] => m \in pub[p].batch
        BY <2>1, <2>4 DEF RInv, BatchFirst
  <2> HIDE DEF next
  <2> QED BY <1>1, <2>1, <2>3, <2>5, <2>6, <2>7, <2>8, RInvGoesOn
<1>7. CASE Mark(p)
  <2>1. /\ published' = published \cup pub[p].batch /\ pub' = [pub EXCEPT ![p] = NextBatch(p)]
        /\ pub[p].at = "marking"
        BY <1>7 DEF Mark, Marked
  <2>2. NextBatch(p).at \notin {"dispatching", "marking"}
        BY DEF NextBatch, Ready, Resting
  <2>3. pub'[p] = NextBatch(p) /\ \A q \in Publisher : q # p => pub'[q] = pub[q]
        BY <1>1, <2>1 DEF TypeOK
  <2>4. BatchFirst'
    <3> SUFFICES ASSUME NEW q \in Publisher, pub'[q].at \in {"dispatching", "marking"}
                 PROVE  FALSE
        BY DEF BatchFirst
    <3>1. q # p /\ pub[q].at \in {"dispatching", "marking"}
          BY <2>2, <2>3
    <3>2. pub[p] \notin {Ready, Resting} /\ pub[q] \notin {Ready, Resting}
          BY <2>1, <3>1 DEF Ready, Resting
    <3> QED BY <1>1, <3>1, <3>2 DEF TypeOK
  <2>5. NotStarted'
    <3> SUFFICES ASSUME NEW n \in Number, n \notin published', NEW s \in Subscriber
                 PROVE  jobs'[n][s] = 0
        BY DEF NotStarted
    <3>1. n \notin published /\ n \notin pub[p].batch
          BY <2>1
    <3>2. jobs[n][s] = 0 /\ Inserted(p, n, s) = 0
          BY <3>1 DEF RInv, NotStarted, Inserted
    <3>3. jobs'[n][s] = jobs[n][s] + Inserted(p, n, s)
          BY <1>7 DEF Mark
    <3> QED BY <3>2, <3>3
  <2> QED BY <1>1, <2>4, <2>5, RInvPub
<1> QED BY <1>3, <1>4, <1>5, <1>6, <1>7 DEF Publish

LEMMA RInvNext == RInv /\ [Next]_vars => RInv'
<1> SUFFICES ASSUME RInv, [Next]_vars PROVE RInv'
    OBVIOUS
<1>1. CASE UNCHANGED vars
  <2>1. TInv' /\ UNCHANGED <<stage, written, drawn, log>>
        BY <1>1, TInvNext DEF RInv, vars
  <2>2. BatchFirst' /\ NotStarted'
        BY <1>1 DEF RInv, vars, BatchFirst, Waiting, NotStarted
  <2> QED BY <2>1, <2>2, RInvPub
<1>2. CASE Next
      BY <1>2, RInvChange, RInvPublisher DEF Next
<1> QED BY <1>1, <1>2

\* What P makes of the numbers of S, the lowest first.
Listed(P, S) == [k \in DOMAIN Ascending(S) |-> P[Ascending(S)[k]]]

LEMMA ListedType ==
  ASSUME NEW P, NEW S \in SUBSET Nat, IsFiniteSet(S)
  PROVE  /\ Listed(P, S) \in Seq({P[n] : n \in S}) /\ Len(Listed(P, S)) = Cardinality(S)
         /\ Cardinality(S) \in Nat
         /\ \A k \in 1 .. Cardinality(S) : Ascending(S)[k] \in S /\ Listed(P, S)[k] = P[Ascending(S)[k]]
         /\ DOMAIN Listed(P, S) = 1 .. Cardinality(S)
<1> DEFINE V == {P[n] : n \in S}
<1>1. /\ Cardinality(S) \in Nat /\ DOMAIN Ascending(S) = 1 .. Cardinality(S)
      /\ \A k \in 1 .. Cardinality(S) : Ascending(S)[k] \in S
      BY AscendingAt
<1>2. /\ Listed(P, S) \in [1 .. Cardinality(S) -> V]
      /\ \A k \in 1 .. Cardinality(S) : Listed(P, S)[k] = P[Ascending(S)[k]]
      BY <1>1 DEF Listed
<1> HIDE DEF V
<1>3. Listed(P, S) \in Seq(V)
      BY <1>1, <1>2
<1>4. Len(Listed(P, S)) = Cardinality(S)
      BY <1>1, <1>2, <1>3
<1> QED BY <1>1, <1>2, <1>3, <1>4 DEF V

LEMMA ListedSame ==
  ASSUME NEW P, NEW Q, NEW S \in SUBSET Nat, IsFiniteSet(S), \A n \in S : P[n] = Q[n]
  PROVE  Listed(P, S) = Listed(Q, S)
<1>1. Listed(P, S) = [k \in 1 .. Cardinality(S) |-> P[Ascending(S)[k]]]
      BY AscendingAt DEF Listed
<1>2. Listed(Q, S) = [k \in 1 .. Cardinality(S) |-> Q[Ascending(S)[k]]]
      BY AscendingAt DEF Listed
<1>3. \A k \in 1 .. Cardinality(S) : P[Ascending(S)[k]] = Q[Ascending(S)[k]]
      BY AscendingAt
<1> QED BY <1>1, <1>2, <1>3

LEMMA ListedRange ==
  ASSUME NEW P, NEW S \in SUBSET Nat, IsFiniteSet(S)
  PROVE  Range(Listed(P, S)) = {P[n] : n \in S}
<1>1. ASSUME NEW n \in S
      PROVE  \E k \in 1 .. Cardinality(S) : Ascending(S)[k] = n
  <2>1. RankIn(S, n) \in 1 .. Cardinality(S)
        BY RankGrows
  <2> QED BY <2>1, AscendingIs
<1>2. Range(Listed(P, S)) = {Listed(P, S)[k] : k \in 1 .. Cardinality(S)}
      BY ListedType DEF Range
<1>3. \A k \in 1 .. Cardinality(S) : Ascending(S)[k] \in S /\ Listed(P, S)[k] = P[Ascending(S)[k]]
      BY ListedType
<1>4. {Listed(P, S)[k] : k \in 1 .. Cardinality(S)} \subseteq {P[n] : n \in S}
  <2> SUFFICES ASSUME NEW k \in 1 .. Cardinality(S)
               PROVE  \E n \in S : Listed(P, S)[k] = P[n]
      OBVIOUS
  <2> QED BY <1>3
<1>5. {P[n] : n \in S} \subseteq {Listed(P, S)[k] : k \in 1 .. Cardinality(S)}
  <2> SUFFICES ASSUME NEW n \in S
               PROVE  \E k \in 1 .. Cardinality(S) : Listed(P, S)[k] = P[n]
      OBVIOUS
  <2>1. PICK k \in 1 .. Cardinality(S) : Ascending(S)[k] = n
        BY <1>1
  <2> QED BY <1>3, <2>1
<1> QED BY <1>2, <1>4, <1>5

LEMMA ListedJoin ==
  ASSUME NEW P, NEW S \in SUBSET Nat, IsFiniteSet(S), NEW T \in SUBSET Nat, IsFiniteSet(T),
         \A m \in S, n \in T : m < n
  PROVE  /\ Listed(P, S \cup T) = Listed(P, S) \o Listed(P, T)
         /\ Listed(P, T) = SubSeq(Listed(P, S \cup T), Cardinality(S) + 1, Len(Listed(P, S \cup T)))
<1> DEFINE U == S \cup T
           V == {P[n] : n \in U}
           s == Listed(P, S)
           t == Listed(P, T)
           u == Listed(P, U)
           a == Cardinality(S)
           b == Cardinality(T)
<1>1. U \in SUBSET Nat /\ IsFiniteSet(U) /\ Cardinality(U) = a + b /\ a \in Nat /\ b \in Nat
      BY FS_Union, AscendingJoin, FS_CardinalityType
<1>2. u \in Seq(V) /\ Len(u) = a + b /\ \A k \in 1 .. a + b : u[k] = P[Ascending(U)[k]]
  <2> HIDE DEF U
  <2>1. /\ u \in Seq(V) /\ Len(u) = Cardinality(U)
        /\ \A k \in 1 .. Cardinality(U) : u[k] = P[Ascending(U)[k]]
        BY <1>1, ListedType
  <2> HIDE DEF u
  <2> QED BY <1>1, <2>1
<1>3. s \in Seq(V) /\ Len(s) = a
  <2>1. s \in Seq({P[n] : n \in S}) /\ Len(s) = a
        BY ListedType
  <2>2. {P[n] : n \in S} \subseteq V
        OBVIOUS
  <2> HIDE DEF V, s
  <2> QED BY <2>1, <2>2, SeqMonotonic
<1> HIDE DEF u
<1>4. t \in Seq(V) /\ Len(t) = b
  <2>1. t \in Seq({P[n] : n \in T}) /\ Len(t) = b
        BY ListedType
  <2>2. {P[n] : n \in T} \subseteq V
        OBVIOUS
  <2> HIDE DEF V, t
  <2> QED BY <2>1, <2>2, SeqMonotonic
<1>5. \A k \in 1 .. a : u[k] = s[k]
  <2> TAKE k \in 1 .. a
  <2>1. k \in 1 .. a + b
        BY <1>1
  <2>2. u[k] = P[Ascending(U)[k]]
        BY <1>2, <2>1
  <2>3. Ascending(U)[k] = Ascending(S)[k]
        BY AscendingJoin
  <2>4. s[k] = P[Ascending(S)[k]]
        BY ListedType
  <2> QED BY <2>2, <2>3, <2>4
<1>6. \A k \in 1 .. b : u[a + k] = t[k]
  <2> TAKE k \in 1 .. b
  <2>1. a + k \in 1 .. a + b
        BY <1>1
  <2>2. u[a + k] = P[Ascending(U)[a + k]]
        BY <1>2, <2>1
  <2>3. Ascending(U)[a + k] = Ascending(T)[k]
        BY AscendingJoin
  <2>4. t[k] = P[Ascending(T)[k]]
        BY ListedType
  <2> QED BY <2>2, <2>3, <2>4
<1> HIDE DEF V, s, t, u, a, b
<1>7. u = s \o t
  <2>1. /\ s \o t \in Seq(V) /\ Len(s \o t) = a + b
        /\ \A k \in 1 .. a + b : (s \o t)[k] = IF k <= a THEN s[k] ELSE t[k - a]
        BY <1>3, <1>4, ConcatProperties
  <2>2. ASSUME NEW k \in 1 .. a + b
        PROVE  u[k] = (s \o t)[k]
    <3>1. CASE k <= a
      <4>1. k \in 1 .. a
            BY <1>1, <3>1
      <4> QED BY <1>5, <2>1, <3>1, <4>1
    <3>2. CASE ~(k <= a)
      <4>1. k - a \in 1 .. b /\ a + (k - a) = k
            BY <1>1, <3>2
      <4>2. u[a + (k - a)] = t[k - a]
            BY <1>6, <4>1
      <4> QED BY <2>1, <3>2, <4>1, <4>2
    <3> QED BY <3>1, <3>2
  <2> QED BY <1>2, <2>1, <2>2, SeqEqual
<1>8. t = SubSeq(u, a + 1, Len(u))
  <2>1. \A i \in a + 1 .. a + b : u[i] \in V
    <3> TAKE i \in a + 1 .. a + b
    <3>1. i \in 1 .. Len(u)
          BY <1>1, <1>2
    <3> QED BY <1>2, <3>1, ElementOfSeq
  <2> DEFINE v == SubSeq(u, a + 1, a + b)
  <2>2. /\ v \in Seq(V) /\ Len(v) = IF a + 1 <= a + b THEN (a + b) - (a + 1) + 1 ELSE 0
        /\ \A i \in 1 .. (a + b) - (a + 1) + 1 : v[i] = u[a + 1 + i - 1]
    <3>1. a + 1 \in Int /\ a + b \in Int
          BY <1>1
    <3> QED BY <2>1, <3>1, SubSeqProperties
  <2> HIDE DEF v
  <2>3. Len(v) = b
        BY <1>1, <2>2
  <2>4. \A i \in 1 .. b : v[i] = t[i]
    <3> TAKE i \in 1 .. b
    <3>1. i \in 1 .. (a + b) - (a + 1) + 1 /\ a + 1 + i - 1 = a + i
          BY <1>1
    <3>2. v[i] = u[a + i]
          BY <2>2, <3>1
    <3> QED BY <1>6, <3>2
  <2>5. v = t
        BY <1>4, <2>2, <2>3, <2>4, SeqEqual
  <2> QED BY <1>2, <2>5 DEF v
<1> QED BY <1>7, <1>8 DEF s, t, u, a

\* Sets of numbers.
LEMMA NumberSets ==
  ASSUME NEW S \in SUBSET Number
  PROVE  S \in SUBSET Nat /\ IsFiniteSet(S)
<1>1. Number \subseteq Nat /\ MaxNumber \in Int
      BY OutboxAssumption DEF Number
<1>2. IsFiniteSet(Number)
      BY <1>1, FS_Interval DEF Number
<1> QED BY <1>1, <1>2, FS_Subset

\* What each number stands for.
PartOf == [n \in Number |-> Part(n)]

QueuesListed ==
  \A r \in Record : Queue(r) = Listed(PartOf, WaitingOf(r)) /\ WaitingOf(r) \in SUBSET Number

LEMMA QueueIs == QueuesListed
<1> SUFFICES ASSUME NEW r \in Record
             PROVE  Queue(r) = Listed(PartOf, WaitingOf(r)) /\ WaitingOf(r) \in SUBSET Number
    BY DEF QueuesListed
<1> DEFINE W == WaitingOf(r)
<1>1. W \in SUBSET Number
      BY DEF WaitingOf, Waiting
<1>2. Queue(r) = [k \in DOMAIN Ascending(W) |-> Part(Ascending(W)[k])]
      BY DEF Queue
<1> HIDE DEF W
<1>3. W \in SUBSET Nat /\ IsFiniteSet(W)
      BY <1>1, NumberSets
<1>4. DOMAIN Ascending(W) = 1 .. Cardinality(W) /\ \A k \in 1 .. Cardinality(W) : Ascending(W)[k] \in Number
  <2>1. DOMAIN Ascending(W) = 1 .. Cardinality(W) /\ \A k \in 1 .. Cardinality(W) : Ascending(W)[k] \in W
        BY <1>3, AscendingAt
  <2> QED BY <1>1, <2>1
<1>5. \A k \in DOMAIN Ascending(W) : Part(Ascending(W)[k]) = PartOf[Ascending(W)[k]]
      BY <1>4 DEF PartOf
<1>6. Queue(r) = Listed(PartOf, W)
      BY <1>2, <1>5 DEF Listed
<1> QED BY <1>1, <1>6 DEF W

\* A queue one step later.
LEMMA QueueNext ==
  ASSUME NEW r \in Record, NEW P, P = PartOf', NEW W, W = WaitingOf(r)'
  PROVE  Queue(r)' = Listed(P, W) /\ W \in SUBSET Number
<1>1. QueuesListed'
      BY QueueIs, PTL
<1> QED BY <1>1 DEF QueuesListed

\* The numbers of an open change's events rank as their events.
LEMMA OpenRank ==
  ASSUME RInv, NEW c \in Change
  PROVE  /\ InOpen(c) \in SUBSET Number /\ Cardinality(InOpen(c)) = written[c]
         /\ \A n \in InOpen(c) : RankIn(InOpen(c), n) = log[n].part
<1> DEFINE T == InOpen(c)
<1>1. T \in SUBSET Number /\ IsFiniteSet(T) /\ T \subseteq Live(c) /\ written[c] \in Nat
      BY NumberSets, LiveOpen DEF InOpen, RInv, TInv, TypeOK
<1>2. ASSUME NEW n \in T
      PROVE  n \in Number /\ log[n].part \in Nat /\ log[n].part \in 1 .. written[c]
  <2>1. n \in Number /\ log[n].state # "none"
        BY DEF InOpen
  <2>2. log[n].part \in Nat /\ log[n].part \in 1 .. Len(Emits[log[n].change])
        BY <2>1, PartFacts
  <2>3. log[n].part <= written[c]
        BY DEF RInv, InOrder
  <2>4. log[n].part >= 1
    <3> DEFINE len == Len(Emits[log[n].change])
    <3>1. log[n].part \in 1 .. len
          BY <2>2
    <3> HIDE DEF len
    <3> QED BY <2>2, <3>1
  <2> QED BY <1>1, <2>1, <2>2, <2>3, <2>4
<1>3. \A k \in 1 .. written[c] : \E n \in T : log[n].part = k
      BY DEF RInv, InOrder
<1>4. \A n, m \in T : n < m <=> log[n].part < log[m].part
      BY <1>1 DEF RInv, InOrder
<1>5. \A n, m \in T : log[n].part = log[m].part => n = m
  <2> SUFFICES ASSUME NEW n \in T, NEW m \in T, log[n].part = log[m].part, n # m
               PROVE  FALSE
      OBVIOUS
  <2>1. n \in Nat /\ m \in Nat
        BY <1>2 DEF Number
  <2>2. n < m \/ m < n
        BY <2>1
  <2> QED BY <1>2, <1>4, <2>2
<1> HIDE DEF T
<1>6. ASSUME NEW j \in 0 .. written[c], NEW U \in SUBSET T, \A n \in T : n \in U <=> log[n].part <= j
      PROVE  Cardinality(U) = j
  <2> DEFINE f == [n \in U |-> log[n].part]
             K == 1 .. j
  <2>1. j \in Nat /\ \A n \in U : log[n].part \in K
        BY <1>1, <1>2, <1>6
  <2>2. f \in [U -> K] /\ \A n \in U : f[n] = log[n].part
        BY <2>1
  <2>3. IsInjective(f)
        BY <1>5, <2>2 DEF IsInjective
  <2>4. \A k \in K : \E n \in U : f[n] = k
    <3> TAKE k \in K
    <3>1. k \in 1 .. written[c] /\ k <= j
          BY <1>1, <2>1
    <3>2. PICK n \in T : log[n].part = k
          BY <1>3, <3>1
    <3> QED BY <1>6, <2>2, <3>1, <3>2
  <2>5. f \in Injection(U, K) /\ f \in Surjection(U, K)
    <3> HIDE DEF f, K
    <3> QED BY <2>2, <2>3, <2>4 DEF Injection, Surjection
  <2>6. ExistsBijection(U, K) /\ IsFiniteSet(U)
    <3>1. IsFiniteSet(U)
          BY <1>1, FS_Subset
    <3> HIDE DEF f, K
    <3> QED BY <2>5, <3>1 DEF ExistsBijection, Bijection
  <2>7. Cardinality(K) = Cardinality(U)
    <3> HIDE DEF K
    <3> QED BY <2>6, FS_Bijection
  <2>8. Cardinality(1 .. j) = j
        BY <2>1, FS_Interval
  <2> QED BY <2>7, <2>8
<1>7. Cardinality(T) = written[c]
  <2>1. \A n \in T : n \in T <=> log[n].part <= written[c]
        BY <1>1, <1>2
  <2>2. written[c] \in 0 .. written[c]
        BY <1>1
  <2> QED BY <1>6, <2>1, <2>2
<1>8. ASSUME NEW n \in T
      PROVE  RankIn(T, n) = log[n].part
  <2> DEFINE U == {m \in T : m <= n}
             j == log[n].part
  <2>1. \A m \in T : m \in U <=> log[m].part <= j
    <3> TAKE m \in T
    <3>1. n \in Nat /\ m \in Nat /\ log[n].part \in Nat /\ log[m].part \in Nat
          BY <1>2 DEF Number
    <3>2. n < m <=> log[n].part < log[m].part
          BY <1>4
    <3> QED BY <3>1, <3>2
  <2>2. j \in 0 .. written[c] /\ U \in SUBSET T
        BY <1>1, <1>2
  <2>3. Cardinality(U) = j
    <3> HIDE DEF U, j
    <3> QED BY <1>6, <2>1, <2>2
  <2> QED BY <2>3 DEF RankIn
<1> QED BY <1>1, <1>7, <1>8 DEF T

\* So they are, in order, the events the change makes.
LEMMA OpenListed ==
  ASSUME RInv, NEW c \in Change, written[c] = Len(Emits[c])
  PROVE  Listed(PartOf, InOpen(c)) = Promise!EventsOf(c)
<1> DEFINE T == InOpen(c)
<1>1. /\ T \in SUBSET Number /\ Cardinality(T) = written[c]
      /\ \A n \in T : RankIn(T, n) = log[n].part
      BY OpenRank
<1>2. \A n \in T : log[n].change = c
      BY DEF InOpen
<1> HIDE DEF T
<1>3. T \in SUBSET Nat /\ IsFiniteSet(T)
      BY <1>1, NumberSets
<1>4. DOMAIN Ascending(T) = 1 .. Len(Emits[c])
      BY <1>1, <1>3, AscendingAt
<1>5. \A k \in 1 .. Len(Emits[c]) : PartOf[Ascending(T)[k]] = <<c, k>>
  <2> TAKE k \in 1 .. Len(Emits[c])
  <2>1. Ascending(T)[k] \in T /\ RankIn(T, Ascending(T)[k]) = k
        BY <1>1, <1>3, AscendingAt
  <2> QED BY <1>1, <1>2, <2>1 DEF PartOf, Part
<1>6. DOMAIN Emits[c] = 1 .. Len(Emits[c])
      BY OutboxAssumption
<1>7. Listed(PartOf, T) = [k \in 1 .. Len(Emits[c]) |-> <<c, k>>]
      BY <1>4, <1>5 DEF Listed
<1> QED BY <1>6, <1>7 DEF T, Promise!EventsOf

\* A queue stays when what waits does.
LEMMA QueuesStay ==
  ASSUME Waiting' = Waiting, \A n \in Waiting : log'[n].change = log[n].change /\ log'[n].part = log[n].part
  PROVE  \A r \in Record : Queue(r)' = Queue(r)
<1> TAKE r \in Record
<1> DEFINE W == WaitingOf(r)
<1>1. W' = W /\ W \in SUBSET Number /\ W \subseteq Waiting
      BY DEF WaitingOf, Waiting
<1>2. PICK P : P = PartOf'
      OBVIOUS
<1>3. PICK V : V = WaitingOf(r)'
      OBVIOUS
<1>4. Queue(r)' = Listed(P, V) /\ V = W
      BY <1>1, <1>2, <1>3, QueueNext
<1>5. Queue(r) = Listed(PartOf, W)
      BY QueueIs DEF QueuesListed
<1> HIDE DEF W
<1>6. \A n \in W : P[n] = PartOf[n]
      BY <1>1, <1>2 DEF PartOf, Part
<1>7. Listed(P, W) = Listed(PartOf, W)
      BY <1>1, <1>6, NumberSets, ListedSame
<1> QED BY <1>4, <1>5, <1>7

\* A change that is saved appends its events to its record's queue.
LEMMA SaveQueues ==
  ASSUME RInv, NEW c \in Change, Save(c)
  PROVE  \A r \in Record : Queue(r)' = IF r = RecordOf[c] THEN Queue(r) \o Promise!EventsOf(c) ELSE Queue(r)
<1> TAKE r \in Record
<1> DEFINE W == WaitingOf(r)
           T == InOpen(c)
<1>1. \A n \in Number :
        /\ n \in T => log'[n].state = "saved"
        /\ n \notin T => log'[n] = log[n]
        /\ log'[n].state # "none" <=> log[n].state # "none"
        /\ log'[n].state # "none" => log'[n].change = log[n].change /\ log'[n].part = log[n].part
      BY EndKeeps DEF Save
<1>2. \A n \in T : n \in Number /\ log[n].state = "open" /\ log[n].change = c /\ n \notin published
      BY DEF InOpen, RInv, TInv, TypeOK
<1>3. \A n \in W : n \in Number /\ log[n].state = "saved" /\ n \notin published /\ RecordOf[log[n].change] = r
      BY DEF WaitingOf, Waiting
<1>4. published' = published
      BY DEF Save
<1>5. \A n \in Number : n \in WaitingOf(r)' <=>
        n \in W \/ (n \in T /\ RecordOf[c] = r)
  <2> TAKE n \in Number
  <2>1. n \in WaitingOf(r)' <=> log'[n].state = "saved" /\ n \notin published /\ RecordOf[log'[n].change] = r
        BY <1>4 DEF WaitingOf, Waiting
  <2>2. n \in W <=> log[n].state = "saved" /\ n \notin published /\ RecordOf[log[n].change] = r
        BY DEF WaitingOf, Waiting
  <2>3. CASE n \in T
    <3>1. log'[n].state = "saved" /\ log'[n].change = c /\ n \notin published /\ log[n].state = "open"
          BY <1>1, <1>2, <2>3
    <3> HIDE DEF T, W
    <3> QED BY <2>1, <2>2, <2>3, <3>1
  <2>4. CASE n \notin T
    <3>1. log'[n] = log[n]
          BY <1>1, <2>4
    <3> HIDE DEF T, W
    <3> QED BY <2>1, <2>2, <2>4, <3>1
  <2> QED BY <2>3, <2>4
<1>6. PICK P : P = PartOf'
      OBVIOUS
<1>7. PICK V : V = WaitingOf(r)'
      OBVIOUS
<1>8. Queue(r)' = Listed(P, V) /\ V \in SUBSET Number
      BY <1>6, <1>7, QueueNext
<1>9. Queue(r) = Listed(PartOf, W) /\ W \in SUBSET Number /\ T \in SUBSET Number
      BY QueueIs DEF QueuesListed, InOpen
<1>10. \A n \in W \cup T : P[n] = PartOf[n]
  <2> SUFFICES ASSUME NEW n \in W \cup T PROVE P[n] = PartOf[n]
      OBVIOUS
  <2>1. n \in Number /\ log[n].state # "none"
        BY <1>2, <1>3
  <2>2. log'[n].change = log[n].change /\ log'[n].part = log[n].part
        BY <1>1, <2>1
  <2> QED BY <1>6, <2>1, <2>2 DEF PartOf, Part
<1>11. Listed(PartOf, T) = Promise!EventsOf(c)
      BY OpenListed DEF Save
<1>12. ASSUME r = RecordOf[c], NEW m \in W, NEW n \in T
       PROVE  m < n
      BY <1>2, <1>3, <1>12 DEF RInv, OpenLast
<1> HIDE DEF W, T
<1>13. CASE r = RecordOf[c]
  <2>1. V = W \cup T
        BY <1>5, <1>7, <1>8, <1>9, <1>13
  <2>2. W \in SUBSET Nat /\ IsFiniteSet(W) /\ T \in SUBSET Nat /\ IsFiniteSet(T)
        BY <1>9, NumberSets
  <2>3. Listed(P, V) = Listed(PartOf, V)
        BY <1>8, <1>10, <2>1, NumberSets, ListedSame
  <2>4. Listed(PartOf, W \cup T) = Listed(PartOf, W) \o Listed(PartOf, T)
        BY <1>12, <1>13, <2>2, ListedJoin
  <2> QED BY <1>8, <1>9, <1>11, <1>13, <2>1, <2>3, <2>4
<1>14. CASE r # RecordOf[c]
  <2>1. V = W
        BY <1>5, <1>7, <1>8, <1>9, <1>14
  <2>2. Listed(P, W) = Listed(PartOf, W)
        BY <1>9, <1>10, NumberSets, ListedSame
  <2> QED BY <1>8, <1>9, <1>14, <2>1, <2>2
<1> QED BY <1>13, <1>14

\* How often a job was started, as a sum.
JobsOf(s) == [n \in Number |-> jobs[n][s]]

LEMMA StartedIs ==
  ASSUME TypeOK, NEW e, NEW s \in Subscriber
  PROVE  /\ Drawn(e) \in SUBSET Number /\ Adds(JobsOf(s), Drawn(e))
         /\ Started(e, s) = SumFunctionOnSet(JobsOf(s), Drawn(e))
<1>1. Drawn(e) \in SUBSET Number
      BY DEF Drawn
<1>2. \A n \in Number : JobsOf(s)[n] \in Int
      BY DEF TypeOK, Jobs, JobsOf
<1>3. IsFiniteSet(Drawn(e))
      BY <1>1, NumberSets
<1>4. Started(e, s) = SumFunctionOnSet(JobsOf(s), Drawn(e))
      BY DEF Started, JobsOf
<1> QED BY <1>1, <1>2, <1>3, <1>4 DEF Adds

\* It stays while the event's numbers and their jobs do.
LEMMA StartedStays ==
  ASSUME TypeOK, NEW e, NEW s \in Subscriber, Drawn(e)' = Drawn(e),
         \A n \in Drawn(e) : jobs'[n][s] = jobs[n][s]
  PROVE  Started(e, s)' = Started(e, s)
<1> DEFINE f == JobsOf(s)
           D == Drawn(e)
<1>1. PICK g : g = [n \in Number |-> jobs'[n][s]]
      OBVIOUS
<1>2. Started(e, s)' = SumFunctionOnSet(g, D)
      BY <1>1 DEF Started
<1>3. D \in SUBSET Number /\ Adds(f, D) /\ Started(e, s) = SumFunctionOnSet(f, D)
      BY StartedIs
<1>4. \A n \in D : f[n] = g[n]
      BY <1>1, <1>3 DEF JobsOf
<1> HIDE DEF f, D
<1>5. SumFunctionOnSet(g, D) = SumFunctionOnSet(f, D)
      BY <1>3, <1>4, SumSame
<1> QED BY <1>2, <1>3, <1>5

\* A number was drawn when there is an event of it.
DrawnByState == \A n \in Number : log[n] # NoEvent <=> log[n].state # "none"

LEMMA DrawnIs == TypeOK => DrawnByState
<1> SUFFICES ASSUME TypeOK, NEW n \in Number, log[n] # NoEvent
             PROVE  log[n].state # "none"
    BY DEF DrawnByState, NoEvent
<1>1. log[n] \in Entry
      BY DEF TypeOK
<1> QED BY <1>1 DEF Entry, State

\* A change writes an event: nothing shows.
LEMMA AppendHidden ==
  ASSUME RInv, RInv', NEW c \in Change, AppendEvent(c)
  PROVE  /\ UNCHANGED stage /\ \A r \in Record : Queue(r)' = Queue(r)
         /\ \A e, s : s \in Subscriber => Started(e, s)' = Started(e, s)
<1> DEFINE new == drawn + 1
<1>1. TypeOK /\ DrawnByState /\ DrawnByState'
  <2>1. (TypeOK => DrawnByState)'
        BY DrawnIs, PTL
  <2> QED BY <2>1, DrawnIs DEF RInv, TInv
<1>2. /\ new \in Number /\ log[new].state = "none" /\ UNCHANGED <<stage, published, jobs>>
      /\ \A n \in Number : n # new => log'[n] = log[n]
      /\ log'[new].state = "open"
  <2>1. EventOf(c, written[c] + 1).state = "open"
        BY DEF EventOf
  <2> QED BY <2>1, AppendDoes DEF RInv
<1> HIDE DEF new
<1>3. \A r \in Record : Queue(r)' = Queue(r)
  <2>1. Waiting' = Waiting /\ \A n \in Waiting : log'[n] = log[n]
        BY <1>2 DEF Waiting
  <2> QED BY <2>1, QueuesStay
<1>4. new \notin published
      BY <1>1, <1>2 DEF TypeOK
<1>5. ASSUME NEW e, NEW s \in Subscriber
      PROVE  Started(e, s)' = Started(e, s)
  <2> DEFINE D == Drawn(e)
             f == JobsOf(s)
  <2>1. \A n \in Number : n # new => (n \in Drawn(e)' <=> n \in D)
        BY <1>2 DEF Drawn, Part
  <2>2. new \notin D
        BY <1>1, <1>2 DEF Drawn, DrawnByState
  <2>3. Drawn(e)' \subseteq Number
        BY DEF Drawn
  <2>4. D \subseteq Number /\ Adds(f, D) /\ Started(e, s) = SumFunctionOnSet(f, D)
        BY <1>1, StartedIs
  <2>5. f[new] = 0
        BY <1>2, <1>4 DEF JobsOf, RInv, NotStarted
  <2>6. Started(e, s)' = SumFunctionOnSet(f, Drawn(e)')
        BY <1>2 DEF Started, JobsOf
  <2>7. CASE new \in Drawn(e)'
    <3>1. Drawn(e)' = D \cup {new}
          BY <2>1, <2>2, <2>3, <2>4, <2>7
    <3> HIDE DEF D, f
    <3>2. SumFunctionOnSet(f, D \cup {new}) = f[new] + SumFunctionOnSet(f, D)
          BY <2>2, <2>4, <2>5, SumAdd
    <3>3. SumFunctionOnSet(f, D) \in Int
          BY <2>4, SumType
    <3> QED BY <2>4, <2>5, <2>6, <3>1, <3>2, <3>3
  <2>8. CASE new \notin Drawn(e)'
    <3>1. Drawn(e)' = D
          BY <2>1, <2>2, <2>3, <2>4, <2>8
    <3> QED BY <2>4, <2>6, <3>1
  <2> QED BY <2>7, <2>8
<1> QED BY <1>2, <1>3, <1>5

\* A change's transaction ends: nothing was started.
LEMMA EndStarts ==
  ASSUME RInv, RInv', NEW c \in Change, NEW state \in {"saved", "gone"}, Ends(c, state), jobs' = jobs
  PROVE  \A e, s : s \in Subscriber => Started(e, s)' = Started(e, s)
<1>1. TypeOK /\ DrawnByState /\ DrawnByState'
  <2>1. (TypeOK => DrawnByState)'
        BY DrawnIs, PTL
  <2> QED BY <2>1, DrawnIs DEF RInv, TInv
<1>2. \A n \in Number :
        /\ log'[n].state # "none" <=> log[n].state # "none"
        /\ log'[n].state # "none" => log'[n].change = log[n].change /\ log'[n].part = log[n].part
      BY EndKeeps
<1>3. \A e : Drawn(e)' = Drawn(e)
      BY <1>1, <1>2 DEF Drawn, Part, DrawnByState
<1> QED BY <1>1, <1>3, StartedStays

\* The events of a batch.
Leave(p) == {Part(n) : n \in pub[p].batch}

\* What is published starts its jobs, each once, and nothing else does.
LEMMA MarkStarts ==
  ASSUME RInv, NEW p \in Publisher, Mark(p), NEW e, NEW s \in Wants[Emits[e[1]][e[2]]], s \in Subscriber,
         Emits[e[1]][e[2]] \in Type
  PROVE  Started(e, s)' = Started(e, s) + IF e \in Leave(p) THEN 1 ELSE 0
<1> DEFINE D == Drawn(e)
           f == JobsOf(s)
<1>1. /\ TypeOK /\ pub[p].at = "marking" /\ UNCHANGED <<stage, written, drawn, log>>
      BY DEF RInv, TInv, Mark
<1>2. pub[p].todo = {} /\ pub[p].batch \subseteq Waiting
      BY <1>1 DEF RInv, BatchFirst
<1>3. D \in SUBSET Number /\ Adds(f, D) /\ Started(e, s) = SumFunctionOnSet(f, D)
      BY <1>1, StartedIs
<1>4. \A n \in D : log[n].state # "none" /\ Part(n) = e
      BY <1>1, DrawnIs DEF Drawn, DrawnByState
<1>5. \A n \in D : Starts(n, s)
  <2> TAKE n \in D
  <2>1. e[1] = log[n].change /\ e[2] = log[n].part /\ n \in Number
        BY <1>3, <1>4 DEF Part
  <2>2. log[n].type = Emits[e[1]][e[2]]
        BY <1>4, <2>1 DEF RInv, EventsKept
  <2>3. Answer[Emits[e[1]][e[2]]][s] = "job"
        BY DEF Wants
  <2> QED BY <2>2, <2>3 DEF Starts
<1>6. PICK g : g = [n \in Number |-> jobs'[n][s]]
      OBVIOUS
<1>7. Started(e, s)' = SumFunctionOnSet(g, D)
  <2>1. Drawn(e)' = D
        BY <1>1 DEF Drawn, Part
  <2> QED BY <1>6, <2>1 DEF Started
<1>8. \A n \in D : g[n] = f[n] + IF n \in pub[p].batch THEN 1 ELSE 0
  <2> TAKE n \in D
  <2>1. n \in Number
        BY <1>3
  <2>2. g[n] = jobs[n][s] + Inserted(p, n, s)
        BY <1>6, <2>1 DEF Mark
  <2>3. Inserted(p, n, s) = IF n \in pub[p].batch THEN 1 ELSE 0
        BY <1>2, <1>5 DEF Inserted
  <2>4. f[n] = jobs[n][s]
        BY <2>1 DEF JobsOf
  <2> QED BY <2>2, <2>3, <2>4
<1>9. \A n \in D : f[n] \in Int
      BY <1>3 DEF Adds
<1>10. CASE e \in Leave(p)
  <2>1. PICK n \in pub[p].batch : Part(n) = e
        BY <1>10 DEF Leave
  <2>2. n \in Number /\ log[n].state = "saved"
        BY <1>2 DEF Waiting
  <2>3. n \in D
        BY <1>1, <2>1, <2>2, DrawnIs DEF Drawn, DrawnByState
  <2>4. ASSUME NEW m \in D, m # n
        PROVE  m \notin pub[p].batch
    <3> SUFFICES ASSUME m \in pub[p].batch PROVE FALSE
        OBVIOUS
    <3>1. m \in Number /\ log[m].state = "saved"
          BY <1>2 DEF Waiting
    <3>2. log[m].change = log[n].change /\ log[m].part = log[n].part
          BY <1>4, <2>1 DEF Part
    <3>3. n \in Live(log[n].change) /\ m \in Live(log[n].change) /\ log[n].change \in Change /\ log[n].part \in Nat
      <4>1. log[n].state # "none" /\ log[m].state # "none"
            BY <2>2, <3>1
      <4>2. n \in Live(log[n].change) /\ log[n].change \in Change /\ log[n].part \in Nat
            BY <2>2, <4>1, PartFacts
      <4>3. m \in Live(log[m].change)
            BY <3>1, <4>1, PartFacts
      <4> QED BY <3>2, <4>2, <4>3
    <3>4. ~(n < m) /\ ~(m < n)
          BY <3>2, <3>3 DEF RInv, InOrder
    <3>5. n \in Nat /\ m \in Nat
          BY <2>2, <3>1 DEF Number
    <3> QED BY <2>4, <3>4, <3>5
  <2>5. g[n] = f[n] + 1 /\ \A m \in D : m # n => g[m] = f[m]
        BY <1>8, <1>9, <2>1, <2>3, <2>4
  <2> HIDE DEF D, f
  <2>6. SumFunctionOnSet(g, D) = SumFunctionOnSet(f, D) + 1
        BY <1>3, <2>3, <2>5, SumBump
  <2> QED BY <1>3, <1>7, <1>10, <2>6
<1>11. CASE e \notin Leave(p)
  <2>1. \A n \in D : n \notin pub[p].batch
        BY <1>4, <1>11 DEF Leave
  <2>2. \A n \in D : f[n] = g[n]
        BY <1>8, <1>9, <2>1
  <2> HIDE DEF D, f
  <2>3. SumFunctionOnSet(g, D) = SumFunctionOnSet(f, D) /\ SumFunctionOnSet(f, D) \in Int
        BY <1>3, <2>2, SumSame, SumType
  <2> QED BY <1>3, <1>7, <1>11, <2>3
<1> QED BY <1>10, <1>11

\* Of each queue, a batch has the first few.
LEMMA MarkQueues ==
  ASSUME RInv, NEW p \in Publisher, Mark(p), NEW r \in Record
  PROVE  /\ \E few \in 0 .. Len(Queue(r)) : Queue(r)' = SubSeq(Queue(r), few + 1, Len(Queue(r)))
         /\ Range(Queue(r)) = {Part(n) : n \in WaitingOf(r)}
         /\ Range(Queue(r)') = {Part(n) : n \in WaitingOf(r) \ pub[p].batch}
<1> DEFINE W == WaitingOf(r)
           S == W \cap pub[p].batch
           T == W \ pub[p].batch
<1>1. /\ pub[p].at = "marking" /\ UNCHANGED <<stage, written, drawn, log>>
      /\ published' = published \cup pub[p].batch
      BY DEF Mark, Marked
<1>2. WaitingOf(r)' = T
      BY <1>1 DEF WaitingOf, Waiting
<1>3. PICK P : P = PartOf'
      OBVIOUS
<1>4. PICK V : V = WaitingOf(r)'
      OBVIOUS
<1>5. Queue(r)' = Listed(PartOf, T)
  <2>1. Queue(r)' = Listed(P, V)
        BY <1>3, <1>4, QueueNext
  <2>2. P = PartOf
        BY <1>1, <1>3 DEF PartOf, Part
  <2> QED BY <1>2, <1>4, <2>1, <2>2
<1>6. Queue(r) = Listed(PartOf, W) /\ W \in SUBSET Number
      BY QueueIs DEF QueuesListed
<1>7. ASSUME NEW n \in S, NEW m \in T
      PROVE  n < m
  <2>1. n \in Waiting /\ m \in Waiting /\ RecordOf[log[n].change] = RecordOf[log[m].change]
        BY DEF WaitingOf
  <2>2. ~(m < n) /\ m # n
        BY <1>1, <2>1 DEF RInv, BatchFirst
  <2>3. n \in Nat /\ m \in Nat
        BY <2>1 DEF Waiting, Number
  <2> QED BY <2>2, <2>3
<1>8. S \cup T = W
      OBVIOUS
<1>9. /\ W \in SUBSET Nat /\ IsFiniteSet(W) /\ S \in SUBSET Nat /\ IsFiniteSet(S)
      /\ T \in SUBSET Nat /\ IsFiniteSet(T)
  <2>1. S \in SUBSET Number /\ T \in SUBSET Number
        BY <1>6
  <2> HIDE DEF S, T, W
  <2> QED BY <1>6, <2>1, NumberSets
<1>10. \A n \in W : n \in Number /\ PartOf[n] = Part(n)
      BY <1>6 DEF PartOf
<1>11. T \subseteq W /\ S \subseteq W
      OBVIOUS
<1> HIDE DEF W, S, T
<1>12. Listed(PartOf, T) = SubSeq(Listed(PartOf, W), Cardinality(S) + 1, Len(Listed(PartOf, W)))
  <2>1. Listed(PartOf, T) = SubSeq(Listed(PartOf, S \cup T), Cardinality(S) + 1, Len(Listed(PartOf, S \cup T)))
        BY <1>7, <1>9, ListedJoin
  <2> QED BY <1>8, <2>1
<1>13. Cardinality(S) \in 0 .. Len(Listed(PartOf, W))
  <2>1. Len(Listed(PartOf, W)) = Cardinality(W) /\ Cardinality(W) \in Nat
        BY <1>9, ListedType
  <2>2. Cardinality(S) <= Cardinality(W) /\ Cardinality(S) \in Nat
        BY <1>9, <1>11, FS_Subset, FS_CardinalityType
  <2> QED BY <2>1, <2>2
<1>14. Range(Queue(r)) = {Part(n) : n \in W}
  <2>1. Range(Listed(PartOf, W)) = {PartOf[n] : n \in W}
        BY <1>9, ListedRange
  <2>2. {PartOf[n] : n \in W} = {Part(n) : n \in W}
        BY <1>10
  <2> QED BY <1>6, <2>1, <2>2
<1>15. Range(Queue(r)') = {Part(n) : n \in T}
  <2>1. Range(Listed(PartOf, T)) = {PartOf[n] : n \in T}
        BY <1>9, ListedRange
  <2>2. {PartOf[n] : n \in T} = {Part(n) : n \in T}
        BY <1>10, <1>11
  <2> QED BY <1>5, <2>1, <2>2
<1> QED BY <1>5, <1>6, <1>12, <1>13, <1>14, <1>15 DEF W, T

\* What leaves the queues is the batch, and it is not nothing.
LEMMA MarkLeaves ==
  ASSUME RInv, NEW p \in Publisher, Mark(p)
  PROVE  /\ UNION {Range(Queue(r)) \ Range(Queue(r)') : r \in Record} = Leave(p)
         /\ \E r \in Record : Queue(r)' # Queue(r)
<1>1. pub[p].at = "marking"
      BY DEF Mark
<1>2. pub[p].batch # {} /\ pub[p].batch \subseteq Waiting
      BY <1>1 DEF RInv, BatchFirst
<1>3. ASSUME NEW r \in Record
      PROVE  /\ Range(Queue(r)) = {Part(n) : n \in WaitingOf(r)}
             /\ Range(Queue(r)') = {Part(n) : n \in WaitingOf(r) \ pub[p].batch}
      BY MarkQueues
<1>4. ASSUME NEW n \in Waiting, NEW m \in Waiting, Part(n) = Part(m)
      PROVE  n = m
  <2>1. n \in Number /\ m \in Number /\ log[n].state = "saved" /\ log[m].state = "saved"
        BY DEF Waiting
  <2>2. log[n].state # "none" /\ log[m].state # "none" /\ log[n].change = log[m].change /\ log[n].part = log[m].part
        BY <1>4, <2>1 DEF Part
  <2>3. n \in Live(log[n].change) /\ log[n].change \in Change /\ log[n].part \in Nat
        BY <2>1, <2>2, PartFacts
  <2>4. m \in Live(log[m].change)
        BY <2>1, <2>2, PartFacts
  <2>5. ~(n < m) /\ ~(m < n)
        BY <2>2, <2>3, <2>4 DEF RInv, InOrder
  <2>6. n \in Nat /\ m \in Nat
        BY <2>1 DEF Number
  <2> QED BY <2>5, <2>6
<1>5. ASSUME NEW n \in pub[p].batch
      PROVE  \E r \in Record : Part(n) \in Range(Queue(r)) \ Range(Queue(r)')
  <2>1. n \in Waiting /\ log[n].state # "none" /\ n \in Number
        BY <1>2 DEF Waiting
  <2>2. PICK r \in Record : n \in WaitingOf(r)
    <3>1. log[n].change \in Change
          BY <2>1, PartFacts
    <3> QED BY <2>1, <3>1, OutboxAssumption DEF WaitingOf
  <2>3. Part(n) \in Range(Queue(r))
        BY <1>3, <2>2
  <2>4. ASSUME NEW m \in WaitingOf(r) \ pub[p].batch
        PROVE  Part(m) # Part(n)
        BY <1>4, <2>1 DEF WaitingOf
  <2>5. Part(n) \notin Range(Queue(r)')
        BY <1>3, <2>2, <2>4
  <2> QED BY <2>2, <2>3, <2>5
<1>6. ASSUME NEW r \in Record, NEW e \in Range(Queue(r)) \ Range(Queue(r)')
      PROVE  e \in Leave(p)
  <2>1. PICK n \in WaitingOf(r) : e = Part(n)
        BY <1>3
  <2>2. n \in pub[p].batch
        BY <1>3, <2>1
  <2> QED BY <2>1, <2>2 DEF Leave
<1>7. UNION {Range(Queue(r)) \ Range(Queue(r)') : r \in Record} = Leave(p)
  <2>1. \A e \in Leave(p) : \E r \in Record : e \in Range(Queue(r)) \ Range(Queue(r)')
        BY <1>5 DEF Leave
  <2>2. \A r \in Record : \A e \in Range(Queue(r)) \ Range(Queue(r)') : e \in Leave(p)
        BY <1>6
  <2> QED BY <2>1, <2>2
<1>8. \E r \in Record : Queue(r)' # Queue(r)
  <2>1. PICK n \in pub[p].batch : TRUE
        BY <1>2
  <2>2. PICK r \in Record : Part(n) \in Range(Queue(r)) \ Range(Queue(r)')
        BY <1>5
  <2>3. Range(Queue(r)) # Range(Queue(r)')
        BY <2>2
  <2> QED BY <2>3
<1> QED BY <1>7, <1>8

\* What the promise sees.
SavedMap == {c \in Change : stage[c] = "saved"}
QueueMap == [r \in Record |-> Queue(r)]
StartedMap == [e \in Promise!Event |-> [s \in Wants[Emits[e[1]][e[2]]] |-> Started(e, s)]]

LEMMA EventFacts ==
  ASSUME NEW e \in Promise!Event
  PROVE  /\ Emits[e[1]][e[2]] \in Type
         /\ \A s \in Wants[Emits[e[1]][e[2]]] : s \in Subscriber
<1>1. PICK c \in Change : \E k \in DOMAIN Emits[c] : e = <<c, k>>
      BY DEF Promise!Event
<1>2. Emits[c] \in Seq(Type)
      BY OutboxAssumption
<1>3. PICK k \in DOMAIN Emits[c] : e = <<c, k>>
      BY <1>1
<1>4. Emits[c][k] \in Type
      BY <1>2
<1>5. e[1] = c /\ e[2] = k
      BY <1>3
<1> QED BY <1>4, <1>5 DEF Wants

\* What changes none of it does not show.
LEMMA MapStays ==
  ASSUME stage' = stage \/ SavedMap' = SavedMap, \A r \in Record : Queue(r)' = Queue(r),
         \A e, s : s \in Subscriber => Started(e, s)' = Started(e, s)
  PROVE  SavedMap' = SavedMap /\ QueueMap' = QueueMap /\ StartedMap' = StartedMap
<1>1. SavedMap' = SavedMap
      BY DEF SavedMap
<1>2. QueueMap' = QueueMap
      BY DEF QueueMap
<1>3. \A e \in Promise!Event : \A s \in Wants[Emits[e[1]][e[2]]] : Started(e, s)' = Started(e, s)
      BY EventFacts
<1>4. StartedMap' = StartedMap
      BY <1>3 DEF StartedMap
<1> QED BY <1>1, <1>2, <1>4

LEMMA PromiseInit ==
  ASSUME Init
  PROVE  Promise!Init
<1>1. SavedMap = {}
      BY DEF Init, SavedMap
<1>2. \A n \in Number : log[n] = NoEvent /\ log[n].state = "none"
      BY DEF Init, NoEvent
<1>3. \A r \in Record : Queue(r) = <<>>
  <2> TAKE r \in Record
  <2>1. WaitingOf(r) = {}
        BY <1>2 DEF WaitingOf, Waiting
  <2>2. Queue(r) = Listed(PartOf, {})
        BY <2>1, QueueIs DEF QueuesListed
  <2>3. {} \in SUBSET Nat /\ IsFiniteSet({}) /\ Cardinality({}) = 0
        BY FS_EmptySet
  <2>4. Listed(PartOf, {}) \in Seq({PartOf[n] : n \in {}}) /\ Len(Listed(PartOf, {})) = 0
        BY <2>3, ListedType
  <2> QED BY <2>2, <2>4, EmptySeq
<1>4. \A e, s : Started(e, s) = 0
  <2>1. \A e : Drawn(e) = {}
        BY <1>2 DEF Drawn
  <2> QED BY <2>1, SumEmpty DEF Started
<1>5. QueueMap = [r \in Record |-> <<>>]
      BY <1>3 DEF QueueMap
<1>6. StartedMap = [e \in Promise!Event |-> [s \in Wants[Emits[e[1]][e[2]]] |-> 0]]
      BY <1>4 DEF StartedMap
<1> QED BY <1>1, <1>5, <1>6 DEF Promise!Init, SavedMap, QueueMap, StartedMap, Promise!Event

LEMMA PromiseSave ==
  ASSUME RInv, RInv', NEW c \in Change, Save(c)
  PROVE  Promise!Save(c)
<1>1. stage' = [stage EXCEPT ![c] = "saved"] /\ stage[c] = "open" /\ Ends(c, "saved") /\ jobs' = jobs
      BY DEF Save
<1>2. c \notin SavedMap /\ SavedMap' = SavedMap \cup {c}
      BY <1>1 DEF SavedMap, RInv, TInv, TypeOK
<1>3. QueueMap' = [QueueMap EXCEPT ![RecordOf[c]] = @ \o Promise!EventsOf(c)]
  <2>1. \A r \in Record : Queue(r)' = IF r = RecordOf[c] THEN Queue(r) \o Promise!EventsOf(c) ELSE Queue(r)
        BY SaveQueues
  <2> QED BY <2>1 DEF QueueMap
<1>4. \A e, s : s \in Subscriber => Started(e, s)' = Started(e, s)
      BY <1>1, EndStarts
<1>5. StartedMap' = StartedMap
  <2>1. \A e \in Promise!Event : \A s \in Wants[Emits[e[1]][e[2]]] : Started(e, s)' = Started(e, s)
        BY <1>4, EventFacts
  <2> QED BY <2>1 DEF StartedMap
<1> QED BY <1>2, <1>3, <1>5 DEF Promise!Save, SavedMap, QueueMap, StartedMap, Promise!Event

LEMMA PromiseDeliver ==
  ASSUME RInv, NEW p \in Publisher, Mark(p)
  PROVE  Promise!Deliver
<1> DEFINE leave == UNION {Range(QueueMap[r]) \ Range(QueueMap'[r]) : r \in Record}
<1>1. \A r \in Record : QueueMap[r] = Queue(r) /\ QueueMap'[r] = Queue(r)'
      BY DEF QueueMap
<1>2. QueueMap' # QueueMap
      BY <1>1, MarkLeaves
<1>3. \A r \in Record : \E few \in 0 .. Len(QueueMap[r]) :
        QueueMap'[r] = SubSeq(QueueMap[r], few + 1, Len(QueueMap[r]))
      BY <1>1, MarkQueues
<1>4. leave = Leave(p)
  <2>1. \A r \in Record : Range(QueueMap[r]) \ Range(QueueMap'[r]) = Range(Queue(r)) \ Range(Queue(r)')
        BY <1>1
  <2>2. leave = UNION {Range(Queue(r)) \ Range(Queue(r)') : r \in Record}
        BY <2>1
  <2> QED BY <2>2, MarkLeaves
<1>5. SavedMap' = SavedMap
      BY DEF Mark, SavedMap
<1> HIDE DEF leave
<1>6. ASSUME NEW e \in Promise!Event, NEW s \in Wants[Emits[e[1]][e[2]]]
      PROVE  Started(e, s)' = Started(e, s) + IF e \in leave THEN 1 ELSE 0
      BY <1>4, EventFacts, MarkStarts
<1>7. \A e \in Promise!Event :
        /\ DOMAIN StartedMap[e] = Wants[Emits[e[1]][e[2]]]
        /\ \A s \in Wants[Emits[e[1]][e[2]]] : StartedMap[e][s] = Started(e, s)
      BY DEF StartedMap
<1>8. StartedMap' = [e \in Promise!Event |-> [s \in DOMAIN StartedMap[e] |->
                       StartedMap[e][s] + IF e \in leave THEN 1 ELSE 0]]
  <2>1. StartedMap' = [e \in Promise!Event |-> [s \in Wants[Emits[e[1]][e[2]]] |-> Started(e, s)']]
        BY DEF StartedMap
  <2> QED BY <1>6, <1>7, <2>1
<1> QED BY <1>2, <1>3, <1>5, <1>8
    DEF leave, Range, Promise!Range, Promise!Deliver, SavedMap, QueueMap, StartedMap, Promise!Event

\* A change is saved together with its events, those of one record leave in
\* the order they were made, and each starts its jobs exactly once, through
\* rollbacks, failed batches and publishers that work side by side (Append,
\* PublishBatch, Dispatcher).
THEOREM PromiseKept == Spec => KeepsPromise
<1>1. RInv /\ RInv' /\ [Next]_vars => [Promise!Next]_(Promise!vars)
  <2> SUFFICES ASSUME RInv, RInv', [Next]_vars
               PROVE  Promise!Next \/ (SavedMap' = SavedMap /\ QueueMap' = QueueMap /\ StartedMap' = StartedMap)
      BY DEF Promise!vars, SavedMap, QueueMap, StartedMap, Promise!Event
  <2>1. TypeOK
        BY DEF RInv, TInv
  <2>2. ASSUME UNCHANGED <<log, published>>
        PROVE  \A r \in Record : Queue(r)' = Queue(r)
        BY <2>2, QueuesStay DEF Waiting
  <2>3. ASSUME log' = log, \A n \in Number, s \in Subscriber : jobs'[n][s] = jobs[n][s]
        PROVE  \A e, s : s \in Subscriber => Started(e, s)' = Started(e, s)
    <3>1. \A e : Drawn(e)' = Drawn(e) /\ Drawn(e) \subseteq Number
          BY <2>3 DEF Drawn, Part
    <3> QED BY <2>1, <2>3, <3>1, StartedStays
  <2>4. ASSUME UNCHANGED <<log, published, jobs>>, SavedMap' = SavedMap
        PROVE  SavedMap' = SavedMap /\ QueueMap' = QueueMap /\ StartedMap' = StartedMap
        BY <2>2, <2>3, <2>4, MapStays
  <2>5. CASE UNCHANGED vars
        BY <2>4, <2>5 DEF vars, SavedMap
  <2>6. ASSUME NEW c \in Change, Begin(c)
        PROVE  SavedMap' = SavedMap /\ QueueMap' = QueueMap /\ StartedMap' = StartedMap
    <3>1. SavedMap' = SavedMap
          BY <2>1, <2>6 DEF Begin, SavedMap, TypeOK
    <3> QED BY <2>4, <2>6, <3>1 DEF Begin
  <2>7. ASSUME NEW c \in Change, AppendEvent(c)
        PROVE  SavedMap' = SavedMap /\ QueueMap' = QueueMap /\ StartedMap' = StartedMap
        BY <2>7, AppendHidden, MapStays
  <2>8. ASSUME NEW c \in Change, Save(c)
        PROVE  Promise!Next
        BY <2>8, PromiseSave DEF Promise!Next
  <2>9. ASSUME NEW c \in Change, Undo(c)
        PROVE  SavedMap' = SavedMap /\ QueueMap' = QueueMap /\ StartedMap' = StartedMap
    <3>1. SavedMap' = SavedMap
          BY <2>1, <2>9 DEF Undo, SavedMap, TypeOK
    <3>2. \A e, s : s \in Subscriber => Started(e, s)' = Started(e, s)
          BY <2>9, EndStarts DEF Undo
    <3>3. \A r \in Record : Queue(r)' = Queue(r)
      <4>1. \A n \in Number :
              /\ n \in InOpen(c) => log'[n].state = "gone" /\ log[n].state = "open"
              /\ n \notin InOpen(c) => log'[n] = log[n]
            BY <2>9, EndKeeps DEF Undo, InOpen
      <4>2. published' = published
            BY <2>9 DEF Undo
      <4>3. Waiting' = Waiting /\ \A n \in Waiting : log'[n] = log[n]
            BY <4>1, <4>2 DEF Waiting
      <4> QED BY <4>3, QueuesStay
    <3> QED BY <3>1, <3>2, <3>3, MapStays
  <2>10. ASSUME NEW p \in Publisher, TryLock(p) \/ Read(p) \/ Dispatch(p) \/ Wake(p)
         PROVE  SavedMap' = SavedMap /\ QueueMap' = QueueMap /\ StartedMap' = StartedMap
    <3>1. UNCHANGED <<stage, log, published, jobs>>
          BY <2>10 DEF TryLock, Read, Dispatch, Wake
    <3> QED BY <2>4, <3>1 DEF SavedMap
  <2>11. ASSUME NEW p \in Publisher, Fail(p)
         PROVE  SavedMap' = SavedMap /\ QueueMap' = QueueMap /\ StartedMap' = StartedMap
    <3>1. UNCHANGED <<stage, log, published>>
          BY <2>11 DEF Fail
    <3>2. \A n \in Number, s \in Subscriber : jobs'[n][s] = jobs[n][s] + 0 /\ jobs[n][s] \in Nat
          BY <2>1, <2>11 DEF Fail, Kept, TypeOK, Jobs
    <3> QED BY <2>2, <2>3, <3>1, <3>2, MapStays
  <2>12. ASSUME NEW p \in Publisher, Mark(p)
         PROVE  Promise!Next
         BY <2>12, PromiseDeliver DEF Promise!Next
  <2> QED BY <2>5, <2>6, <2>7, <2>8, <2>9, <2>10, <2>11, <2>12 DEF Next, Publish
<1>2. Init => Promise!Init
      BY PromiseInit
<1> QED BY <1>1, <1>2, RInvInit, RInvNext, PTL DEF Spec, KeepsPromise, Promise!Spec

=============================================================================
