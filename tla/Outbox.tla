-------------------------------- MODULE Outbox --------------------------------
(***************************************************************************)
(* The outbox (packages platform/outbox and platform/jobs): transactions   *)
(* that change a record write events beside the change, and a publisher in *)
(* each worker process turns the events into jobs.                         *)
(*                                                                         *)
(* An event gets its number when it is inserted, and is seen by others     *)
(* when its transaction commits, perhaps after events with higher numbers; *)
(* a transaction that is rolled back leaves a hole.  The publishers' batch *)
(* is one transaction: the try for the advisory lock, the read, a dispatch *)
(* per event and the mark with the commit are steps of it, and it may fail *)
(* or its process may stop at any of them.                                 *)
(***************************************************************************)
EXTENDS Integers, SequencesExt, Sorting

CONSTANTS
  Change,         \* requests and jobs that change a record
  Record,
  RecordOf,       \* the record each change locks
  Type,           \* of events
  Emits,          \* the types of the events each change writes, in order
  Subscriber,     \* the modules' subscribers
  Answer,         \* what a subscriber makes of a type: a "job", "nothing", or
                  \* "unreadable"; or it is "absent" from the type's list
  Publisher,
  Batch,          \* the most events of one transaction
  MaxNumber,      \* bound: how many numbers may be drawn
  MaxFailures     \* bound: how often a publisher's transaction fails

ASSUME OutboxAssumption ==
  /\ RecordOf \in [Change -> Record]
  /\ \A c \in Change : Emits[c] \in Seq(Type) /\ Emits[c] # <<>>
  /\ Answer \in [Type -> [Subscriber -> {"job", "nothing", "unreadable", "absent"}]]
  /\ Batch \in Nat \ {0} /\ MaxFailures \in Nat /\ MaxNumber \in Nat

Number == 1 .. MaxNumber

VARIABLES
  stage,      \* of each change: "idle", "open" or "saved"
  written,    \* how many events an open change has written
  drawn,      \* the last number drawn
  log,        \* the outbox, by number
  published,  \* the numbers marked published
  jobs,       \* how often each subscriber's job of each event was inserted
  pub,        \* what each publisher does
  failures

vars == <<stage, written, drawn, log, published, jobs, pub, failures>>

\* An event is "open" until its transaction commits, then "saved", or "gone".
\* "after" is history: the changes saved when the number was drawn.
NoEvent == [state |-> "none"]
EventOf(c, k) == [state |-> "open", change |-> c, part |-> k, type |-> Emits[c][k],
                  after |-> {d \in Change : stage[d] = "saved"}]

Ready == [at |-> "ready"]
Resting == [at |-> "resting"]   \* until the interval is over

NoJobs == [n \in Number |-> [s \in Subscriber |-> 0]]

Init ==
  /\ stage = [c \in Change |-> "idle"]
  /\ written = [c \in Change |-> 0]
  /\ drawn = 0
  /\ log = [n \in Number |-> NoEvent]
  /\ published = {}
  /\ jobs = NoJobs
  /\ pub = [p \in Publisher |-> Ready]
  /\ failures = 0

-----------------------------------------------------------------------------
\* Changes.

InOpen(c) == {n \in Number : log[n].state = "open" /\ log[n].change = c}

\* Nobody has the lock of the record.
RecordFree(c) == \A d \in Change : stage[d] = "open" => RecordOf[d] # RecordOf[c]

\* The change's transaction takes the record's lock.
Begin(c) ==
  /\ stage[c] = "idle" /\ RecordFree(c)
  /\ stage' = [stage EXCEPT ![c] = "open"]
  /\ UNCHANGED <<written, drawn, log, published, jobs, pub, failures>>

\* Inserts the next event of the change.
AppendEvent(c) ==
  /\ stage[c] = "open" /\ written[c] < Len(Emits[c])
  /\ drawn < MaxNumber
  /\ drawn' = drawn + 1
  /\ written' = [written EXCEPT ![c] = @ + 1]
  /\ log' = [log EXCEPT ![drawn + 1] = EventOf(c, written[c] + 1)]
  /\ UNCHANGED <<stage, published, jobs, pub, failures>>

\* The change's transaction ends, and its events become so.
Ends(c, state) ==
  /\ log' = [n \in Number |-> IF n \in InOpen(c) THEN [log[n] EXCEPT !.state = state] ELSE log[n]]
  /\ written' = [written EXCEPT ![c] = 0]

Save(c) ==
  /\ stage[c] = "open" /\ written[c] = Len(Emits[c])
  /\ stage' = [stage EXCEPT ![c] = "saved"]
  /\ Ends(c, "saved")
  /\ UNCHANGED <<drawn, published, jobs, pub, failures>>

\* Rolled back: the request failed or its process stopped, and is sent again.
Undo(c) ==
  /\ stage[c] = "open"
  /\ stage' = [stage EXCEPT ![c] = "idle"]
  /\ Ends(c, "gone")
  /\ UNCHANGED <<drawn, published, jobs, pub, failures>>

-----------------------------------------------------------------------------
\* Publishers.

\* What a publisher that looks now finds to publish.
Waiting == {n \in Number : log[n].state = "saved" /\ n \notin published}

\* Fault: the newest first.
Oldest_Newest(S) == {n \in S : Cardinality({m \in S : m > n}) < Batch}

\* The first of S, as many as a batch takes.
Oldest(S) == {n \in S : Cardinality({m \in S : m < n}) < Batch}

\* No publisher's transaction has the advisory lock.
LockFree == \A p \in Publisher : pub[p].at \notin {"reading", "dispatching", "marking"}

\* Tries for the lock; a publisher that does not get it rests.
TryLock(p) ==
  /\ pub[p] = Ready
  /\ pub' = [pub EXCEPT ![p] = IF LockFree THEN [at |-> "reading"] ELSE Resting]
  /\ UNCHANGED <<stage, written, drawn, log, published, jobs, failures>>

Read(p) ==
  /\ pub[p].at = "reading"
  /\ pub' = [pub EXCEPT ![p] =
               IF Waiting = {} THEN Resting
               ELSE [at |-> "dispatching", batch |-> Oldest(Waiting), todo |-> Oldest(Waiting)]]
  /\ UNCHANGED <<stage, written, drawn, log, published, jobs, failures>>

\* The event starts a job of the subscriber.
Starts(n, s) == Answer[log[n].type][s] = "job"

\* Inserts the jobs of the next event.
Dispatch(p) ==
  LET rest == pub[p].todo \ {Min(pub[p].todo)}
  IN  /\ pub[p].at = "dispatching"
      /\ pub' = [pub EXCEPT ![p].at = IF rest = {} THEN "marking" ELSE @, ![p].todo = rest]
      /\ UNCHANGED <<stage, written, drawn, log, published, jobs, failures>>

\* The jobs a publisher's transaction has inserted so far.
Inserted(p, n, s) == IF n \in pub[p].batch \ pub[p].todo /\ Starts(n, s) THEN 1 ELSE 0

\* A batch that was full is followed by the next at once.
NextBatch(p) == IF Cardinality(pub[p].batch) = Batch THEN Ready ELSE Resting

\* Fault: an event is marked only when its jobs are all there.
Marked_Started(p) ==
  {n \in pub[p].batch : \A s \in Subscriber : Answer[log[n].type][s] \in {"job", "absent"}}

Marked(p) == pub[p].batch

\* Marks the batch published and commits, jobs and all.
Mark(p) ==
  /\ pub[p].at = "marking"
  /\ published' = published \cup Marked(p)
  /\ jobs' = [n \in Number |-> [s \in Subscriber |-> jobs[n][s] + Inserted(p, n, s)]]
  /\ pub' = [pub EXCEPT ![p] = NextBatch(p)]
  /\ UNCHANGED <<stage, written, drawn, log, failures>>

\* The interval is over, or the process is started again.
Wake(p) ==
  /\ pub[p] = Resting
  /\ pub' = [pub EXCEPT ![p] = Ready]
  /\ UNCHANGED <<stage, written, drawn, log, published, jobs, failures>>

\* Fault: jobs stay when the transaction is rolled back.
Kept_Inserted(p, n, s) == IF pub[p].at # "reading" THEN Inserted(p, n, s) ELSE 0

\* What is left of the jobs when the transaction is rolled back.
Kept(p, n, s) == 0

\* The database fails or the process stops: the transaction is rolled back.
Fail(p) ==
  /\ pub[p].at \in {"reading", "dispatching", "marking"} /\ failures < MaxFailures
  /\ failures' = failures + 1
  /\ jobs' = [n \in Number |-> [s \in Subscriber |-> jobs[n][s] + Kept(p, n, s)]]
  /\ pub' = [pub EXCEPT ![p] = Resting]
  /\ UNCHANGED <<stage, written, drawn, log, published>>

-----------------------------------------------------------------------------
Publish(p) == TryLock(p) \/ Read(p) \/ Dispatch(p) \/ Mark(p) \/ Wake(p)

Next ==
  \/ \E c \in Change : Begin(c) \/ AppendEvent(c) \/ Save(c) \/ Undo(c)
  \/ \E p \in Publisher : Publish(p) \/ Fail(p)

Spec == Init /\ [][Next]_vars

\* Run goes on in every process.  Nothing makes a change go on.
FairSpec == Spec /\ \A p \in Publisher : WF_vars(Publish(p))

-----------------------------------------------------------------------------
\* Properties.

State == {"open", "saved", "gone"}
Entry == [state : State, change : Change, part : Nat \ {0}, type : Type, after : SUBSET Change]
Jobs == [Number -> [Subscriber -> Nat]]

\* Every variable has the shape the code gives it, and the advisory lock has
\* one holder.
TypeOK ==
  /\ stage \in [Change -> {"idle", "open", "saved"}]
  /\ written \in [Change -> Nat]
  /\ drawn \in Nat
  /\ log \in [Number -> Entry \cup {NoEvent}]
  /\ published \subseteq {n \in Number : log[n].state = "saved"}
  /\ jobs \in Jobs
  /\ pub \in [Publisher -> {Ready, Resting, [at |-> "reading"]} \cup
                [at : {"dispatching", "marking"}, batch : SUBSET Number, todo : SUBSET Number]]
  /\ \A p, q \in Publisher :
       pub[p] \notin {Ready, Resting} /\ pub[q] \notin {Ready, Resting} => p = q

\* "In the order they were written" (Publisher), as far as it is true: no event
\* is published before one of a change that was saved before this one drew its
\* number.  Only changes that overlapped may pass each other, though numbers
\* are drawn at the insert and seen at the commit.
OrderKept ==
  \A n \in published : \A m \in Number :
    log[m].state = "saved" /\ log[m].change \in log[n].after => m \in published

\* What waits of a record.
WaitingOf(r) == {n \in Waiting : RecordOf[log[n].change] = r}

\* Which event of which change a number stands for.
Part(n) == <<log[n].change, log[n].part>>

\* The queue of a record, as those see it who look at what is saved.
Queue(r) == [k \in DOMAIN Ascending(WaitingOf(r)) |-> Part(Ascending(WaitingOf(r))[k])]

\* The numbers drawn for an event, over all tries of its change.
Drawn(e) == {n \in Number : log[n] # NoEvent /\ Part(n) = e}

\* How often the event's job of the subscriber was started.
Started(e, s) == SumFunctionOnSet([n \in Number |-> jobs[n][s]], Drawn(e))

Wants == [t \in Type |-> {s \in Subscriber : Answer[t][s] = "job"}]

Promise == INSTANCE OutboxPromise WITH
  saved <- {c \in Change : stage[c] = "saved"},
  queue <- [r \in Record |-> Queue(r)],
  started <- [e \in UNION {{<<c, k>> : k \in DOMAIN Emits[c]} : c \in Change} |->
               [s \in Wants[Emits[e[1]][e[2]]] |-> Started(e, s)]]

\* A change is saved together with its events, those of one record leave in
\* the order they were made, and each starts its jobs exactly once, through
\* rollbacks, failed batches and publishers that work side by side.
KeepsPromise == Promise!Spec

\* The events of a saved change are all published in the end: "one bad event
\* cannot hold up the outbox" (Dispatcher), nor a batch that failed, a hole in
\* the numbers, or a publisher that stopped.
AllPublished ==
  \A c \in Change : stage[c] = "saved" ~> \A n \in Waiting : log[n].change # c

=============================================================================
