---------------------------- MODULE OutboxPromise ----------------------------
(***************************************************************************)
(* What the outbox promises: each record that changes has a queue, a       *)
(* change that is saved puts its events at the end of it at once, and a    *)
(* delivery takes the first few of every queue and starts the jobs of      *)
(* each, once.  A change that is not saved leaves nothing.                 *)
(***************************************************************************)
EXTENDS Integers, Sequences, Functions

CONSTANTS
  Change,
  Record,
  RecordOf,   \* the record each change is of
  Emits,      \* the events each change writes
  Wants       \* the jobs that an event starts

VARIABLES
  saved,      \* the changes that were made
  queue,      \* of each record
  started     \* how often each job of each event was started

vars == <<saved, queue, started>>

EventsOf(c) == [k \in DOMAIN Emits[c] |-> <<c, k>>]
Event == UNION {{<<c, k>> : k \in DOMAIN Emits[c]} : c \in Change}

Init ==
  /\ saved = {}
  /\ queue = [r \in Record |-> <<>>]
  /\ started = [e \in Event |-> [j \in Wants[Emits[e[1]][e[2]]] |-> 0]]

Save(c) ==
  /\ c \notin saved
  /\ saved' = saved \cup {c}
  /\ queue' = [queue EXCEPT ![RecordOf[c]] = @ \o EventsOf(c)]
  /\ UNCHANGED started

\* The first few of each queue leave.
Deliver ==
  /\ queue' # queue
  /\ \A r \in Record : \E few \in 0 .. Len(queue[r]) :
       queue'[r] = SubSeq(queue[r], few + 1, Len(queue[r]))
  /\ LET leave == UNION {Range(queue[r]) \ Range(queue'[r]) : r \in Record}
     IN  started' = [e \in Event |-> [j \in DOMAIN started[e] |->
                       started[e][j] + IF e \in leave THEN 1 ELSE 0]]
  /\ UNCHANGED saved

Next == (\E c \in Change : Save(c)) \/ Deliver

Spec == Init /\ [][Next]_vars

=============================================================================
