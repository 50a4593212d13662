------------------------------ MODULE MCStock ------------------------------
(***************************************************************************)
(* A small kitchen for TLC: flour (1) keeps three units of time, milk (2)  *)
(* keeps but has to be looked at.                                          *)
(***************************************************************************)
EXTENDS Stock, TLC

Receive(key, i, qty, ago) == [kind |-> "receive", key |-> key, ingredient |-> i, qty |-> qty, ago |-> ago]
Count(key, i, qty) == [kind |-> "count", key |-> key, ingredient |-> i, qty |-> qty]
Consume(batch, list) == [kind |-> "consume", batch |-> batch, list |-> list]
Purchase(key, batch, list) ==
  [kind |-> "purchase", key |-> key, batch |-> batch, list |-> list, ago |-> 0]
Of(i, qty) == [ingredient |-> i, qty |-> qty]

Requests ==
  [ r1 |-> Receive("a", 1, 2, 1), r1b |-> Receive("a", 1, 2, 1),
    n1 |-> Count("a", 1, 3), d1 |-> [kind |-> "discard"], u1 |-> Consume(11, <<Of(1, 3)>>),
    r2 |-> Receive("b", 2, 1, 0), k2 |-> [kind |-> "ok"],
    u12 |-> Consume(11, <<Of(1, 1), Of(2, 1)>>), u21 |-> Consume(12, <<Of(2, 1), Of(1, 1)>>),
    p12 |-> Purchase("p", 12, <<Of(1, 2), Of(2, 1)>>), p12b |-> Purchase("p", 12, <<Of(1, 2), Of(2, 1)>>) ]

Calls == DOMAIN Requests

\* A delivery of flour of the day before, sent twice at once, a count and a
\* batch; the same with a lot thrown away; a delivery of milk, a look at it, and
\* two batches that use both, listed differently; or an order of both, entered
\* twice, a batch that is finished meanwhile, and a lot thrown away.
Together == { {"r1", "r1b", "n1", "u1"}, {"r1", "n1", "d1", "u1"}, {"r2", "k2", "u12", "u21"},
              {"p12", "p12b", "u21", "d1"} }

Rules == (1 :> "auto") @@ (2 :> "confirm")
Keeps == (1 :> 3) @@ (2 :> Never)

=============================================================================
