---------------------------- MODULE OrderPromise ----------------------------
(***************************************************************************)
(* What the shop promises about an order and its money, with no ledger,    *)
(* invoice, deadline or worker in sight.  An order is opened, paid in part *)
(* or whole, baked and handed over; or it is over, and then either nothing *)
(* had been paid, or the part paid is kept, or everything is returned.     *)
(* No cake is baked or handed over on credit, and money paid in whole is   *)
(* never kept for nothing.                                                 *)
(***************************************************************************)
CONSTANT Order

VARIABLES stage, money
vars == <<stage, money>>

Stage == {"cart", "open", "committed", "kitchen", "handed", "over"}
Money == {"nothing", "part", "whole", "kept", "returned"}

Init ==
  /\ stage = [o \in Order |-> "cart"]
  /\ money = [o \in Order |-> "nothing"]

Becomes(o, s, m) ==
  /\ stage' = [stage EXCEPT ![o] = s]
  /\ money' = [money EXCEPT ![o] = m]

Open(o) == stage[o] = "cart" /\ Becomes(o, "open", "nothing")

Pay(o) ==
  /\ stage[o] \in {"open", "committed"}
  /\ money[o] \in {"nothing", "part"}
  /\ \E m \in {"part", "whole"} : Becomes(o, "committed", m)

Bake(o) ==
  /\ stage[o] = "committed" /\ money[o] = "whole"
  /\ Becomes(o, "kitchen", "whole")

HandOver(o) ==
  /\ stage[o] = "kitchen" /\ money[o] = "whole"
  /\ Becomes(o, "handed", "whole")

Lapse(o) ==
  /\ stage[o] = "open" /\ money[o] = "nothing"
  /\ Becomes(o, "over", "nothing")

Keep(o) ==
  /\ stage[o] = "committed" /\ money[o] = "part"
  /\ Becomes(o, "over", "kept")

Return(o) ==
  /\ stage[o] = "committed" /\ money[o] \in {"part", "whole"}
  /\ Becomes(o, "over", "returned")

Next ==
  \E o \in Order :
    \/ Open(o) \/ Pay(o) \/ Bake(o) \/ HandOver(o)
    \/ Lapse(o) \/ Keep(o) \/ Return(o)

Spec == Init /\ [][Next]_vars

=============================================================================
