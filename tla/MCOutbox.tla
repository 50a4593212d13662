------------------------------ MODULE MCOutbox ------------------------------
(***************************************************************************)
(* A payment that confirms an order, the order's cancellation and a change *)
(* of the stock, with the jobs they start.                                 *)
(***************************************************************************)
EXTENDS Outbox, TLC

\* The first two are about one order.
Records == "payment" :> "order" @@ "cancel" :> "order" @@ "delivery" :> "stock"
Writes == "payment" :> <<"payment_received", "confirmed">>
          @@ "cancel" :> <<"cancelled">> @@ "delivery" :> <<"stock_changed">>

Billing == "billing"
Kitchen == "kitchen"

Makes(billing, kitchen) == Billing :> billing @@ Kitchen :> kitchen

\* The cancellation cannot be read by the kitchen's subscriber, but a third
\* module's can; nobody asks for the stock now and then.
Answers == "payment_received" :> Makes("job", "absent") @@ "confirmed" :> Makes("job", "job")
           @@ "cancelled" :> Makes("unreadable", "job") @@ "stock_changed" :> Makes("absent", "nothing")

=============================================================================
