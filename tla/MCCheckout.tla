----------------------------- MODULE MCCheckout -----------------------------
(***************************************************************************)
(* Small instances of Checkout for TLC.  Days have 8 minutes.              *)
(***************************************************************************)
EXTENDS Checkout, TLC

CONSTANTS r1, r2, r3

Cart(customer, key, pickup) ==
  [customer |-> customer, key |-> key, pickup |-> pickup, production |-> 1]

\* One customer's double click and one more order, for the same day.
OneCustomer ==
  r1 :> Cart("ann", 1, 4) @@ r2 :> Cart("ann", 1, 4) @@ r3 :> Cart("ann", 2, 5)

\* Two customers, the second for a later hour of the same day.
TwoCustomers == r1 :> Cart("ann", 1, 4) @@ r2 :> Cart("bob", 1, 7)

ShopSettings == [buffer |-> 2, opens |-> 3, closes |-> 7]

=============================================================================
