------------------------------ MODULE MCQuotes ------------------------------
(***************************************************************************)
(* A small Quotes for TLC: days of 12 minutes, pickups from 4 to 8, three  *)
(* days tried.  Basis points are tenths and VAT is one of them, so that    *)
(* every rounding happens on small amounts.                                *)
(***************************************************************************)
EXTENDS Quotes

\* Wishes of the second day and the third, inside pickup hours and outside.
Pickups == {16, 18, 21, 28, 30, 33}

Carts == { [production |-> 1, notice |-> 0, total |-> 7, ingredients |-> 5],
           [production |-> 6, notice |-> 5, total |-> 4, ingredients |-> 2],
           [production |-> 1, notice |-> 40, total |-> 3, ingredients |-> 9] }

AllAsks == {[now |-> n, pickup |-> t, production |-> c.production, notice |-> c.notice,
             total |-> c.total, ingredients |-> c.ingredients] :
               n \in {12, 15, 18}, t \in Pickups, c \in Carts}

AllCalendars == [closed : {{}, {1}, {2}, {1, 2}, {2, 4, 5}}, cutoffs : {<<>>, <<16, 19>>}]

AllSettings == {[buffer |-> b, opens |-> 4, closes |-> 8] : b \in {0, 3}}

Policy(percent, covers, hours, valid, dpMin, least) ==
  [percent |-> percent, coversCost |-> covers, balanceHours |-> hours,
   validFor |-> valid, dpMinTotal |-> dpMin, minOrder |-> least]

AllPolicies == { Policy(50, TRUE, 0, 4, 0, 0), Policy(33, FALSE, 4, 2, 5, 0),
                 Policy(100, TRUE, 2, 9, 0, 5) }

Rule(method, fixed, rate, included) ==
  [method |-> method, fixed |-> fixed, rate |-> rate, vatIncluded |-> included]

AllRules == { Rule("qris", 0, 1, TRUE), Rule("other", 4, 0, FALSE),
              Rule("other", 0, 3, TRUE), Rule("other", 1, 2, FALSE) }

=============================================================================
