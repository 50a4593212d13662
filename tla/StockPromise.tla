---------------------------- MODULE StockPromise ----------------------------
(***************************************************************************)
(* What the kitchen's stock promises, with no lots, locks or retries in    *)
(* sight: a number of each ingredient.  Every delivery and every count the *)
(* kitchen enters changes it once, however often it is sent; a count makes *)
(* it what was counted; and all else only takes away, never more than is   *)
(* there.                                                                  *)
(***************************************************************************)
EXTENDS Integers

CONSTANTS
  Ingredient,
  Entry,   \* deliveries and counts the kitchen enters
  Says     \* of each: whether it is a count, and how much of which ingredients

VARIABLES
  shelf,    \* how much there is of each ingredient
  entered   \* the entries that had their effect

vars == <<shelf, entered>>

Init == shelf = [i \in Ingredient |-> 0] /\ entered = {}

Brought(e, i) == IF i \in DOMAIN Says[e].brings THEN Says[e].brings[i] ELSE 0

\* All of a delivery arrives, or nothing.
Deliver(e) ==
  /\ ~Says[e].counts
  /\ shelf' = [i \in Ingredient |-> shelf[i] + Brought(e, i)]

Recount(e) ==
  /\ Says[e].counts
  /\ shelf' = [i \in Ingredient |-> IF i \in DOMAIN Says[e].brings THEN Brought(e, i) ELSE shelf[i]]

Enter(e) ==
  /\ e \notin entered
  /\ entered' = entered \cup {e}
  /\ Deliver(e) \/ Recount(e)

\* A batch is made, or something is thrown away.
Take ==
  /\ shelf' \in [Ingredient -> Nat]
  /\ \A i \in Ingredient : shelf'[i] <= shelf[i]
  /\ entered' = entered

Next == Take \/ \E e \in Entry : Enter(e)

Spec == Init /\ [][Next]_vars

=============================================================================
