------------------------------- MODULE MCShop -------------------------------
(***************************************************************************)
(* A small shop for TLC: the quotes of MCQuotes, the recipes of a small    *)
(* kitchen and what they come to, or what staff set while others do.  They *)
(* share no state; a behaviour does one of the three.                      *)
(***************************************************************************)
EXTENDS MCQuotes, Edits, Recipes, TLC

At(u, amount) == [u |-> u, amount |-> amount]
Points == {At(u, amount) : u \in {1, 2, 4}, amount \in {0, 3, 5}}
Measured ==
  {<<At(1, 3)>>, <<At(4, 0)>>} \cup {<<At(2, 3), q>> : q \in Points} \cup
  {<<At(1, 2), At(2, 5), At(2, 3)>>, <<At(4, 9), At(1, 1), At(2, 4)>>, <<At(1, 4), At(2, 4), At(4, 9)>>}

Fit(type, points, waste) == [from |-> "points", type |-> type, points |-> points, waste |-> waste]
Given(model, waste) == [from |-> "params", points |-> <<>>, waste |-> waste, model |-> model]
Line(a, b) == [type |-> "affine", a |-> a, b |-> b]
Through(points) == [type |-> "piecewise", points |-> points]

\* The dough (1) and the topping (2) take flour (1) and eggs (2).
Entered ==
  [l \in {1, 2} \X {1, 2} |->
     IF l = <<1, 1>> THEN {Fit(t, ps, <<1, 1>>) : t \in {"affine", "piecewise"}, ps \in Measured}
     ELSE IF l[2] = 1 THEN {Given(Line(<<1, 1>>, <<6, 1>>), <<3, 2>>), Given(Line(<<5, 1>>, <<-1, 1>>), <<1, 1>>),
                                  Given([type |-> "power", a |-> <<2, 1>>, b |-> 2], <<1, 1>>)}
     ELSE {Given(Line(<<0, 1>>, <<1, 5>>), <<1, 1>>), Fit("piecewise", <<At(2, 1)>>, <<1, 1>>),
           Given(Through(<<At(1, <<3, 1>>), At(2, <<2, 1>>)>>), <<1, 1>>)}]

\* A cake of one dough and half a topping, or a small one of both.
Composed == { (1 :> <<1, 1>>) @@ (2 :> <<1, 2>>), (1 :> <<1, 2>>) @@ (2 :> <<1, 4>>), 1 :> <<2, 1>> }

Prices == <<<<3, 2>>, <<2, 1>>>>
Batches == [Variant -> 0 .. 2]

-----------------------------------------------------------------------------
FeeRule(enabled, fee) == [enabled |-> enabled, fee |-> fee]
Set(thing, value) == [kind |-> "set", thing |-> thing, value |-> value]

\* Two owners and the kitchen: both methods are switched off, one is reset, the
\* policy changes back and forth, a price changes twice, and packs of flour.
Requests ==
  [ off1 |-> Set("qris", FeeRule(FALSE, 1)), off2 |-> Set("transfer", FeeRule(FALSE, 2)),
    on1 |-> Set("qris", FeeRule(TRUE, 3)), reset1 |-> [kind |-> "reset", thing |-> "qris"],
    policy1 |-> Set("policy", 2), policy2 |-> Set("policy", 1),
    price1 |-> Set("cake", 5), price2 |-> Set("cake", 6), price3 |-> Set("cake", 4),
    pack1 |-> [kind |-> "default", pack |-> "bag"], pack2 |-> [kind |-> "default", pack |-> "sack"] ]

Defaults == "qris" :> FeeRule(TRUE, 1) @@ "transfer" :> FeeRule(TRUE, 2) @@ "policy" :> 1
Sent == DOMAIN Requests
FirstPrices == [v \in {"cake"} |-> 4]
Packs == "bag" :> "flour" @@ "sack" :> "flour" @@ "box" :> "eggs"

-----------------------------------------------------------------------------
VARIABLE doing  \* what the behaviour is about

\* One quote of no consequence.
NoQuotes ==
  /\ ask = CHOOSE a \in Asks : TRUE
  /\ calendar = CHOOSE c \in Calendars : TRUE
  /\ settings = CHOOSE s \in Settings : TRUE
  /\ policy = CHOOSE p \in Policies : TRUE
  /\ quote = Quote(ask, calendar, settings, policy)

NoRecipes == RecipesInit /\ uses = CHOOSE u \in [Variant -> UsesInputs] : TRUE
NoEdits == EditsInit /\ defaults = {}

Shop ==
  /\ \/ doing = "quotes" /\ Init /\ NoRecipes /\ NoEdits
     \/ doing = "recipes" /\ NoQuotes /\ RecipesInit /\ NoEdits
     \/ doing = "edits" /\ NoQuotes /\ NoRecipes /\ EditsInit
  /\ [][ /\ \/ doing = "quotes" /\ Next /\ UNCHANGED <<recipes, editsVars>>
            \/ doing = "recipes" /\ RecipesNext /\ UNCHANGED <<vars, editsVars>>
            \/ doing = "edits" /\ EditsNext /\ UNCHANGED <<vars, recipes>>
         /\ UNCHANGED doing ]_<<vars, recipes, editsVars, doing>>

=============================================================================
