------------------------------ MODULE Recipes ------------------------------
(***************************************************************************)
(* The recipes of the catalog (packages catalog and recipe) and what is    *)
(* worked out from them: what a batch needs (aggregation's Totals) and     *)
(* what the ingredients of an item cost, for its DP (IngredientCosts).     *)
(*                                                                         *)
(* A line says how much of an ingredient some units of a component take,   *)
(* as a line a + b*u or through measured points, given or fitted, or as a  *)
(* whole power of them.  Edits lock the component or the variant, and are  *)
(* a step each.                                                            *)
(*                                                                         *)
(* Amounts are fractions; measured points are at whole numbers of units.   *)
(***************************************************************************)
EXTENDS Fractions, Sorting, Sequences

CONSTANTS
  Component,
  Ingredient,
  Variant,
  Pieces,      \* the ingredients bought by the piece, not by weight or volume
  Price,       \* rupiah per base unit, a fraction; nothing without a priced pack
  LineInputs,  \* what staff may enter for a component and an ingredient
  UsesInputs,  \* the components staff may give a variant, with units per item
  Baskets,     \* what a batch may be: so many of each variant
  MaxEvents    \* bound: edits that change something

Point == [u : Nat \ {0}, amount : Nat]

\* What a recipe line may say: whether it is sound is another matter.
Model ==
  [type : {"affine"}, a : Fraction, b : Fraction] \cup
  [type : {"power"}, a : Fraction, b : Int] \cup
  [type : {"piecewise"}, points : Seq([u : Int, amount : Fraction])]

\* Points are measured above zero, and nothing lost is a waste factor of 1.
IsLineInput(in) ==
  /\ in.points \in Seq(Point) /\ in.waste \in Fraction /\ AtMost(Whole(1), in.waste)
  /\ \/ in.from = "points" /\ in.points # <<>>
     \/ in.from = "params" /\ in.model \in Model

\* So many units of some of the components.
IsUses(u) ==
  /\ DOMAIN u \subseteq Component
  /\ \A c \in DOMAIN u : u[c] \in Fraction /\ u[c][1] > 0

ASSUME RecipesAssumption ==
  /\ IsFiniteSet(Component) /\ IsFiniteSet(Ingredient) /\ IsFiniteSet(Variant)
  /\ \A i \in Ingredient : Price[i] \in Fraction /\ Price[i][1] >= 0
  /\ \A l \in Component \X Ingredient : \A in \in LineInputs[l] : IsLineInput(in)
  /\ \A u \in UsesInputs : IsUses(u)
  /\ Baskets \subseteq [Variant -> Nat]

VARIABLES
  lines,   \* of each component and ingredient
  uses,    \* of each variant: units of its components
  events   \* how many recipe_changed events were written

recipes == <<lines, uses, events>>

-----------------------------------------------------------------------------
\* Models.

Refused == [type |-> "refused"]
Affine(a, b) == [type |-> "affine", a |-> a, b |-> b]
Piecewise(points) == [type |-> "piecewise", points |-> points]

\* Where measured points start from.
Origin == [u |-> 0, amount |-> Whole(0)]

\* The sum of f over the measured points.
SumPoints(f, points) == SumFunctionOnSet(f, DOMAIN points)

UnitsIn(points) == {points[n].u : n \in DOMAIN points}

\* Least squares: of a + b*u, and of b*u.
LeastSquares(points) ==
  LET n == Len(points)
      u == SumPoints([k \in 1 .. n |-> points[k].u], points)
      q == SumPoints([k \in 1 .. n |-> points[k].amount], points)
      uu == SumPoints([k \in 1 .. n |-> points[k].u * points[k].u], points)
      uq == SumPoints([k \in 1 .. n |-> points[k].u * points[k].amount], points)
  IN  [a |-> <<q * uu - u * uq, n * uu - u * u>>, b |-> <<n * uq - u * q, n * uu - u * u>>]

ThroughOrigin(points) ==
  LET n == Len(points)
  IN  <<SumPoints([k \in 1 .. n |-> points[k].u * points[k].amount], points),
        SumPoints([k \in 1 .. n |-> points[k].u * points[k].u], points)>>

FitAffine(points) ==
  LET best == LeastSquares(points)
  IN  IF Cardinality(UnitsIn(points)) < 2 THEN Affine(Whole(0), ThroughOrigin(points))
      ELSE IF best.b[1] < 0 THEN Refused
      ELSE IF best.a[1] < 0 THEN Affine(Whole(0), ThroughOrigin(points))
      ELSE Affine(best.a, best.b)

\* Where so many units were measured, and the average there.
MeasuredAt(points, u) == {n \in DOMAIN points : points[n].u = u}
Average(points, u) ==
  LET here == MeasuredAt(points, u)
  IN  <<SumFunctionOnSet([n \in here |-> points[n].amount], here), Cardinality(here)>>

\* Sorted by units, the amounts of equal units averaged.
MergeByUnits(points) ==
  LET us == Ascending(UnitsIn(points))
  IN  [n \in DOMAIN us |-> [u |-> us[n], amount |-> Average(points, us[n])]]

FitPiecewise(points) == Piecewise(MergeByUnits(points))

\* The points of a piecewise model, with the one they start from.
Knot(m, n) == IF n = 0 THEN Origin ELSE m.points[n]

\* Fault: what is entered is taken as it is.
Sound_Always(m) == m # Refused

\* A model that may be stored (NewAffine, NewPiecewise): what it takes never
\* falls, so that Validate finds nothing more.
Sound(m) ==
  \/ m.type = "affine" /\ m.a[1] >= 0 /\ m.b[1] >= 0
  \/ m.type = "power" /\ m.a[1] >= 0 /\ m.b >= 0
  \/ /\ m.type = "piecewise" /\ m.points # <<>>
     /\ \A n \in DOMAIN m.points :
          Knot(m, n - 1).u < Knot(m, n).u /\ AtMost(Knot(m, n - 1).amount, Knot(m, n).amount)

\* The point that ends the segment of u; past the last one, the last one.
Segment(m, u) ==
  LET reached == {n \in DOMAIN m.points : AtMost(u, Whole(m.points[n].u))}
  IN  IF reached = {} THEN Len(m.points) ELSE Min(reached)

\* On the line through lo and hi.
Along(lo, hi, u) ==
  LET rise == Plus(hi.amount, Times(Whole(-1), lo.amount))
  IN  Plus(lo.amount, Times(Times(rise, <<1, hi.u - lo.u>>), Plus(u, Whole(-lo.u))))

\* What u units take.
Resolve(m, u) ==
  IF u[1] = 0 THEN Whole(0)
  ELSE IF m.type = "affine" THEN Plus(m.a, Times(m.b, u))
  ELSE IF m.type = "power" THEN Times(m.a, Power(u, m.b))
  ELSE Along(Knot(m, Segment(m, u) - 1), Knot(m, Segment(m, u)), u)

\* One component's part of an ingredient, in whole base units.
Quantity(line, i, u) ==
  LET x == Times(Resolve(line.model, u), line.waste)
  IN  IF i \in Pieces THEN Ceil(x) ELSE Floor(Plus(x, <<1, 2>>))

-----------------------------------------------------------------------------
\* Edits.

NoLine == [version |-> 0]

\* The model an input stands for; a formula, and a fitted power, are left out.
ModelOf(in) ==
  IF in.from = "params" THEN in.model
  ELSE IF in.type = "affine" THEN FitAffine(in.points)
  ELSE FitPiecewise(in.points)

RecipesInit ==
  /\ lines = [l \in Component \X Ingredient |-> NoLine]
  /\ uses \in [Variant -> UsesInputs]
  /\ events = 0

\* Saving the same again changes nothing and writes no event, here and below.
SetRecipeLine(l, in) ==
  LET old == lines[l]
      new == [model |-> ModelOf(in), points |-> in.points, waste |-> in.waste,
              version |-> old.version + 1]
  IN  /\ Sound(new.model)
      /\ old = NoLine \/ [new EXCEPT !.version = old.version] # old
      /\ lines' = [lines EXCEPT ![l] = new]
      /\ events' = events + 1
      /\ UNCHANGED uses

RemoveRecipeLine(l) ==
  /\ lines[l] # NoLine
  /\ lines' = [lines EXCEPT ![l] = NoLine]
  /\ events' = events + 1
  /\ UNCHANGED uses

SetVariantComponents(v, u) ==
  /\ uses[v] # u
  /\ uses' = [uses EXCEPT ![v] = u]
  /\ events' = events + 1
  /\ UNCHANGED lines

EditRecipe ==
  \/ \E l \in Component \X Ingredient :
       RemoveRecipeLine(l) \/ \E in \in LineInputs[l] : SetRecipeLine(l, in)
  \/ \E v \in Variant, u \in UsesInputs : SetVariantComponents(v, u)

RecipesNext == events < MaxEvents /\ EditRecipe

RecipesSpec == RecipesInit /\ [][RecipesNext]_recipes

-----------------------------------------------------------------------------
\* What is worked out.

InUse(v, c) == IF c \in DOMAIN uses[v] THEN uses[v][c] ELSE Whole(0)

\* U_c: how many units of a component a batch makes, for all its orders at once.
Units(basket, c) == SumOf([v \in Variant |-> Times(Whole(basket[v]), InUse(v, c))], Variant)

\* The components with a line for the ingredient that the batch makes.
Makes(basket, i) == {c \in Component : lines[<<c, i>>] # NoLine /\ Units(basket, c)[1] > 0}

\* Every component's part is rounded on its own.
Part(basket, i, c) == Quantity(lines[<<c, i>>], i, Units(basket, c))
Need(basket, i) == SumFunction([c \in Makes(basket, i) |-> Part(basket, i, c)])

\* The ingredients of a component.
Takes(c) == {i \in Ingredient : lines[<<c, i>>] # NoLine}

\* Fault: what is lost in the kitchen costs nothing.
PerUnit_NoWaste(c) ==
  SumOf([i \in Takes(c) |-> Times(Resolve(lines[<<c, i>>].model, Whole(1)), Price[i])], Takes(c))

\* What a unit of a component costs, taken alone.
CostOf(c, i) == Times(Times(Resolve(lines[<<c, i>>].model, Whole(1)), lines[<<c, i>>].waste), Price[i])
PerUnit(c) == SumOf([i \in Takes(c) |-> CostOf(c, i)], Takes(c))

PerItem(v) == Ceil(SumOf([c \in DOMAIN uses[v] |-> Times(uses[v][c], PerUnit(c))], DOMAIN uses[v]))

\* The ingredient cost of a cart (Checkout.ingredientCost).
Estimate(basket) == SumFunction([v \in Variant |-> basket[v] * PerItem(v)])

-----------------------------------------------------------------------------
\* Properties.

\* "More units never need less of an ingredient" (package recipe), and so no
\* further order makes a batch need less of anything, whatever was entered or
\* measured, however it is split over components and rounded (Totals).
MoreNeverLess ==
  \A b, more \in Baskets :
    (\A v \in Variant : b[v] <= more[v]) => \A i \in Ingredient : Need(b, i) <= Need(more, i)

\* The estimate a DP has to cover is enough for what the order alone takes, but
\* for the rounding of each line: for lines a + b*u, entered or fitted, and at
\* least a unit of each component (IngredientCosts, FitAffine).
EstimateCovers ==
  \A b \in Baskets :
    (/\ \A l \in DOMAIN lines : lines[l] # NoLine => lines[l].model.type = "affine"
     /\ \A c \in Component : Units(b, c)[1] = 0 \/ AtMost(Whole(1), Units(b, c)))
    => LET rounded(i) == Need(b, i) - Cardinality(Makes(b, i))
       IN  AtMost(SumOf([i \in Ingredient |-> Times(Whole(rounded(i)), Price[i])], Ingredient),
                  Whole(Estimate(b)))

=============================================================================
