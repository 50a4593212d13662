----------------------------- MODULE Fractions -----------------------------
(***************************************************************************)
(* Fractions, <<numerator, denominator>>: the float64 of the code without  *)
(* its noise, which every rounding there allows for.                       *)
(***************************************************************************)
EXTENDS Integers, FiniteSetsExt, Functions

Fraction == Int \X (Nat \ {0})

Whole(n) == <<n, 1>>
Plus(x, y) == IF x[2] = y[2] THEN <<x[1] + y[1], x[2]>>
              ELSE <<x[1] * y[2] + y[1] * x[2], x[2] * y[2]>>
Times(x, y) == <<x[1] * y[1], x[2] * y[2]>>
AtMost(x, y) == x[1] * y[2] <= y[1] * x[2]
Floor(x) == x[1] \div x[2]
Ceil(x) == -((-x[1]) \div x[2])

\* x to the power of n.
Power(x, n) == LET power[k \in 0 .. n] == IF k = 0 THEN Whole(1) ELSE Times(x, power[k - 1])
               IN  power[n]

\* The sum of f's values on S.
SumOf(f, S) == FoldFunctionOnSet(Plus, Whole(0), f, S)

=============================================================================
