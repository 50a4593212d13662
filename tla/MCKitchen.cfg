\* Two days whose batches exist, two runners, a failure and a broken recipe.
SPECIFICATION Spec
CONSTANTS
  r1 = r1
  r2 = r2
  p1 = p1
  p2 = p2
  Day = {1, 2}
  Ingredient = {1}
  Supplier <- FlourSupplier
  Pack <- FlourPack
  Purchase = {p1, p2}
  Runner = {r1, r2}
  Beginning <- TwoDays
  MaxQty = 1
  MaxChanges = 2
  MaxFailures = 1
  Breakable = TRUE
SYMMETRY Alike
INVARIANTS
  TypeOK
  OnOrderIsSum
  Settled
PROPERTIES
  OrderedOnce
  StatusMovesOn
CHECK_DEADLOCK FALSE
