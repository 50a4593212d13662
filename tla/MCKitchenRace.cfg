\* The first orders of two days are confirmed, and the days have no batch yet.
SPECIFICATION Spec
CONSTANTS
  r1 = r1
  r2 = r2
  p1 = p1
  p2 = p2
  Day = {1, 2}
  Ingredient = {1}
  Supplier <- FlourSupplier
  Pack <- FlourPack
  Purchase = {}
  Runner = {r1, r2}
  Beginning <- NoDayYet
  MaxQty = 1
  MaxChanges = 3
  MaxFailures = 0
  Breakable = FALSE
INVARIANT NoGramTwice
CHECK_DEADLOCK FALSE
