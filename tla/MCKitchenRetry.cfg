\* The recipe of one day breaks and the computation of another fails.
SPECIFICATION Spec
CONSTANTS
  r1 = r1
  r2 = r2
  p1 = p1
  p2 = p2
  Day = {1, 2}
  Ingredient = {1}
  Supplier <- FlourSupplier
  Pack <- FlourPack
  Purchase = {}
  Runner = {r1}
  Beginning <- OpenDays
  MaxQty = 1
  MaxChanges = 4
  MaxFailures = 1
  Breakable = TRUE
INVARIANT FailureIsRetried
CHECK_DEADLOCK FALSE
