\* An early order is committed, its batch locked, and then it is cancelled.
SPECIFICATION Spec
CONSTANTS
  r1 = r1
  r2 = r2
  r3 = r3
  Day = 8
  Hour = 1
  MinWindow = 1
  MaxAdvance = 20
  SuggestDays = 1
  SuggestStep = 1
  Request = {r1, r2}
  Sent <- TwoCustomers
  Settings <- ShopSettings
  ValidFor = 2
  MaxUnpaid = 2
  MaxTries = 1
  MaxTime = 2
PROPERTIES
  LockedTakesNoOrders
CHECK_DEADLOCK FALSE
