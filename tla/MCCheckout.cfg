\* A double click and one more order of a customer who may have one unpaid.
SPECIFICATION FairSpec
CONSTANTS
  r1 = r1
  r2 = r2
  r3 = r3
  Day = 8
  Hour = 1
  MinWindow = 1
  MaxAdvance = 20
  SuggestDays = 1
  SuggestStep = 1
  Request = {r1, r2, r3}
  Sent <- OneCustomer
  Settings <- ShopSettings
  ValidFor = 2
  MaxUnpaid = 1
  MaxTries = 2
  MaxTime = 1
INVARIANTS
  UnpaidLimit
PROPERTIES
  TwinGetsTheOrder
  LockIsGranted
CHECK_DEADLOCK FALSE
