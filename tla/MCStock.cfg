\* Every race of the calls and the worker, for one ingredient and for two.
SPECIFICATION FairSpec
CONSTANTS
  Ingredient = {1, 2}
  Batch = {11, 12}
  Policy <- Rules
  ShelfLife <- Keeps
  Call <- Calls
  Asked <- Requests
  Plans <- Together
  LotId = {1, 2}
  Day = 2
  CheckValidFor = 2
  MaxTries = 1
  MaxTime = 4
INVARIANTS
  TypeOK
  ClosedIffEmpty
  NoCircle
PROPERTIES
  OldestFirst
  MarkingChangesNoList
  KeepsPromise
  CallsEnd
CHECK_DEADLOCK FALSE
