\* Two publishers, three changes of two records, batches of two.
SPECIFICATION FairSpec
CONSTANTS
  p1 = p1
  p2 = p2
  Change = {"payment", "cancel", "delivery"}
  Record = {"order", "stock"}
  RecordOf <- Records
  Type = {"payment_received", "confirmed", "cancelled", "stock_changed"}
  Emits <- Writes
  Subscriber = {"billing", "kitchen"}
  Answer <- Answers
  Publisher = {p1, p2}
  Batch = 2
  MaxNumber = 4
  MaxFailures = 1
INVARIANTS
  OrderKept
PROPERTIES
  KeepsPromise
  AllPublished
CHECK_DEADLOCK FALSE
