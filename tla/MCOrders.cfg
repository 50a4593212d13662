\* One order with every kind of terms, two workers, one sweep.
SPECIFICATION Spec
CONSTANTS
  o1 = o1
  s1 = s1
  w1 = w1
  w2 = w2
  Order = {o1}
  Sweeper = {s1}
  Worker = {w1, w2}
  Terms <- AllTerms
  Grace = 1
  SweepLimit = 1
  MaxBills = 3
  MaxAttempts = 1
  MaxTime = 3
SYMMETRY WorkersAlike
INVARIANTS
  LedgerAgrees
  HandoverPaid
  OpenBillIsOwed
  ForfeitOnlyWhenDue
  BalanceBilled
PROPERTIES
  LinkOnlyOwed
  KeepsPromise
CHECK_DEADLOCK FALSE
