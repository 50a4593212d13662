\* Two orders, a sweep that takes one at a time: every wait for money ends,
\* and none ends as unpaid after money came.
SPECIFICATION SweepSpec
CONSTANTS
  o1 = o1
  o2 = o2
  s1 = s1
  Order = {o1, o2}
  Sweeper = {s1}
  Worker = {}
  Terms <- SweepTerms
  Grace = 1
  SweepLimit = 1
  MaxBills = 1
  MaxAttempts = 1
  MaxTime = 5
INVARIANTS
  ExpiredNeverPaid
PROPERTIES
  NoEndlessWait
CHECK_DEADLOCK FALSE
