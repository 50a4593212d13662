\* Two codes for one phone, each delivered up to twice.
SPECIFICATION Spec
CONSTANTS
  h1 = h1
  h2 = h2
  c1 = c1
  c2 = c2
  Delivery = {c1, c2}
  Phone = {"phone"}
  PhoneOf <- OnePhone
  Handler = {h1, h2}
  Every = 2
  Burst = 2
  MaxTries = 2
  MaxTime = 5
SYMMETRY Alike
INVARIANTS
  SentOnce
  OkMeansSent
  RetryCanSend
  PhoneLimit
CHECK_DEADLOCK FALSE
