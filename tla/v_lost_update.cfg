SPECIFICATION Spec
CONSTANTS
  a = a
  b = b
  r1 = r1
  r2 = r2
  r3 = r3
  w1 = w1
  w2 = w2
  w3 = w3
  i1 = i1
  i2 = i2
  None = None
  Offers = {a}
  Refs = {r1, r2}
  OfferOf <- Solo
  Total = 2
  Amounts = {1, 2}
  Undecided = {}
  Transfers = {}
  Outcomes = {"success"}
  Workers = {w1, w2}
  Instances = {i1, i2}
  InstOf <- TwoProcesses
INVARIANTS NothingLost
CHECK_DEADLOCK FALSE
