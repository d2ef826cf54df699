SPECIFICATION Spec
CONSTANTS
  a = a
  b = b
  r1 = r1
  r2 = r2
  r3 = r3
  w1 = w1
  w2 = w2
  w3 = w3
  i1 = i1
  i2 = i2
  None = None
  Offers = {a, b}
  Refs = {r1, r2}
  OfferOf <- Rivals
  Total = 2
  Amounts = {1, 2}
  Undecided = {}
  Transfers = {}
  Outcomes = {"success"}
  Workers = {w1}
  Instances = {i1}
  InstOf <- OneProcess
INVARIANTS LosersAreMarked
CHECK_DEADLOCK FALSE
