SPECIFICATION Spec
CONSTANTS
  None = None
  r1 = r1
  r2 = r2
  h1 = h1
  v1 = v1
  h2 = h2
  c1 = c1
  d1 = d1
  Refs = {r1, r2}
  Jobs = {h1, h2}
  RefOf <- Reporters
  Verifiers = {}
  Desks = {d1}
  Bill = 2
  Rebills = {1}
  Kinds = {"adhoc", "balance"}
  Places = 2
  Fee = 2
  Arrears = 1
  MaxCrashes = 1
INVARIANTS OnlyLosersVanish AskedIsOwed PaidPlanIsCompleted
PROPERTIES PaidRowsAreKept
CHECK_DEADLOCK FALSE
