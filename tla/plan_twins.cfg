SPECIFICATION Spec
CONSTANTS
  None = None
  r1 = r1
  r2 = r2
  h1 = h1
  v1 = v1
  h2 = h2
  c1 = c1
  d1 = d1
  Refs = {r1}
  Jobs = {h1, v1, c1}
  RefOf <- Reporters
  Verifiers = {v1}
  Desks = {d1}
  Bill = 2
  Rebills = {1}
  Kinds = {"adhoc", "balance", "fee", "tenancy"}
  Places = 2
  Fee = 2
  Arrears = 0
  MaxCrashes = 0
INVARIANTS CreditedWithinCharge FeeAskedOnce CompletedPlanRenews
CHECK_DEADLOCK FALSE
