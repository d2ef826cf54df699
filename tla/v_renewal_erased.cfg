SPECIFICATION Spec
CONSTANTS
  hook = hook
  browser = browser
  other = other
  debit = debit
  nothing = nothing
  r1 = r1
  r2 = r2
  f1 = f1
  f2 = f2
  Changes = {hook, debit}
  Delta <- Deltas
  Outer = {}
  Failing = {}
  Payers = {hook}
  Refs = {r1}
  RefOf <- Reports
  Refreshers = {f1}
  Charge = 2
  Claimed = 1
  Supersedes = FALSE
PROPERTIES PaymentsAreKept
CHECK_DEADLOCK FALSE
