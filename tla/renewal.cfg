SPECIFICATION Spec
CONSTANTS
  hook = hook
  browser = browser
  other = other
  debit = debit
  nothing = nothing
  r1 = r1
  r2 = r2
  f1 = f1
  f2 = f2
  Changes = {hook, browser, other, debit, nothing}
  Delta <- Deltas
  Outer = {debit}
  Failing = {other, debit}
  Payers = {hook, browser, other}
  Refs = {r1, r2}
  RefOf <- Reports
  Refreshers = {f1, f2}
  Charge = 2
  Claimed = 1
  Supersedes = TRUE
INVARIANTS LedgerChains ClaimsExplained CreditedOnce QuietIsCurrent
SYMMETRY Twins
CHECK_DEADLOCK FALSE
