SPECIFICATION Spec
CONSTANTS
  Intents = {1}
  Sweepers = {s1}
  BatchSize = 1
  MaxVerifyAttempts = 2
  Poisoned = {}
  Payments = {"success", "held"}
  MaxDeaths = 0
INVARIANTS FailedHoldsNoMoney
CHECK_DEADLOCK FALSE
