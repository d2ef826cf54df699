SPECIFICATION Spec
CONSTANTS
  Intents = {1}
  Sweepers = {s1, s2}
  BatchSize = 1
  MaxVerifyAttempts = 2
  Poisoned = {}
  Payments = {"success", "held"}
  MaxDeaths = 1
INVARIANTS ResolvedWasHanded MoneyNotBuried ParkedForAReason
SYMMETRY Symmetry
CHECK_DEADLOCK FALSE
