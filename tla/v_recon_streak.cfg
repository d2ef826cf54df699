SPECIFICATION Spec
CONSTANTS
  Intents = {1}
  Sweepers = {s1, s2}
  BatchSize = 1
  MaxVerifyAttempts = 2
  Poisoned = {}
  Payments = {"success", "held"}
  MaxDeaths = 0
PROPERTIES ErrorsAreConsecutive
CHECK_DEADLOCK FALSE
