SPECIFICATION LiveSpec
CONSTANTS
  Intents = {1, 2}
  Sweepers = {s1}
  BatchSize = 1
  MaxVerifyAttempts = 2
  Poisoned = {1}
  Payments = {"success"}
  MaxDeaths = 0
PROPERTIES PaidIsHandedOrParked
CHECK_DEADLOCK FALSE
