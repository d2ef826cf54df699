SPECIFICATION Spec
CONSTANTS
  l1 = l1
  l2 = l2
  w1 = w1
  w2 = w2
  None = None
  Logs = {l1}
  Workers = {w1, w2}
  MaxAttempts = 3
  MaxCrashes = 0
  SlowSends = FALSE
  LostOutcomes = TRUE
INVARIANTS SentAtMostOnce
CHECK_DEADLOCK FALSE
