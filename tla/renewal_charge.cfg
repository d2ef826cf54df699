SPECIFICATION LiveSpec
CONSTANTS
  Versions = 2
  FeeCount = 2
  StartCredits = {0, 2}
  Calls = {c1}
  Crons = {i1}
  MaxCrashes = 1
INVARIANTS PeriodBilledOnce RolledOnce SettledTogether
PROPERTIES AcceptedIsBilled
CHECK_DEADLOCK FALSE
