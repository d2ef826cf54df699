SPECIFICATION LiveSpec
CONSTANTS
  Tenants = {t1}
  Schedules = {s1}
  Callers = {c1}
  Crons = {i1}
  Hydrations = {"string"}
  MaxStints = 1
  MaxCalls = 2
  MaxCrashes = 0
PROPERTIES DueEndHappens
CHECK_DEADLOCK FALSE
