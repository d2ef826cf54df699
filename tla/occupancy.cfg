SPECIFICATION Spec
CONSTANTS
  Tenants = {t1, t2}
  Schedules = {s1, s2}
  Callers = {c1, c2}
  Crons = {i1, i2}
  Hydrations = {"Date", "string"}
  MaxStints = 2
  MaxCalls = 3
  MaxCrashes = 1
INVARIANTS EndedOnce OneHousehold StatusTellsTruth NoApplicantWaits
PROPERTIES EndsItsOwnTenancy
CHECK_DEADLOCK FALSE
