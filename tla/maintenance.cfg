SPECIFICATION LiveSpec
CONSTANTS
  Filings <- FewFilings
  Desks = {d1}
  Chats = {c1}
  Crons = {i1, i2}
  MaxReminders = 2
  MaxResolves = 2
  MaxMishaps = 1
INVARIANTS ClosedOncePerResolution RemindersCapped OutcomeAgrees TenantIsAsked
PROPERTIES SilentIsClosed
CHECK_DEADLOCK FALSE
