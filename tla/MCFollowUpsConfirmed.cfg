CONSTANTS
  TicketIds = {k1}
  Statuses = {"todo", "done"}
  Editors = {e1}
  MaxTime = 0
  MaxHistory = 1
  None = None
  Threads = {t1}
  Checks = {c1}
  Keys = {r1}
  PageSize = 1
  MaxPages = 1
  Lookback = 0
  MaxMails = 2
  MaxDays = 0
SPECIFICATION Spec
PROPERTIES ConfirmedWorkKept
CHECK_DEADLOCK FALSE
