SPECIFICATION FairSpec
CONSTANTS
  p1 = p1  p2 = p2  none = none
  None = none
  Processes = {p1, p2}
  Hooks = {p2}
  MaxEvents = 2
  SpoolLimit = 2
  MayExpire = TRUE
  StoreMayFail = TRUE
  BudgetMayEnd = TRUE
PROPERTIES ReportReturns
CHECK_DEADLOCK FALSE
