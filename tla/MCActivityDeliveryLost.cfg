SPECIFICATION Spec
CONSTANTS
  p1 = p1  p2 = p2  none = none
  None = none
  Processes = {p1}
  Hooks = {}
  MaxEvents = 3
  SpoolLimit = 3
  MayExpire = FALSE
  StoreMayFail = FALSE
  BudgetMayEnd = TRUE
INVARIANTS QueuedIsKept
CHECK_DEADLOCK FALSE
