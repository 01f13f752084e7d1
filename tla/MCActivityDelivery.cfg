SPECIFICATION Spec
CONSTANTS
  p1 = p1  p2 = p2  none = none
  None = none
  Processes = {p1}
  Hooks = {}
  MaxEvents = 4
  SpoolLimit = 2
  MayExpire = FALSE
  StoreMayFail = FALSE
  BudgetMayEnd = FALSE
INVARIANTS TypeOK DeliveryAgrees
PROPERTIES TerminalsSpared
CHECK_DEADLOCK FALSE
