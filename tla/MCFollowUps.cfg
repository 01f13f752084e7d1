CONSTANTS
  TicketIds = {k1, k2}
  Statuses = {"todo", "done"}
  Editors = {e1}
  MaxTime = 1
  MaxHistory = 2
  None = None
  Threads = {t1, t2, t3}
  Checks = {c1, c2}
  Keys = {r1, r2}
  PageSize = 1
  MaxPages = 2
  Lookback = 0
  MaxMails = 3
  MaxDays = 1
SPECIFICATION Spec
CONSTRAINT Scenes
SYMMETRY Symmetric
INVARIANTS TypeOK WatermarkCovers HistoryExplainsTicket
PROPERTIES LinkStands
CHECK_DEADLOCK FALSE
