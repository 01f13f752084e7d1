SPECIFICATION FairSpec
CONSTANTS
  r1 = r1  r2 = r2
  k1 = k1  k2 = k2
  p1 = p1  p2 = p2
  Receipts = {r1, r2}
  Keys = {k1, k2}
  Profiles = {p1, p2}
  Keyed = {p2}
  None = None
INVARIANTS TypeOK ReceiptsAgree
PROPERTIES OutcomesStand DispatchSettles
CHECK_DEADLOCK FALSE
