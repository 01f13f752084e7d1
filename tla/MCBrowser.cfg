SPECIFICATION ScenesSpec
CONSTANTS
  None = None
  b1 = b1  b2 = b2
  Browsers = {b1, b2}
  Page = b1
  CodeTtl = 2
  SessionTtl = 2
  Cooldown = 1
  MaxFailures = 2
  MaxNow = 3
  MaxIssued = 2
  RotationLead = 1
  r1 = r1  r2 = r2  c1 = c1  c2 = c2  c3 = c3
  RouteIds = {r1, r2}
  Capabilities = {c1, c2, c3}
  BuiltIn = {c1}
  Aliases = {c3}
  Stored <- BrowserStored
  Documents <- BrowserDocuments
  MaxEdits = 2
  MaxSaves = 1
  or = or  p1 = p1  p2 = p2  g1 = g1  g2 = g2
  Engines = {or}
  OpenRouter = or
  Profiles = {p1, p2}
  Pages = {g1, g2}
  MaxVersion = 3
  MaxAttempts = 2
  o1 = o1  o2 = o2  h1 = h1  i1 = i1  i2 = i2  i3 = i3
  Guides = {g1, g2}
  PiModels = {o1, o2}
  ByHand = h1
  Forms <- BrowserForms
  GuideIds = {i1, i2, i3}
  Placed = i1
  Unplaced = i2
  MaxSetups = 3
  t1 = t1  t2 = t2  n1 = n1
  TicketIds = {t1, t2}
  Notes = {n1}
  MaxClock = 3
  MaxInFlight = 2
  d1 = d1  x1 = x1  e1 = e1  m1 = m1  u1 = u1  q1 = q1  k1 = k1  k2 = k2
  WorkCases = {d1, w1, x1}
  DemoCases = {d1}
  RunCases = {x1}
  Entries = {e1}
  Mails = {m1}
  Progress = {u1}
  Receipts <- BrowserReceipts
  Foreign <- BrowserForeign
  MaxEvents = 2
  s1 = s1  s2 = s2  s3 = s3
  Samples = {s1, s2}
  Added = {s3}
  w1 = w1  w2 = w2  w3 = w3  w0 = w0  l1 = l1  y1 = y1
  Works = {w1, w2, w3}
  Gone = w0
  Letters = {l1}
  Feeds = {y1}
  Names <- BrowserNames
  Arrangements <- BrowserArrangements
  RecentWindow = 0
  MaxToday = 1
INVARIANTS ScenesTypeOK SessionsAreEarned ShownIsBacked PoliciesResolve PagesAreClean WorkIsPortable
PROPERTIES DecisionsAreCurrent PoliciesStay NotesStay
CONSTRAINT Bounded
SYMMETRY Interchangeable
CHECK_DEADLOCK FALSE
