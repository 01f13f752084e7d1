SPECIFICATION ServicesSpec
CONSTANTS
  None = None
  s1 = s1  a1 = a1  c1 = c1  c2 = c2
  Integrations = {s1, a1}
  Surfaces = {s1}
  Qualified = {s1}
  Automatic = {a1}
  Requests = {c1, c2}
  i1 = i1  i2 = i2  e1 = e1  e2 = e2  e3 = e3
  Sources = {i1, i2}
  Exempt = {i1}
  Reports = {e1, e2, e3}
  Snapshots = {s1}
  Body <- ServicesBody
  Burst = 2
  Cost = 2
  Refill = 1
  MaxClock = 3
  MaxForward = 5
  v1 = v1  v2 = v2  h1 = h1
  HookEvents = {v1, v2}
  Hooks = {h1}
  Ours = Ours
  Unreadable = Unreadable
  m1 = m1  u1 = u1  o1 = o1  o2 = o2
  Models = {m1}
  Graphs <- ServicesGraphs
  Subjects = {u1}
  Profiles = {o1, o2}
  ProfileOf <- ServicesProfiles
  Horizon = 1
  MaxDay = 3
  MaxRuns = 2
  tk = tk  ml = ml  un = un  r1 = r1  r2 = r2  f1 = f1  f2 = f2
  WorkSources = {tk, ml}
  TicketSource = tk
  MailSource = ml
  Unknown = un
  CheckRuns = {r1, r2}
  Wishes <- ServicesWishes
  Fingerprints = {f1, f2}
  p1 = p1  p2 = p2  k1 = k1  k2 = k2
  PortIds = {p1, p2}
  LegacyIds = {p1, p2}
  CommitKeys = {k1, k2}
  OtherBundles <- ServicesBundles
  MaxPlans = 2
  MaxReceipts = 1
  g1 = g1  g2 = g2  l1 = l1  d1 = d1
  Attempts = {g1, g2}
  TokenCalls = {l1}
  Disconnects = {d1}
  MaxStarts = 2
  q1 = q1  q2 = q2  j1 = j1  j2 = j2
  Places = {q1, q2}
  FolderIds = {j1, j2}
  LegacyIdOf <- ServicesLegacy
  MaxPreviews = 1
  MaxOutput = 1
  x1 = x1  x2 = x2  y1 = y1  y2 = y2  y3 = y3  w1 = w1
  McpServers = {x1, x2}
  McpLines = {y1, y2, y3}
  WorkKeys = {w1}
  MaxLines = 2
  n1 = n1  n2 = n2
  Companions = {n1, n2}
  Adopter = Adopter
  Latest = 2
  z1 = z1  z2 = z2
  Uninstallers = {z1, z2}
  MaxRemovals = 2
INVARIANTS ServicesTypeOK ReadingsAreHonest ChoicesStand RunsAreTruthful
PROPERTIES UndisturbedRequestsWork ForeignHooksKept CommitsAreHonest VerdictsStand
CONSTRAINT Bounded
CHECK_DEADLOCK FALSE
