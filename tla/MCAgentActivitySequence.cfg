SPECIFICATION Spec
CONSTANTS
  i1 = i1  i2 = i2  a1 = a1  a2 = a2  t1 = t1  t2 = t2  sdd = sdd
  e1 = e1  e2 = e2  e3 = e3  e4 = e4  e5 = e5  e6 = e6  e7 = e7
  p1 = p1  r1 = r1  none = none
  None = none
  Integrations = {i1}
  Assignments = {a1, a2}
  Tickets = {t1, t2}
  EventIds = {e1, e2, e3, e4, e5, e6, e7}
  Projects = {p1}
  Reviews = {r1}
  IntegrationOf <- MCIntegrationOf
  DefaultTicket <- MCDefaultTicket
  ReviewIntegration <- MCReviewIntegration
  Messages <- SequenceMessages
  Overrides <- Closing
  Edits = {}
  ForeignStatuses = {}
  AssignmentPendingLimit = 2
  TotalPendingLimit = 2
  RetainedEvents = 1
  MaxVersion = 2
INVARIANTS TypeOK StoreAgrees DecisionBeforeClosing
PROPERTIES StepsKeepOrder ImplementsLedger
