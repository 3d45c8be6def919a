SPECIFICATION FairSpec
CONSTANTS
  r1 = r1
  Requests = {r1}
  h1 = h1
  Handlers = {h1}
  Sched = Sched
  MaxScopes = 0
  MaxRules = 2
  Payloads <- MatchAll
  Retentions = {1}
  DefaultDays = 1
  LogKeep = 1
  AuditKeep = 0
  MaxDay = 1
  MaxFaults = 1
  QueueCap = 1
  TokenSet = TRUE
  ChatSet = TRUE
  MaxLate = 2
  Ops <- DroppingOps
  MaxOps = 1
  MaxCrashes = 1
INVARIANTS
  TypeOK
  NoDanglingReferences
  AlertsInOrder
PROPERTIES
  EveryCaptureAnswered
  EveryAlertSettles
