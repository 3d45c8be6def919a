SPECIFICATION Spec
CONSTANTS
  r1 = r1
  Requests = {r1}
  h1 = h1
  Handlers = {h1}
  Sched = Sched
  MaxScopes = 1
  MaxRules = 1
  Payloads <- MatchOrNot
  Retentions = {2}
  DefaultDays = 1
  LogKeep = 1
  AuditKeep = 0
  MaxDay = 1
  MaxFaults = 1
  QueueCap = 1
  TokenSet = TRUE
  ChatSet = TRUE
  MaxLate = 1
  Ops <- AllOps
  MaxOps = 1
  MaxCrashes = 1
INVARIANTS
  ScopedAreSaved
  NoDanglingReferences
  FlushesAlone
  TotalCountsCaptures
PROPERTIES
  ImplementsRequestLife
