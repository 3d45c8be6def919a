SPECIFICATION Spec
CONSTANTS
  r1 = r1
  r2 = r2
  Requests = {r1, r2}
  h1 = h1
  h2 = h2
  Handlers = {h1, h2}
  Sched = Sched
  MaxScopes = 1
  MaxRules = 0
  Payloads <- MatchAll
  Retentions = {2}
  DefaultDays = 1
  LogKeep = 1
  AuditKeep = 0
  MaxDay = 1
  MaxFaults = 0
  QueueCap = 1
  TokenSet = TRUE
  ChatSet = TRUE
  MaxLate = 0
  Ops <- KeepingOps
  MaxOps = 2
  MaxCrashes = 0
INVARIANTS
  ScopedAreSaved
  FlushesAlone
  TotalCountsCaptures
PROPERTIES
  SavedLeavesOnlyByOperator
  ImplementsRequestLife
SYMMETRY Interchangeable
