SPECIFICATION Spec
CONSTANTS
  r1 = r1
  Requests = {r1}
  h1 = h1
  Handlers = {h1}
  Sched = Sched
  MaxScopes = 1
  MaxRules = 0
  Payloads <- MatchAll
  Retentions = {2}
  DefaultDays = 1
  LogKeep = 1
  AuditKeep = 0
  MaxDay = 1
  MaxFaults = 0
  QueueCap = 1
  TokenSet = TRUE
  ChatSet = TRUE
  MaxLate = 0
  Ops <- FlushOnly
  MaxOps = 1
  MaxCrashes = 0
INVARIANTS
  MatchingRequestsAreNeverFlushed
