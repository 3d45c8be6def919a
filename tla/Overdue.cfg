SPECIFICATION FairSpec
CONSTANTS
  r1 = r1
  Requests = {r1}
  h1 = h1
  Handlers = {h1}
  Sched = Sched
  MaxScopes = 0
  MaxRules = 0
  Payloads <- MatchAll
  Retentions = {2}
  DefaultDays = 1
  LogKeep = 1
  AuditKeep = 0
  MaxDay = 3
  MaxFaults = 1
  QueueCap = 1
  TokenSet = TRUE
  ChatSet = TRUE
  MaxLate = 0
  Ops <- RetentionOps
  MaxOps = 1
  MaxCrashes = 1
PROPERTIES
  AutoFlushKeepsWindow
  LastFlushNeverGoesBack
  OverdueAreFlushed
  EveryOperatorAnswered
