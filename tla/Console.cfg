SPECIFICATION Spec
CONSTANTS
  c1 = c1
  c2 = c2
  ip = ip
  Clients = {c1, c2}
  IPs = {ip}
  MaxAttempts = 1
  Window = 2
  MaxTime = 2
  MaxRows = 0
  MaxPasswords = 3
  MaxFaults = 1
  TTL = 1
  MaxTokens = 2
  MaxCrashes = 0
INVARIANTS
  ConsoleTypeOK
  EndedSessionsStayEnded
  ChangeRevokesEarlierSessions
  AttemptsAreLimited
PROPERTIES
  RefusalsAreEarned
SYMMETRY Interchangeable
