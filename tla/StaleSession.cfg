SPECIFICATION Spec
CONSTANTS
  c1 = c1
  c2 = c2
  ip = ip
  Clients = {c1, c2}
  IPs = {ip}
  MaxAttempts = 2
  Window = 2
  MaxTime = 0
  MaxRows = 0
  MaxPasswords = 2
  MaxFaults = 0
  TTL = 1
  MaxTokens = 2
  MaxCrashes = 0
INVARIANTS
  PasswordChangeRevokes
SYMMETRY Interchangeable
