SPECIFICATION FairSpec
CONSTANTS
  c1 = c1
  ip = ip
  Clients = {c1}
  IPs = {ip}
  MaxAttempts = 1
  Window = 1
  MaxTime = 2
  MaxRows = 1
  MaxPasswords = 3
  MaxFaults = 1
  TTL = 1
  MaxTokens = 1
  MaxCrashes = 2
INVARIANTS
  ServesMigrated
PROPERTIES
  StartsAgain
  BootKeepsPassword
  DenylistShrinks
