SPECIFICATION Spec
CONSTANTS
  Names = {"", "console", "bait"}
  Paths = {"/", "/healthz", "/admin/login", "/administrator"}
  AdminPaths = {"/admin/login", "/administrator"}
  Secrets = {"", "s"}
  Sizes = {0, 3, 4}
  Caps = {0, 3, 7}
  MaxEntries = 2
  IntMax = 7
INVARIANTS
  ConsoleNeedsAdminHost
  HealthHitsAreRecorded
  BodiesAreCapped
CHECK_DEADLOCK FALSE
