SPECIFICATION JournalerFairSpec
CONSTANTS
  Targets <- TargetsDef
  MaxEntries = 2
  MaxWriters = 6
  MaxEvents = 4
  MaxRetries = 2
  Times <- TimesDef
  Faults = {"connect", "insert", "broker", "late"}
  Roles <- RolesDef
  Orders = {"reconnect", "close", "rotate"}
INVARIANTS
  EntriesSafe
PROPERTIES
  Delivered
CHECK_DEADLOCK FALSE
