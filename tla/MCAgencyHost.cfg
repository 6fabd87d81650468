SPECIFICATION FairHost
CONSTANTS
  a1 = a1
  a2 = a2
  Agencies = {a1, a2}
  HostFaults = {"role", "crash", "database", "messaging", "request", "terminate", "shutdown", "kill"}
  MaxHostFaults = 1
  MaxTimers = 2
  Prompt = {"host"}
INVARIANTS
  HostSafe
PROPERTIES
  HostGoesOn
CHECK_DEADLOCK FALSE
