SPECIFICATION FairSpec
CONSTANTS
  Procs = {a, b, c}
  NoProc = NoProc
  MaxStarts = 3
  MaxStops = 1
  MaxCalls = 2
  Habits = {}

INVARIANTS
  AgenciesAgree
PROPERTIES
  Settles
CHECK_DEADLOCK FALSE
