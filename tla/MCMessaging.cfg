SPECIFICATION FairSpec
CONSTANTS
  Keys = {k}
  In = {i1}
  Out = {o1, o2}
  MaxUsers = 2
  MaxEvents = 2
  Faults = {"call", "hello", "refuse", "sink"}
INVARIANTS
  DeliverySafe
PROPERTIES
  GetsThrough
CHECK_DEADLOCK FALSE
