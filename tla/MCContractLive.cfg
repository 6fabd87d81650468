SPECIFICATION FairSpec
CONSTANTS
  c1 = c1
  c2 = c2
  Contractors = {c1, c2}
  Nested = {c2}
  Revisited = {}
  Broadcast = TRUE
  FailingHooks = {"expired", "announce_expired"}
  DirectHooksFail = FALSE
  AgentsDie = TRUE
INVARIANTS
  NoBidForgotten
  DelegatedIsOut
PROPERTIES
  Finishes
CHECK_DEADLOCK FALSE
