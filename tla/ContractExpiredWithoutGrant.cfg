SPECIFICATION Spec
CONSTANTS
  c1 = c1
  Contractors = {c1}
  Nested = {}
  Revisited = {}
  Broadcast = FALSE
  FailingHooks = {}
  DirectHooksFail = FALSE
  AgentsDie = FALSE
INVARIANTS
  ExpiredWithoutGrant
CHECK_DEADLOCK FALSE
