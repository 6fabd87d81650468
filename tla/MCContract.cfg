SPECIFICATION Spec
CONSTANTS
  c1 = c1
  c2 = c2
  Contractors = {c1, c2}
  Nested = {}
  Revisited = {}
  Broadcast = FALSE
  FailingHooks = {}
  DirectHooksFail = TRUE
  AgentsDie = FALSE
SYMMETRY Symmetry
INVARIANTS
  TypeOK
  AllOrNothing
  OneAnswer
  NotReopened
PROPERTIES
  ImplementsOutcome
CHECK_DEADLOCK FALSE
