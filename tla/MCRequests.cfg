SPECIFICATION FairSpec
CONSTANTS
  q1 = q1
  q2 = q2
  Requesters = {q1, q2}
  Concurrency = 1
  MaxReplies = 2
  AgentDies = TRUE
  FailingHooks = {"requested", "got_reply"}
INVARIANTS
  TypeOK
  SlotsConserved
  WaitsOnlyWhenFull
  OneOutcome
PROPERTIES
  RequestsEnd
CHECK_DEADLOCK FALSE
