SPECIFICATION FairSpec
CONSTANTS
  r1 = r1
  r2 = r2
  Retrying = {r1}
  MaxTasks = 1
  MaxRetries = 1
  AlertAfter = 1
  FailingHooks = {}
  Habits = {"cancel"}
INVARIANTS
  TypeOK
  Quiet
PROPERTIES
  RetriesSound
  ImplementsLifeCycle
  GoesWhenTold
CHECK_DEADLOCK FALSE
