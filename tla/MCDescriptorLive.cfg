SPECIFICATION FairSpec
CONSTANTS
  i1 = i1
  i2 = i2
  Instances = {i1, i2}
  MaxUpdates = 3
  Writers = {i1}
  Events = {}
PROPERTIES
  UpdatesAnswered
  StaleEnds
CHECK_DEADLOCK FALSE
