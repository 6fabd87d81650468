SPECIFICATION Spec
CONSTANTS
  i1 = i1
  i2 = i2
  Instances = {i1, i2}
  MaxUpdates = 2
  Writers = {i1, i2}
  Events = {"failure", "crash", "terminate"}
SYMMETRY Symmetry
INVARIANTS
  TypeOK
  NoLostUpdate
  InOrder
  OneOwner
  NoFalseAlarm
CHECK_DEADLOCK FALSE
