SPECIFICATION Spec
CONSTANTS
  Slots = {"flash", "piv"}
  NoSlot = NoSlot
  Proto <- ProtoByName
  MaxSessions = 2
  MaxKeys = 2
  MaxRes = 1
  OpKinds = {"sign"}
  PivKeys = 1
  KeyCounts = {1}
  NewClasses = {"data"}
  Foreign = TRUE
INVARIANTS
  OpsHaveKeys
