SPECIFICATION Spec
CONSTANTS
  Slots = {"soft", "piv"}
  NoSlot = NoSlot
  Proto <- ProtoByName
  MaxSessions = 2
  MaxKeys = 2
  MaxRes = 1
  OpKinds = {}
  PivKeys = 1
  KeyCounts = {1}
  NewClasses = {"key"}
  Foreign = TRUE
INVARIANTS
  LoginUniform
  SOSessionsReadWrite
  UserHasResources
PROPERTIES
  LogoutWipes
  OneTokenPerStep
  LoginSpec
