SPECIFICATION Spec
CONSTANTS
  Slots = {"fsdir", "hsm"}
  NoSlot = NoSlot
  Proto <- ProtoByName
  MaxSessions = 2
  MaxKeys = 2
  MaxRes = 3
  OpKinds = {"sign"}
  PivKeys = 1
  KeyCounts = {1}
  NewClasses = {"data"}
  Foreign = FALSE
INVARIANTS
  TypeOK
  NoDangling
  PrivateOpsLoggedIn
  SessionsNeedToken
  UserHasResources
  KeysFollowConnection
PROPERTIES
  LogoutWipes
  OpKeyStable
