SPECIFICATION FairSpec
CONSTANTS
  Tokens = {"t1"}
  Files = {}
  SlotOf <- OneOfAKind
  LongPaths = {}
  Others = {}
  MaxSlots = 2
  Waiters = {"w1"}
  QueueSize = 2
  Initially <- NothingOrToken
  MaxChanges = 0
  MaxStarts = 1
CHECK_DEADLOCK FALSE
PROPERTIES FinalizeWakesWaiters
