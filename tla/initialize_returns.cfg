SPECIFICATION FairSpec
CONSTANTS
  Tokens = {"t1"}
  Files = {}
  SlotOf <- OneOfAKind
  LongPaths = {}
  Others = {}
  MaxSlots = 2
  Waiters = {}
  QueueSize = 2
  Initially <- NothingOrToken
  MaxChanges = 0
  MaxStarts = 1
CHECK_DEADLOCK FALSE
PROPERTIES InitializeReturns
