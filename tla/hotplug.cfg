SPECIFICATION FairSpec
CONSTANTS
  Tokens = {"t1"}
  Files = {"f1"}
  SlotOf <- OneOfAKind
  LongPaths = {}
  Others = {"o1"}
  MaxSlots = 2
  Waiters = {"w1", "w2"}
  QueueSize = 3
  Initially <- NothingOrDrive
  MaxChanges = 2
  MaxStarts = 1
CHECK_DEADLOCK FALSE
INVARIANTS TypeOK SleepersHaveNoEvent LastEventAgrees PresentIsPlugged
PROPERTIES QueueSpec EventsAreTaken FinalizeJoins
