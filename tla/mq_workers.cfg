SPECIFICATION FairSpec
CONSTANTS
  Workers = {w1, w2}
  NoWorker = NoWorker
  PoolSize = 2
  MaxMessages = 3
CHECK_DEADLOCK FALSE
INVARIANTS
  TypeOK
  OneOutside
PROPERTIES
  WarmDispatch
  ImplementsHandleQueue
