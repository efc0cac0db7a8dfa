SPECIFICATION FairSpec
CONSTANTS
  Workers = {w1, w2}
  NoWorker = NoWorker
  Objects = {o1, o2}
  NoObject = NoObject
  BufferCount = 3
  MaxMissed = 1
CHECK_DEADLOCK FALSE
INVARIANTS
  HandledOnce
  BuffersBalanced
  Backlog
  OneLeaves
PROPERTIES
  Drained
