SPECIFICATION Spec
CONSTANTS
  Workers = {w1, w2}
  NoWorker = NoWorker
  Objects = {o1, o2}
  NoObject = NoObject
  BufferCount = 3
  MaxMissed = 1
CHECK_DEADLOCK FALSE
INVARIANT ThreadsDone
