SPECIFICATION DFairSpec
CONSTANTS
  Sockets = {s1}
  Handles = {h1, h2}
  Threads = {t1, t2}
  Workers = {w1, w2}
  None = None
  NoMessage = NoMessage
  PACKET_SIZE = 1
  BufferSize = 3
  PoolSize = 2
  Streams <- ThreeShort
CHECK_DEADLOCK FALSE
INVARIANTS
  OneIoThread
  EachOnce
  OnlyQueuedOvertaken
  EndIsQuiet
PROPERTIES
  AllDispatched
