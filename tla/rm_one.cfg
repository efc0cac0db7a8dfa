SPECIFICATION FairSpec
CONSTANTS
  Sockets = {s1}
  Handles = {h1, h2, h3}
  Threads = {t1, t2}
  None = None
  PACKET_SIZE = 2
  BufferSize = 5
  Streams <- AllStreams
CHECK_DEADLOCK FALSE
INVARIANTS
  TypeOK
  SingleReader
  NoByteLost
  Aligned
  BufferBounds
PROPERTIES
  ReaderStops
  Delivered
  ImplementsPacketStream
