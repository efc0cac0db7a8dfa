SPECIFICATION FairSpec
CONSTANTS
  Threads = {t1, t2}
  Sockets = {s1, s2, s3, s4}
  NoSocket = NoSocket
  Accepts = 2
  MaxConnections = 2
CHECK_DEADLOCK FALSE
PROPERTIES
  ClosedIsReleased
