SPECIFICATION FairSpec
CONSTANTS
  Threads = {t1, t2}
  Sockets = {s1, s2, s3, s4, s5}
  NoSocket = NoSocket
  Accepts = 2
  MaxConnections = 3
CHECK_DEADLOCK FALSE
INVARIANTS
  AcceptsPrepared
  OneOwner
PROPERTIES
  Served
