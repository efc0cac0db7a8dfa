SPECIFICATION TPSpec
CONSTANTS
  Callers = {c1, c2}
  PoolWorkers = {w1, w2}
  Requests = {r1, r2}
  NoRequest = NoRequest
CHECK_DEADLOCK FALSE
INVARIANTS
  TableLocked
