SPECIFICATION Spec
CONSTANTS
  Owner = owner
  Runner = runner
  Workers = {w1, w2}
  SendHandles = {s1, s2}
  MaxConnects = 2
  MaxReceives = 2
  MaxRefused = 1
SYMMETRY Symmetry
CHECK_DEADLOCK FALSE
INVARIANTS
  TypeOK
  HandlersHaveManager
  DeletedOnce
  NothingLeft
PROPERTIES
  StopInDoData
