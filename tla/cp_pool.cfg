SPECIFICATION Spec
CONSTANTS
  Conns = {c1, c2, c3, c4, c5}
  Workers = {w1, w2, w3, w4}
  Null = Null
  SizeRange = 8
  MaxFailures = 2
CHECK_DEADLOCK FALSE
INVARIANTS
  TypeOK
  Linked
  NoneLost
  Accounts
  DriverFollows
PROPERTIES
  ImplementsConnectionSets
