SPECIFICATION Spec
CONSTANTS
  Uris = {u1, u2, u3}
  CacheCap = 2
  Nothing = Nothing
  MaxClock = 6
INVARIANTS
  StampsOrder
PROPERTY ImplementsRecencyList
CHECK_DEADLOCK FALSE
