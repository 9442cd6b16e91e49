SPECIFICATION Spec
CONSTANTS
  Strikes = 2
  Uris = {u1, u2}
  CacheCap = 2
  MaxText = 2
  MaxGeneration = 2
INVARIANT TrippedGuardFallsBack
CHECK_DEADLOCK FALSE
