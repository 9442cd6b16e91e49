SPECIFICATION Spec
CONSTANTS
  Strikes = 2
  Uris = {u1, u2}
  CacheCap = 2
  MaxText = 2
  MaxGeneration = 2
INVARIANT CacheNeverStaler
CHECK_DEADLOCK FALSE
