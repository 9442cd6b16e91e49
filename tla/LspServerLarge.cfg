SYMMETRY Symmetry
SPECIFICATION Spec
CONSTANTS
  Strikes = 2
  Uris = {u1, u2}
  CacheCap = 1
  MaxText = 2
  MaxGeneration = 2
INVARIANTS
  TypeOK
  OneInFlight
  NoLostUpdate
  ClosedShowsNothing
  CacheAgreesWithMarkers
  GenerationNamesOnePosture
  GuardMatchesOverlay
PROPERTY NeverPublishStale
CHECK_DEADLOCK FALSE
