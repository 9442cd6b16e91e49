SPECIFICATION FairSpec
CONSTANTS
  Strikes = 2
  Uris = {u1, u2}
  CacheCap = 1
  MaxText = 2
  MaxGeneration = 1
INVARIANTS
  OneInFlight
  NoLostUpdate
  ClosedShowsNothing
  CacheAgreesWithMarkers
  GenerationNamesOnePosture
  GuardMatchesOverlay
PROPERTIES
  NeverPublishStale
  OpenBufferIsShown
  ImplementsPublisher
CHECK_DEADLOCK FALSE
