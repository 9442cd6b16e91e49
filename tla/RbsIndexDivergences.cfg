SPECIFICATION Spec
CONSTANTS
  Contents <- MCContents
  Core = "core"
  MaxFiles = 4
  Methods <- MCMethods
INVARIANTS
  CollapseOnlyAdds
  ExplicitSuperclassWins
  LaterIncludeIsFirst
CHECK_DEADLOCK FALSE
