SPECIFICATION Spec
CONSTANTS
  Contents <- MCContents
  Core = "core"
  MaxFiles = 4
  Methods <- MCMethods
INVARIANTS
  AbsenceIsReal
  ChainOkIsBuildable
  ShortNamesAreExact
CHECK_DEADLOCK FALSE
