SPECIFICATION Spec
SYMMETRY Symmetry
CONSTANTS
  a = a
  b = b
  l = l
  w = w
  t1 = t1
  t2 = t2
  Walk <- SmallWalk
  Outside = {w}
  Excluded = {a}
  Nested = {b}
  InitialLinks <- LinkInside
  Relinks <- RelinkInside
  Texts = {t1, t2}
  Broken = Broken
  Absent = Absent
  Unresolved = Unresolved
  MaxBatch = 2
INVARIANTS
  HeldMatchesRebuild
  GateAgreesWithCheck
CHECK_DEADLOCK FALSE
