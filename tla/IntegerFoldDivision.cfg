SPECIFICATION Spec
CONSTANTS
  Width = 4
  MaxExponent = 4
  Ops = {"/"}
  Declined = Declined
  Panics = Panics
  Undefined = Undefined
  Pending = Pending
INVARIANT ByteExact
CHECK_DEADLOCK FALSE
