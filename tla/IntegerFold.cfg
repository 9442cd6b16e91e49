SPECIFICATION Spec
CONSTANTS
  Width = 4
  MaxExponent = 4
  Ops = {"abs", "succ", "pred", "+", "-", "*", "/", "%", "**", "<<", ">>"}
  Declined = Declined
  Panics = Panics
  Undefined = Undefined
  Pending = Pending
INVARIANTS
  ExactElsewhere
  DeclinesOnlyBoundaries
CHECK_DEADLOCK FALSE
