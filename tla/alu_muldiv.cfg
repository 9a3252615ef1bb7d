SPECIFICATION Spec
CONSTANTS
  WordBits = 3
  HalfRange = 4
  Ops <- YOps
INVARIANTS TypeOK SignedProduct
PROPERTIES DivisionUndoesMultiplication DivisionQuotient
CHECK_DEADLOCK FALSE
