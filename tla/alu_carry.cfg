SPECIFICATION Spec
CONSTANTS
  WordBits = 3
  HalfRange = 4
  Ops <- CarryOps
INVARIANTS ConditionsAfterCompare ConditionsAfterAdd ShiftsScale
PROPERTIES WideAdd WideSubtract
CHECK_DEADLOCK FALSE
