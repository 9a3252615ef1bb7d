SPECIFICATION Spec
CONSTANTS
  HalfRange = 64
  Gaps = {0, 1}
  BodyLengths = {1, 2, 3, 4}
  Bounds = {0, 1, 2, 3, 5}
  BranchBounds = {1, 2, 3}
  MaxTaken = 2
  Programs <- LoopPrograms
INVARIANTS LoopTypeOK LoopRunsBoundTimes LoopEndsWithBody IterationsAddUp
PROPERTIES LoopTerminates
CHECK_DEADLOCK FALSE
