SPECIFICATION Spec
CONSTANTS
  HalfRange = 128
  WordBits = 8
  NWindows = 4
  UIntRange = 256
  BankSize = 2
  SPOffset = 0
  CallOffset = 1
  MemoryBytes = 8
  StackTop = 4
  ReturnFromMain = 247
  ByteRange = 4
  PredicateRegisters = {0}
  SethiScale = 8
  InitialMemories <- ImageMemories
  Programs <- MixedPrograms
  Palette <- AllKinds
  Preludes <- AllPreludes
INVARIANTS TypeOK
PROPERTIES PredicatedOffKeepsData BlockStaysOff ImplementsControlFlow ImplementsWindows
CHECK_DEADLOCK FALSE
