SPECIFICATION LoadedSpec
CONSTANTS
  HalfRange = 128
  WordBits = 8
  NWindows = 8
  UIntRange = 256
  BankSize = 8
  SPOffset = 6
  CallOffset = 7
  MemoryBytes = 44
  StackTop = 40
  ReturnFromMain = 247
  ByteRange = 4
  PredicateRegisters = {0, 1}
  SethiScale = 8
  LowRange = 8
  Main = "main"
  NoLabel = "none"
  FreeBytes = {0, 3}
  InitialMemories <- AllMemories
  Programs <- AllPrograms
  Images <- AllImages
  Arguments = {0, 1, 2, 3, 4}
  Values <- BoundaryValues
  StoredValues <- AccessValues
  AccessedBytes = 8
INVARIANTS
  ConversionsAgree SumReturned ReturnAddressesKept LoadsSeeStores
  FirstPositionsFound ArraySorted CounterIncremented SearchFinds
  SinglePathTakesSameTime
PROPERTIES ProgramsReturn
CHECK_DEADLOCK FALSE
