SPECIFICATION Spec
CONSTANTS
  HalfRange = 1
  NWindows = 4
  UIntRange = 16
  BankSize = 1
  SPOffset = 0
  CallOffset = 0
  StackTop = 0
  ReturnFromMain = 1
INVARIANTS WindowFollowsDepth
PROPERTIES ImplementsStack
