SPECIFICATION ToolchainSpec
CONSTANTS
  LowRange = 4
  Main = Main
  NoLabel = NoLabel
  Labels <- AllLabels
  x = x
  FreeMemory = 512
  Sources <- AllSources
INVARIANTS SkippedSpaceInImage
CHECK_DEADLOCK FALSE
