SPECIFICATION CodecSpec
CONSTANTS
  LowRange = 1024
  Instructions <- InstructionsAt
  Numbers <- Positions
INVARIANTS DecodesAsWritten
CHECK_DEADLOCK FALSE
