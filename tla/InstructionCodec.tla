--------------------------- MODULE InstructionCodec ---------------------------
(***************************************************************************)
(* One instruction on its way from the assembler's list into the           *)
(* simulator's array: printInstructions encodes it and writes its four     *)
(* bytes, readInstructions reads the bytes and saveInstruction decodes     *)
(* them.  The labels of the instruction are addresses already.             *)
(***************************************************************************)
EXTENDS TargetExtensions

CONSTANTS
  Numbers,                \* the positions explored
  Instructions(_)         \* the instructions explored at one, with resolved labels

ASSUME CodecAssumption ==
  \A n \in Numbers : n \in Int /\ \A i \in Instructions(n) : IsResolved(i) /\ Reaches(i, n)

VARIABLES codecTarget, instruction, position, wordBytes, decoded

codecVars == <<codecTarget, instruction, position, wordBytes, decoded>>

CodecInit ==
  /\ codecTarget \in Targets
  /\ position \in Numbers
  /\ instruction \in Instructions(position)
  /\ Supported(codecTarget, instruction, "none") /\ InRange(instruction) /\ Encodable(codecTarget, instruction)
  /\ wordBytes = << >>
  /\ decoded = << >>

PrintInstruction ==
  /\ wordBytes = << >>
  /\ wordBytes' = WordBytes(Encoded(codecTarget, instruction, position))
  /\ UNCHANGED <<codecTarget, instruction, position, decoded>>

DecodeWord ==
  /\ wordBytes # << >> /\ decoded = << >>
  /\ decoded' = <<Decoded(codecTarget, WordOf(wordBytes), position)>>
  /\ UNCHANGED <<codecTarget, instruction, position, wordBytes>>

CodecNext == PrintInstruction \/ DecodeWord

CodecSpec == CodecInit /\ [][CodecNext]_codecVars
-----------------------------------------------------------------------------
(***************************************************************************)
(* For every target, the simulator reads back the opcode, the operands and *)
(* the branch target the assembler was given: no field of a word overlaps  *)
(* another one, no sign is lost and no opcode is taken for another.        *)
(***************************************************************************)
DecodesAsWritten == decoded # << >> => decoded[1] = Meant(instruction)
=============================================================================
