-------------------------------- MODULE Loader --------------------------------
(***************************************************************************)
(* The simulator before and after it runs a program: main of sim_main.c    *)
(* reads the header, checks the target id, fills the data memory and reads *)
(* the instructions one by one; each error frees what there is and exits.  *)
(* The input file may be any sequence of bytes.                            *)
(***************************************************************************)
EXTENDS TargetExtensions

CONSTANT FreeMemory       \* bytes after the data, for the stack; 512 in the code

ASSUME LoaderAssumption == FreeMemory \in Nat

VARIABLES
  simTarget,              \* -t
  stage,                  \* how far main has come, or how it ended
  header,                 \* target id, memory and instruction size
  memory,                 \* the bytes of data memory read from the file
  memorySize,             \* data_memory_size
  program,                \* the instructions decoded so far
  numInstructions         \* the length of the array allocated for them

loader == <<simTarget, stage, header, memory, memorySize, program, numInstructions>>

NoHeader == [target |-> 0, memory |-> 0, instructions |-> 0]

LoaderInit ==
  /\ simTarget = "none"
  /\ stage = "off"
  /\ header = NoHeader
  /\ memory = << >> /\ memorySize = 0
  /\ program = << >> /\ numInstructions = 0

StartSimulator ==
  /\ stage = "off"
  /\ simTarget' \in Targets
  /\ stage' = "start"
  /\ UNCHANGED <<header, memory, memorySize, program, numInstructions>>

\* bytes of the file up to the n-th are there
Readable(bytes, n) == n <= Len(bytes)
UInt16(bytes) == bytes[1] * 256 + bytes[2]
UInt32(bytes) == bytes[1] * 2^24 + bytes[2] * 2^16 + bytes[3] * 2^8 + bytes[4]
Bytes(bytes, first, n) == SubSeq(bytes, first, first + n - 1)

\* cleanUp frees the operands of every instruction of the array; those that
\* are not decoded yet, or have no operands, hold what malloc left there
FreesGarbage ==
  \/ Len(program) < numInstructions
  \/ \E k \in DOMAIN program : program[k].operands = << >>

CleanUpTo(end) ==
  /\ stage' \in {end} \cup (IF FreesGarbage THEN {"undefined"} ELSE {})
  /\ memory' = << >> /\ program' = << >>
  /\ UNCHANGED <<simTarget, header, memorySize, numInstructions>>

ReadFileHeader(bytes) ==
  /\ stage = "start"
  /\ IF Readable(bytes, 10)
     THEN /\ header' = [target |-> UInt16(Bytes(bytes, 1, 2)), memory |-> UInt32(Bytes(bytes, 3, 4)),
                        instructions |-> UInt32(Bytes(bytes, 7, 4))]
          /\ stage' = "header"
          /\ UNCHANGED <<simTarget, memory, memorySize, program, numInstructions>>
     ELSE CleanUpTo("failed")

FaultyCheckTargetID ==
  /\ stage = "header"
  /\ stage' = "checked"
  /\ UNCHANGED <<simTarget, header, memory, memorySize, program, numInstructions>>

CheckTargetID ==
  /\ stage = "header"
  /\ IF header.target = TargetID(simTarget)
     THEN /\ stage' = "checked"
          /\ UNCHANGED <<simTarget, header, memory, memorySize, program, numInstructions>>
     ELSE CleanUpTo("failed")

\* bound: the uint32_t sum does not wrap, which takes a file of 2^32 - FreeMemory bytes
ReadMemory(bytes) ==
  /\ stage = "checked"
  /\ IF Readable(bytes, 10 + header.memory)
     THEN /\ memorySize' = 4 * ((header.memory + FreeMemory) \div 4)
          /\ memory' = Bytes(bytes, 11, header.memory)
          /\ stage' = "memory"
          /\ UNCHANGED <<simTarget, header, program, numInstructions>>
     ELSE CleanUpTo("failed")

AllocateInstructions ==
  /\ stage = "memory"
  /\ IF header.instructions % 4 = 0
     THEN /\ numInstructions' = header.instructions \div 4
          /\ stage' = "instructions"
          /\ UNCHANGED <<simTarget, header, memory, memorySize, program>>
     ELSE CleanUpTo("failed")

ReadInstruction(bytes) ==
  LET first == 11 + header.memory + 4 * Len(program)
      next == Decoded(simTarget, WordOf(Bytes(bytes, first, 4)), Len(program))
  IN
  /\ stage = "instructions" /\ Len(program) < numInstructions
  /\ IF Readable(bytes, first + 3) /\ next.op # "UNKNOWN"
     THEN /\ program' = Append(program, next)
          /\ UNCHANGED <<simTarget, stage, header, memory, memorySize, numInstructions>>
     ELSE CleanUpTo("failed")

\* resetSimulator, then the simulation
StartSimulation ==
  /\ stage = "instructions" /\ Len(program) = numInstructions
  /\ stage' = "running"
  /\ UNCHANGED <<simTarget, header, memory, memorySize, program, numInstructions>>

FinishSimulation ==
  /\ stage = "running"
  /\ CleanUpTo("finished")

LoaderNext(bytes) ==
  \/ StartSimulator \/ ReadFileHeader(bytes) \/ CheckTargetID \/ ReadMemory(bytes)
  \/ AllocateInstructions \/ ReadInstruction(bytes)
  \/ StartSimulation \/ FinishSimulation
=============================================================================
