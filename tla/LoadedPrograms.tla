---------------------------- MODULE LoadedPrograms ----------------------------
(***************************************************************************)
(* The simulator core on what assembler and loader make of a source file:  *)
(* the instructions and the memory that SourceMeaning says it means, each  *)
(* instruction encoded by the assembler and decoded by the simulator for   *)
(* its target, and its operands as simulateStep reads them.                *)
(***************************************************************************)
EXTENDS SparcPrograms, InstructionFormats

CONSTANTS
  Main, NoLabel,            \* of SourceMeaning
  FreeBytes,                \* what malloc may leave in the bytes after the data
  Images                    \* the pairs of a program and its memory explored

ASSUME LoadedAssumption ==
  /\ FreeBytes \subseteq Byte
  /\ LowRange = SethiScale      \* %hi and SETHI agree on where the word is split
  /\ BankSize = 8

VARIABLES
  image,                  \* the data memory when the simulation starts
  printed                 \* the cycles "sim-printcycles" has printed

Meaning == INSTANCE SourceMeaning

RegisterOf(n) == <<<<"g", "o", "l", "i">>[n \div 8 + 1], n % 8>>
RegisterOrImmediate(o) == IF o.type = "REGISTER" THEN RegisterOf(o.value) ELSE Imm(o.value)

\* enum condition_codes
ConditionCodeNames ==
  <<"N", "E", "LE", "L", "LEU", "CS", "NEG", "VS", "A", "NE", "G", "GE", "GU", "CC", "POS", "VC">>
ConditionName(o) == ConditionCodeNames[o.value + 1]
SpecialRegister(o) == IF o.value = 0 THEN "Y" ELSE "ASR"

HwloopInitOf(o) ==
  CASE o[1].value = 1 -> LoopStart(o[2].value)
    [] o[1].value = 2 -> LoopEnd(o[2].value)
    [] o[1].value = 3 -> LoopBound(RegisterOrImmediate(o[2]))

\* the operands each case of simulateStep takes from the operand array
CoreInstruction(i) ==
  LET o == i.operands IN
  CASE i.op = "CALL"        -> CallTo(o[1].value)
    [] i.op = "BRANCH"      -> Bcc(ConditionName(o[2]), o[1].value)
    [] i.op = "SETHI"       -> [op |-> i.op, rd |-> RegisterOf(o[1].value), imm |-> o[2].value]
    [] i.op = "RD"          -> [op |-> i.op, rd |-> RegisterOf(o[1].value), special |-> SpecialRegister(o[2])]
    [] i.op = "WR"          -> [op |-> i.op, special |-> SpecialRegister(o[1]),
                                rs1 |-> RegisterOf(o[2].value), src2 |-> RegisterOrImmediate(o[3])]
    [] i.op = "MOV"         -> MovCC(RegisterOf(o[1].value), RegisterOf(o[2].value), ConditionName(o[3]))
    [] i.op = "SEL"         -> SelCC(RegisterOf(o[1].value), RegisterOrImmediate(o[2]), RegisterOrImmediate(o[3]), ConditionName(o[4]))
    [] i.op = "HWLOOP_INIT" -> HwloopInitOf(o)
    [] i.op = "PREDBEGIN"   -> IF o[1].type = "ICC" THEN BlockICC(ConditionName(o[1]))
                               ELSE BlockPreg(o[1].value, o[2].value)
    [] i.op = "PREDSET"     -> IF Len(o) = 2 THEN PredSetCC(o[1].value, ConditionName(o[2]))
                               ELSE [op |-> i.op, preg |-> o[1].value]
    [] i.op = "PREDCLEAR"   -> [op |-> i.op, preg |-> o[1].value]
    [] Len(o) = 0           -> [op |-> i.op]
    [] OTHER                -> Format3(i.op, RegisterOf(o[1].value), RegisterOf(o[2].value), RegisterOrImmediate(o[3]))

\* instruction a, encoded and decoded at its place
LoadedProgram(target, source) ==
  LET instructions == Meaning!MeantInstructions(source)
      word(a) == Meaning!Encoded(target, instructions[a + 1], a)
  IN  [a \in 0 .. Len(instructions) - 1 |->
         CoreInstruction(Meaning!Decoded(target, word(a), a))]

\* the data, and what is free behind it
LoadedMemory(target, source, free) ==
  LET data == Meaning!MeantMemory(source)
  IN  [a \in Addresses |-> IF a + 1 \in DOMAIN data THEN data[a + 1] ELSE free]
-----------------------------------------------------------------------------
loadedVars == <<vars, image, printed>>

LoadedInit ==
  /\ \E i \in Images : program = i[1] /\ memory = i[2]
  /\ Init
  /\ image = memory
  /\ printed = << >>

LoadedStep ==
  /\ Next
  /\ printed' = IF Is({"CYCLE_PRINT"}) THEN Append(printed, localCycles) ELSE printed
  /\ UNCHANGED image

\* main calls simulateStep in a loop until it returns 0
LoadedSpec == LoadedInit /\ [][LoadedStep]_loadedVars /\ WF_loadedVars(LoadedStep)

\* the word the simulator found at address a when it was started
InitialWord(a) == WordAt(image, a)
=============================================================================
