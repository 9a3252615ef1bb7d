------------------------------- MODULE TargetV8 -------------------------------
(***************************************************************************)
(* The encoder and the decoder of the target sparc_v8, which the other     *)
(* targets extend: an instruction [op, operands] becomes a word, field by  *)
(* field, and a word becomes an instruction or UNKNOWN.                    *)
(***************************************************************************)
EXTENDS InstructionFormats, InstructionWords

Op2BICC == 2
Op2SETHI == 4
Op2SIMCYCLES == 0

\* op3 codes of the memory accesses (op = 3) ...
Op3Memory ==
  [LDSB |-> 9, LDSH |-> 10, LDUB |-> 1, LDUH |-> 2, LD |-> 0, LDD |-> 3,
   LDSBA |-> 25, LDSHA |-> 26, LDUBA |-> 17, LDUHA |-> 18, LDA |-> 16, LDDA |-> 19,
   STB |-> 5, STH |-> 6, ST |-> 4, STD |-> 7, STBA |-> 21, STHA |-> 22, STA |-> 20, STDA |-> 23,
   LDSTUB |-> 13, LDSTUBA |-> 29, SWAP |-> 15, SWAPA |-> 31]

\* ... and of all other instructions (op = 2)
Op3Other ==
  [AND |-> 1, ANDCC |-> 17, ANDN |-> 5, ANDNCC |-> 21, OR |-> 2, ORCC |-> 18, ORN |-> 6,
   ORNCC |-> 22, XOR |-> 3, XORCC |-> 19, XNOR |-> 7, XNORCC |-> 23,
   SLL |-> 37, SRL |-> 38, SRA |-> 39, ADD |-> 0, ADDCC |-> 16, ADDX |-> 8, ADDXCC |-> 24,
   TADDCC |-> 32, TADDCCTV |-> 34, SUB |-> 4, SUBCC |-> 20, SUBX |-> 12, SUBXCC |-> 28,
   TSUBCC |-> 33, TSUBCCTV |-> 35, MULSCC |-> 36, UMUL |-> 10, SMUL |-> 11, UMULCC |-> 26,
   SMULCC |-> 27, UDIV |-> 14, SDIV |-> 15, UDIVCC |-> 30, SDIVCC |-> 31,
   SAVE |-> 60, RESTORE |-> 61, JUMPL |-> 56, RD |-> 40, WR |-> 48]

CodedAs(codes, code) ==
  IF \E op \in DOMAIN codes : codes[op] = code
  THEN CHOOSE op \in DOMAIN codes : codes[op] = code
  ELSE "UNKNOWN"
-----------------------------------------------------------------------------
\* init_bin_instruction, on a word of zeros; an opcode no case knows leaves it so
FormatWord(op, op2) == SetOp2(SetOp(ZeroWord, op), op2)

V8OpcodeWord(op) ==
  CASE op = "CALL"              -> SetOp(ZeroWord, 1)
    [] op = "SETHI"             -> FormatWord(0, Op2SETHI)
    [] op = "BRANCH"            -> FormatWord(0, Op2BICC)
    [] op = "CYCLE_PRINT"       -> SetRd(FormatWord(0, Op2SIMCYCLES), 0)
    [] op = "CYCLE_CLEAR"       -> SetRd(FormatWord(0, Op2SIMCYCLES), 1)
    [] op \in DOMAIN Op3Memory  -> SetOp3(SetOp(ZeroWord, 3), Op3Memory[op])
    [] op \in DOMAIN Op3Other   -> SetOp3(SetOp(ZeroWord, 2), Op3Other[op])
    [] OTHER                    -> ZeroWord

\* the default case of printInstructions takes three operands
WithThreeOperands(w, o) ==
  LET placed == SetRs1(SetRd(w, o[1].value), o[2].value)
  IN  IF o[3].type = "REGISTER" THEN SetRs2(placed, o[3].value) ELSE SetSimm13(placed, o[3].value)

\* printInstructions: the operands o of instruction number instrNo, in its word w
V8WithOperands(w, op, o, instrNo) ==
  CASE op = "CALL"   -> SetDisp30(w, o[1].value - instrNo)
    [] op = "BRANCH" -> SetA(SetCC(SetImm22(w, o[1].value - instrNo), o[2].value), 0)
    [] op = "SETHI"  -> SetImm22(SetRd(w, o[1].value), o[2].value)
    [] op = "RD"     -> SetRs1(SetRd(w, o[1].value), o[2].value)
    [] op \in {"CYCLE_PRINT", "CYCLE_CLEAR"} -> w
    [] OTHER         -> WithThreeOperands(w, o)

\* an instruction that reaches the default case without operands is a null
\* pointer there: "predend" on this target, which the grammar lets through
V8Encodable(op, o) ==
  op \in {"CYCLE_PRINT", "CYCLE_CLEAR"} \/ Len(o) > 0
-----------------------------------------------------------------------------
\* getOpcode
V8Format2(w) ==
  CASE GetOp2(w) = Op2BICC                          -> "BRANCH"
    [] GetOp2(w) = Op2SETHI                         -> "SETHI"
    [] GetOp2(w) = Op2SIMCYCLES /\ GetRd(w) = 0     -> "CYCLE_PRINT"
    [] GetOp2(w) = Op2SIMCYCLES /\ GetRd(w) = 1     -> "CYCLE_CLEAR"
    [] OTHER                                        -> "UNKNOWN"

\* the formats that all targets share; format2 decodes op = 0
Opcode(w, format2) ==
  CASE GetOp(w) = 0 -> format2
    [] GetOp(w) = 1 -> "CALL"
    [] GetOp(w) = 2 -> CodedAs(Op3Other, GetOp3(w))
    [] GetOp(w) = 3 -> CodedAs(Op3Memory, GetOp3(w))

V8Opcode(w) == Opcode(w, V8Format2(w))

Unknown == Instruction("UNKNOWN", << >>)

FaultyDisplaced(instrNo, field, width) == Operand("LABEL_ADDRESS", instrNo + field)

\* a displacement becomes an absolute instruction number again
Displaced(instrNo, field, width) ==
  Operand("LABEL_ADDRESS", instrNo + Extended(field, width))

DecodedSethi(w) ==
  IF GetRd(w) = 0 /\ GetImm22(w) = 0
  THEN ZeroOperandInstr("NOP")
  ELSE SethiInstr(GetRd(w), GetImm22(w))

DecodedReadY(w) ==
  IF GetRs1(w) = 0 THEN RdInstr(GetRd(w), 0) ELSE Unknown

DecodedThreeOperands(op, w) ==
  IF GetI(w) = 1
  THEN RegImmInstr(op, GetRd(w), GetRs1(w), Extended(GetSimm13(w), 13))
  ELSE RegRegInstr(op, GetRd(w), GetRs1(w), GetRs2(w))

\* saveInstruction of the decoder; UNKNOWN stands for the errors it stops with
V8Decoded(op, w, instrNo) ==
  CASE op = "CALL"    -> Instruction(op, <<Displaced(instrNo, GetDisp30(w), 30)>>)
    [] op = "BRANCH"  -> Instruction(op, <<Displaced(instrNo, GetImm22(w), 22), ICC(GetCC(w))>>)
    [] op = "SETHI"   -> DecodedSethi(w)
    [] op = "RD"      -> DecodedReadY(w)
    [] op \in {"CYCLE_PRINT", "CYCLE_CLEAR", "UNKNOWN"} -> ZeroOperandInstr(op)
    [] OTHER          -> DecodedThreeOperands(op, w)
=============================================================================
