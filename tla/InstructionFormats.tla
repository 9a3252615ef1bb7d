-------------------------- MODULE InstructionFormats --------------------------
(***************************************************************************)
(* The instructions the assembler knows: the operand arrays its save       *)
(* functions build, what the grammar and those functions refuse, and what  *)
(* becomes of a label operand once the address of the label is known.      *)
(* Registers, condition codes and predicate registers are numbers here,    *)
(* as in the sources; labels are whatever the constants make them.         *)
(***************************************************************************)
EXTENDS Integers, Sequences

CONSTANTS LowRange        \* %lo takes an address modulo LowRange; 2^10 in the code

ASSUME LowRangeAssumption == LowRange \in Nat \ {0, 1}

Targets == {"v8", "v8-blockicc-movcc", "v8-blockpreg-selcc", "v8-blockicc-selcc"}

\* what the targets support; no target has predicated instructions
HasMovCC == {"v8-blockicc-movcc"}
HasSelCC == {"v8-blockpreg-selcc", "v8-blockicc-selcc"}
HasHWLoops == Targets \ {"v8"}
HasPredBlocksCC == {"v8-blockicc-movcc", "v8-blockicc-selcc"}
HasPredBlocksReg == {"v8-blockpreg-selcc"}
HasPredInstrsCC == {}
HasPredInstrsReg == {}
-----------------------------------------------------------------------------
Operand(type, value) == [type |-> type, value |-> value]
Reg(r) == Operand("REGISTER", r)
ICC(cc) == Operand("ICC", cc)
Preg(p) == Operand("PREG", p)
LabelOperand(type, l) == Operand(type, l)

\* the registers of "hwloop init"
LoopS == 1
LoopE == 2
LoopB == 3

Instruction(op, operands) == [op |-> op, operands |-> operands]

BranchInstr(cc, label) == Instruction("BRANCH", <<LabelOperand("LABEL", label), ICC(cc)>>)
CallInstr(label) == Instruction("CALL", <<LabelOperand("LABEL", label)>>)
RegRegInstr(op, rd, rs1, rs2) == Instruction(op, <<Reg(rd), Reg(rs1), Reg(rs2)>>)
RegImmInstr(op, rd, rs1, imm) == Instruction(op, <<Reg(rd), Reg(rs1), Operand("SIMM13", imm)>>)
RegLabelInstr(op, rd, rs1, label) ==
  Instruction(op, <<Reg(rd), Reg(rs1), LabelOperand("LOW_LABEL", label)>>)
AddrInstr(op, rd, address) == Instruction(op, <<Reg(rd)>> \o address)
SethiInstr(rd, imm) == Instruction("SETHI", <<Reg(rd), Operand("IMM22", imm)>>)
SethiLabelInstr(rd, label) == Instruction("SETHI", <<Reg(rd), LabelOperand("HI_LABEL", label)>>)
NopInstr == SethiInstr(0, 0)
RdInstr(rd, special) == Instruction("RD", <<Reg(rd), Reg(special)>>)
MovCCInstr(rd, rs, cc) == Instruction("MOV", <<Reg(rd), Reg(rs), ICC(cc)>>)
SelCCRegRegInstr(rd, rs1, rs2, cc) == Instruction("SEL", <<Reg(rd), Reg(rs1), Reg(rs2), ICC(cc)>>)
SelCCRegImmInstr(rd, rs1, imm, cc) ==
  Instruction("SEL", <<Reg(rd), Reg(rs1), Operand("SIMM11", imm), ICC(cc)>>)
SelCCImmImmInstr(rd, imm1, imm2, cc) ==
  Instruction("SEL", <<Reg(rd), Operand("SIMM8", imm1), Operand("SIMM8", imm2), ICC(cc)>>)
ZeroOperandInstr(op) == Instruction(op, << >>)
HWLoopInitInstr(reg, label) ==
  Instruction("HWLOOP_INIT", <<Operand("LOOP_REG", reg), LabelOperand("LABEL", label)>>)
HWLoopBoundRegInstr(rs) == Instruction("HWLOOP_INIT", <<Operand("LOOP_REG", LoopB), Reg(rs)>>)
HWLoopBoundImmInstr(imm) ==
  Instruction("HWLOOP_INIT", <<Operand("LOOP_REG", LoopB), Operand("IMM22", imm)>>)
PredRegInstr(op, p) == Instruction(op, <<Preg(p)>>)

\* addICC and addPReg append to the instruction saved last
AddICC(i, cc) == [i EXCEPT !.operands = Append(@, ICC(cc))]
AddPReg(i, p, tf) == [i EXCEPT !.operands = @ \o <<Preg(p), Operand("TF", tf)>>]

\* the second and third operand of a memory access or a jump
RegisterAddress(r) == <<Reg(r), Operand("SIMM13", 0)>>
IndexedAddress(r, index) == <<Reg(r), Reg(index)>>
OffsetAddress(r, imm) == <<Reg(r), Operand("SIMM13", imm)>>
LabelAddress(r, label) == <<Reg(r), LabelOperand("LOW_LABEL", label)>>

\* what the grammar lets stand behind an opcode.  A branch or a loop names one of
\* targets, %hi and %lo one of labels.
OperandsOf(type, values) == [type : {type}, value : values]
RegisterOperands == OperandsOf("REGISTER", 0 .. 31)
ConditionOperands == OperandsOf("ICC", 0 .. 15)
PredicateOperands == OperandsOf("PREG", 0 .. 15)

OperandLists(op, targets, labels) ==
  LET R == RegisterOperands
      C == ConditionOperands
      P == PredicateOperands
      Number(type) == OperandsOf(type, Int)
  IN CASE op = "CALL"        -> [1 .. 1 -> targets]
       [] op = "BRANCH"      -> targets \X C
       [] op = "SETHI"       -> R \X (Number("IMM22") \cup OperandsOf("HI_LABEL", labels))
       [] op = "RD"          -> R \X OperandsOf("REGISTER", {0})
       [] op = "MOV"         -> R \X R \X C
       [] op = "SEL"         -> (R \X R \X (R \cup Number("SIMM11")) \X C)
                                  \cup (R \X Number("SIMM8") \X Number("SIMM8") \X C)
       [] op = "HWLOOP_INIT" -> (OperandsOf("LOOP_REG", {LoopS, LoopE}) \X targets)
                                  \cup (OperandsOf("LOOP_REG", {LoopB}) \X (R \cup Number("IMM22")))
       [] op = "PREDBEGIN"   -> [1 .. 1 -> C] \cup (P \X OperandsOf("TF", {0, 1}))
       [] op = "PREDSET"     -> [1 .. 1 -> P] \cup (P \X C)
       [] op = "PREDCLEAR"   -> [1 .. 1 -> P]
       [] op \in {"CYCLE_PRINT", "CYCLE_CLEAR", "HWLOOP_START", "PREDEND"} -> {<< >>}
       [] OTHER              -> R \X R \X (R \cup Number("SIMM13") \cup OperandsOf("LOW_LABEL", labels))
-----------------------------------------------------------------------------
SignedField(width) == -(2^(width - 1)) .. 2^(width - 1) - 1
UnsignedField(width) == 0 .. 2^width - 1

\* yyerror of the save functions: immediates out of the range of their field
InRange(i) ==
  \A k \in DOMAIN i.operands :
    LET o == i.operands[k] IN
    /\ o.type = "SIMM13" => o.value \in SignedField(13)
    /\ o.type = "SIMM11" => o.value \in SignedField(11)
    /\ o.type = "SIMM8" => o.value \in SignedField(8)
    /\ o.type = "IMM22" /\ i.op = "SETHI" => o.value \in UnsignedField(22)
    /\ o.type = "IMM22" /\ i.op = "HWLOOP_INIT" => o.value \in SignedField(22)

\* yyerror of the grammar: extensions the target lacks.  An instruction may
\* itself be guarded by a condition code or a predicate register; a guarded
\* SAVE or RESTORE without label is taken for one with a condition code.
HasPredInstrs(i, guard) ==
  IF guard = "icc" \/ (i.op \in {"SAVE", "RESTORE"} /\ i.operands[3].type # "LOW_LABEL")
  THEN HasPredInstrsCC ELSE HasPredInstrsReg

Supported(target, i, guard) ==
  /\ guard # "none" => target \in HasPredInstrs(i, guard)
  /\ i.op = "MOV" => target \in HasMovCC
  /\ i.op = "SEL" => target \in HasSelCC
  /\ i.op \in {"HWLOOP_INIT", "HWLOOP_START"} => target \in HasHWLoops
  /\ i.op = "PREDBEGIN" =>
       target \in IF i.operands[1].type = "ICC" THEN HasPredBlocksCC ELSE HasPredBlocksReg
  /\ i.op \in {"PREDSET", "PREDCLEAR"} => target \in HasPredBlocksReg \cup HasPredInstrsReg

LabelTypes == {"LABEL", "HI_LABEL", "LOW_LABEL"}

ReferencesOf(i) ==
  {i.operands[k].value : k \in {n \in DOMAIN i.operands : i.operands[n].type \in LabelTypes}}

\* checkLabels: the operand a label operand is replaced by
ResolvedOperand(o, address) ==
  CASE o.type = "LABEL"     -> Operand("LABEL_ADDRESS", address[o.value])
    [] o.type = "HI_LABEL"  -> Operand("IMM22", (address[o.value] \div LowRange) % 2^22)
    [] o.type = "LOW_LABEL" -> Operand("SIMM13", address[o.value] % LowRange)
    [] OTHER                -> o

Resolved(i, address) ==
  [i EXCEPT !.operands = [k \in DOMAIN @ |-> ResolvedOperand(@[k], address)]]
=============================================================================
