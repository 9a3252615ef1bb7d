-------------------------- MODULE MCInstructionCodec --------------------------
(***************************************************************************)
(* Every opcode of every target, with the operands at the ends of their    *)
(* fields: first and last register, smallest and largest immediate.        *)
(***************************************************************************)
EXTENDS InstructionCodec

RegisterTriples == {<<31, 0, 31>>, <<0, 31, 0>>, <<1, 30, 8>>}
Immediates13 == {-4096, -1, 0, 4095}
Immediates11 == {-1024, -1, 0, 1023}
Immediates8 == {-128, -1, 0, 127}
ConditionCodes == {0, 1, 8, 15}
Distances22 == {-(2^21), -1, 0, 2^21 - 1}
Distances30 == {-(2^29), -1, 0, 2^29 - 1}

ThreeOperandOps == DOMAIN Op3Memory \cup (DOMAIN Op3Other \ {"RD"})

InstructionsAt(n) ==
  LET Address(distance) == Operand("LABEL_ADDRESS", n + distance) IN
  {RegRegInstr(op, r[1], r[2], r[3]) : op \in ThreeOperandOps, r \in RegisterTriples}
  \cup {RegImmInstr(op, 31, 1, imm) : op \in ThreeOperandOps, imm \in Immediates13}
  \cup {RegImmInstr("ADD", 1, 1, 4096), SethiInstr(1, -1), NopInstr, RdInstr(31, 0)}
  \cup {SethiInstr(rd, imm) : rd \in {0, 31}, imm \in {1, 2^22 - 1}}
  \cup {Instruction("BRANCH", <<Address(d), ICC(cc)>>) : d \in Distances22, cc \in ConditionCodes}
  \cup {Instruction("CALL", <<Address(d)>>) : d \in Distances30}
  \cup {ZeroOperandInstr(op) : op \in {"CYCLE_PRINT", "CYCLE_CLEAR", "HWLOOP_START", "PREDEND"}}
  \cup {Instruction("HWLOOP_INIT", <<Operand("LOOP_REG", r), Address(d)>>) :
          r \in {LoopS, LoopE}, d \in Distances22}
  \cup {HWLoopBoundImmInstr(imm) : imm \in {-1, 0, 2^21 - 1, 2^21}}
  \cup {HWLoopBoundRegInstr(r) : r \in {0, 31}}
  \cup {MovCCInstr(31, 1, cc) : cc \in ConditionCodes}
  \cup {SelCCRegRegInstr(r[1], r[2], r[3], cc) : r \in RegisterTriples, cc \in ConditionCodes}
  \cup {SelCCRegImmInstr(31, 31, imm, cc) : imm \in Immediates11, cc \in ConditionCodes}
  \cup {SelCCImmImmInstr(31, a, b, cc) : a \in Immediates8, b \in Immediates8, cc \in ConditionCodes}
  \cup {AddICC(ZeroOperandInstr("PREDBEGIN"), cc) : cc \in ConditionCodes}
  \cup {AddPReg(ZeroOperandInstr("PREDBEGIN"), p, tf) : p \in {0, 15}, tf \in {0, 1}}
  \cup {PredRegInstr(op, p) : op \in {"PREDSET", "PREDCLEAR"}, p \in {0, 15}}
  \cup {AddICC(PredRegInstr("PREDSET", p), cc) : p \in {0, 15}, cc \in ConditionCodes}

Positions == {0, 2^22}
=============================================================================
