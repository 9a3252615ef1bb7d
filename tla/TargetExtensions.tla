--------------------------- MODULE TargetExtensions ---------------------------
(***************************************************************************)
(* The encoders and decoders of the three extended targets: sparc_v8 with  *)
(* hardware loops, conditional moves or selects, and blocks predicated on  *)
(* condition codes or on predicate registers; and the choice among all     *)
(* four that -t makes.                                                     *)
(***************************************************************************)
EXTENDS TargetV8

Op2HWLOOP == 1
Op2MOVCC == 3
Op2SELCC == 3
Op2PREDBLOCKS == 5        \* on condition codes or on predicate registers

\* condition codes with a meaning of their own to the decoder
CCAlways == 8
CCNever == 0

TargetID(target) ==
  CASE target = "v8"                 -> 0
    [] target = "v8-blockicc-movcc"  -> 1
    [] target = "v8-blockpreg-selcc" -> 2
    [] target = "v8-blockicc-selcc"  -> 3
-----------------------------------------------------------------------------
(* Hardware loops: the rd field tells what is initialised *)
LoopTypeS == 0
LoopTypeE == 1
LoopTypeImm == 2
LoopTypeReg == 3
LoopTypeStart == 4

WithLoopInit(w, o, instrNo) ==
  CASE o[1].value = LoopS -> SetImm22(SetRd(w, LoopTypeS), o[2].value - instrNo)
    [] o[1].value = LoopE -> SetImm22(SetRd(w, LoopTypeE), o[2].value - instrNo)
    [] o[1].value = LoopB /\ o[2].type = "REGISTER" -> SetRs1(SetRd(w, LoopTypeReg), o[2].value)
    [] o[1].value = LoopB /\ o[2].type = "IMM22" -> SetImm22(SetRd(w, LoopTypeImm), o[2].value)

HwloopOpcode(w) == IF GetRd(w) = LoopTypeStart THEN "HWLOOP_START" ELSE "HWLOOP_INIT"

DecodedHwloopInit(w, instrNo) ==
  LET To(reg) == Instruction("HWLOOP_INIT",
                   <<Operand("LOOP_REG", reg), Displaced(instrNo, GetImm22(w), 22)>>)
  IN CASE GetRd(w) = LoopTypeS   -> To(LoopS)
       [] GetRd(w) = LoopTypeE   -> To(LoopE)
       [] GetRd(w) = LoopTypeImm -> HWLoopBoundImmInstr(GetImm22(w))
       [] GetRd(w) = LoopTypeReg -> HWLoopBoundRegInstr(GetRs1(w))
       [] OTHER                  -> Unknown
-----------------------------------------------------------------------------
(* Selects: two bits tell which operands are immediates *)
WithSel(w, o) ==
  LET placed == SelSetIcc(SetRd(w, o[1].value), o[4].value)
  IN CASE o[2].type = "REGISTER" /\ o[3].type = "SIMM11" ->
            SelSetSimm11(SelSetType(SelSetRs1(placed, o[2].value), 1), o[3].value)
       [] o[2].type = "REGISTER" /\ o[3].type # "SIMM11" ->
            SelSetRs2(SelSetType(SelSetRs1(placed, o[2].value), 0), o[3].value)
       [] OTHER ->
            SelSetSrc2Imm8(SelSetSrc1Imm8(SelSetType(placed, 2), o[2].value), o[3].value)

DecodedSel(w) ==
  LET rd == GetRd(w)
      cc == SelGetIcc(w)
  IN CASE SelGetType(w) = 0 -> SelCCRegRegInstr(rd, SelGetRs1(w), GetRs2(w), cc)
       [] SelGetType(w) = 1 -> SelCCRegImmInstr(rd, SelGetRs1(w), Extended(SelGetSimm11(w), 11), cc)
       [] SelGetType(w) = 2 -> SelCCImmImmInstr(rd, Extended(SelGetSrc1Imm8(w), 8),
                                                    Extended(SelGetSrc2Imm8(w), 8), cc)
       [] OTHER             -> Unknown

(* Conditional moves: the destination is in the second source field *)
WithMov(w, o) == SetCC(SetRs1(SetRs2(w, o[1].value), o[2].value), o[3].value)
DecodedMov(w) == MovCCInstr(GetRs2(w), GetRs1(w), GetCC(w))
-----------------------------------------------------------------------------
(* Predicated blocks on condition codes: the a bit marks the begin *)
WithBlockIcc(w, op, o) ==
  IF op = "PREDBEGIN" THEN SetCC(SetA(w, 1), o[1].value) ELSE SetA(w, 0)

BlockIccOpcode(w) == IF GetA(w) = 1 THEN "PREDBEGIN" ELSE "PREDEND"

DecodedBlockIcc(op, w) ==
  IF op = "PREDBEGIN" THEN Instruction(op, <<ICC(GetCC(w))>>) ELSE ZeroOperandInstr(op)

(* Predicated blocks on predicate registers: clearing is setting on "never" *)
BlockBegin == 0
BlockEnd == 1
BlockSet == 2

WithBlockPreg(w, op, o) ==
  CASE op = "PREDEND"   -> PredSetType(w, BlockEnd)
    [] op = "PREDBEGIN" -> PredSetTf(SetRs2(PredSetType(w, BlockBegin), o[1].value), o[2].value)
    [] op = "PREDCLEAR" -> SetRd(PredSetIcc(PredSetType(w, BlockSet), CCNever), o[1].value)
    [] op = "PREDSET"   -> PredSetIcc(SetRd(PredSetType(w, BlockSet), o[1].value),
                                      IF Len(o) = 1 THEN CCAlways ELSE o[2].value)

BlockPregOpcode(w) ==
  CASE PredGetType(w) = BlockBegin                         -> "PREDBEGIN"
    [] PredGetType(w) = BlockEnd                           -> "PREDEND"
    [] PredGetType(w) = BlockSet /\ PredGetIcc(w) = CCNever  -> "PREDCLEAR"
    [] PredGetType(w) = BlockSet /\ PredGetIcc(w) # CCNever  -> "PREDSET"
    [] OTHER                                               -> "UNKNOWN"

DecodedBlockPreg(op, w) ==
  CASE op = "PREDBEGIN" -> AddPReg(ZeroOperandInstr(op), GetRs2(w), PredGetTf(w))
    [] op = "PREDEND"   -> ZeroOperandInstr(op)
    [] op = "PREDCLEAR" -> PredRegInstr(op, GetRd(w))
    [] op = "PREDSET" /\ PredGetIcc(w) = CCAlways -> PredRegInstr(op, GetRd(w))
    [] op = "PREDSET" /\ PredGetIcc(w) # CCAlways ->
         AddICC(PredRegInstr(op, GetRd(w)), PredGetIcc(w))
-----------------------------------------------------------------------------
(* The target sparc_v8-blockicc-movcc *)
MovccOpcodeWord(op) ==
  CASE op \in {"HWLOOP_START", "HWLOOP_INIT"} -> FormatWord(0, Op2HWLOOP)
    [] op = "MOV"                             -> FormatWord(0, Op2MOVCC)
    [] op \in {"PREDBEGIN", "PREDEND"}        -> FormatWord(0, Op2PREDBLOCKS)
    [] OTHER                                  -> V8OpcodeWord(op)

MovccWithOperands(w, op, o, instrNo) ==
  CASE op = "HWLOOP_START"             -> SetRd(w, LoopTypeStart)
    [] op = "HWLOOP_INIT"              -> WithLoopInit(w, o, instrNo)
    [] op = "MOV"                      -> WithMov(w, o)
    [] op \in {"PREDBEGIN", "PREDEND"} -> WithBlockIcc(w, op, o)
    [] OTHER                           -> V8WithOperands(w, op, o, instrNo)

MovccOpcode(w) ==
  Opcode(w, CASE GetOp2(w) = Op2HWLOOP     -> HwloopOpcode(w)
              [] GetOp2(w) = Op2MOVCC      -> "MOV"
              [] GetOp2(w) = Op2PREDBLOCKS -> BlockIccOpcode(w)
              [] OTHER                     -> V8Format2(w))

MovccDecoded(op, w, instrNo) ==
  CASE op = "HWLOOP_START"             -> ZeroOperandInstr(op)
    [] op = "HWLOOP_INIT"              -> DecodedHwloopInit(w, instrNo)
    [] op = "MOV"                      -> DecodedMov(w)
    [] op \in {"PREDBEGIN", "PREDEND"} -> DecodedBlockIcc(op, w)
    [] OTHER                           -> V8Decoded(op, w, instrNo)

(* The target sparc_v8-blockicc-selcc *)
SelccOpcodeWord(op) ==
  CASE op \in {"HWLOOP_START", "HWLOOP_INIT"} -> FormatWord(0, Op2HWLOOP)
    [] op = "SEL"                             -> FormatWord(0, Op2SELCC)
    [] op \in {"PREDBEGIN", "PREDEND"}        -> FormatWord(0, Op2PREDBLOCKS)
    [] OTHER                                  -> V8OpcodeWord(op)

SelccWithOperands(w, op, o, instrNo) ==
  CASE op = "HWLOOP_START"             -> SetRd(w, LoopTypeStart)
    [] op = "HWLOOP_INIT"              -> WithLoopInit(w, o, instrNo)
    [] op = "SEL"                      -> WithSel(w, o)
    [] op \in {"PREDBEGIN", "PREDEND"} -> WithBlockIcc(w, op, o)
    [] OTHER                           -> V8WithOperands(w, op, o, instrNo)

SelccOpcode(w) ==
  Opcode(w, CASE GetOp2(w) = Op2HWLOOP     -> HwloopOpcode(w)
              [] GetOp2(w) = Op2SELCC      -> "SEL"
              [] GetOp2(w) = Op2PREDBLOCKS -> BlockIccOpcode(w)
              [] OTHER                     -> V8Format2(w))

SelccDecoded(op, w, instrNo) ==
  CASE op = "HWLOOP_START"             -> ZeroOperandInstr(op)
    [] op = "HWLOOP_INIT"              -> DecodedHwloopInit(w, instrNo)
    [] op = "SEL"                      -> DecodedSel(w)
    [] op \in {"PREDBEGIN", "PREDEND"} -> DecodedBlockIcc(op, w)
    [] OTHER                           -> V8Decoded(op, w, instrNo)

(* The target sparc_v8-blockpreg-selcc *)
PredicationOps == {"PREDBEGIN", "PREDEND", "PREDSET", "PREDCLEAR"}

PregOpcodeWord(op) ==
  CASE op \in {"HWLOOP_START", "HWLOOP_INIT"} -> FormatWord(0, Op2HWLOOP)
    [] op = "SEL"                             -> FormatWord(0, Op2SELCC)
    [] op \in PredicationOps                  -> FormatWord(0, Op2PREDBLOCKS)
    [] OTHER                                  -> V8OpcodeWord(op)

PregWithOperands(w, op, o, instrNo) ==
  CASE op = "HWLOOP_START"    -> SetRd(w, LoopTypeStart)
    [] op = "HWLOOP_INIT"     -> WithLoopInit(w, o, instrNo)
    [] op = "SEL"             -> WithSel(w, o)
    [] op \in PredicationOps  -> WithBlockPreg(w, op, o)
    [] OTHER                  -> V8WithOperands(w, op, o, instrNo)

PregOpcode(w) ==
  Opcode(w, CASE GetOp2(w) = Op2HWLOOP     -> HwloopOpcode(w)
              [] GetOp2(w) = Op2SELCC      -> "SEL"
              [] GetOp2(w) = Op2PREDBLOCKS -> BlockPregOpcode(w)
              [] OTHER                     -> V8Format2(w))

PregDecoded(op, w, instrNo) ==
  CASE op = "HWLOOP_START"    -> ZeroOperandInstr(op)
    [] op = "HWLOOP_INIT"     -> DecodedHwloopInit(w, instrNo)
    [] op = "SEL"             -> DecodedSel(w)
    [] op \in PredicationOps  -> DecodedBlockPreg(op, w)
    [] OTHER                  -> V8Decoded(op, w, instrNo)
-----------------------------------------------------------------------------
(* The functions the target's library registers *)
Encodable(target, i) ==
  \/ target = "v8" /\ V8Encodable(i.op, i.operands)
  \/ target # "v8"

Encoded(target, i, instrNo) ==
  LET op == i.op
      o == i.operands
  IN CASE target = "v8"                 -> V8WithOperands(V8OpcodeWord(op), op, o, instrNo)
       [] target = "v8-blockicc-movcc"  -> MovccWithOperands(MovccOpcodeWord(op), op, o, instrNo)
       [] target = "v8-blockicc-selcc"  -> SelccWithOperands(SelccOpcodeWord(op), op, o, instrNo)
       [] target = "v8-blockpreg-selcc" -> PregWithOperands(PregOpcodeWord(op), op, o, instrNo)

Decoded(target, w, instrNo) ==
  CASE target = "v8"                 -> V8Decoded(V8Opcode(w), w, instrNo)
    [] target = "v8-blockicc-movcc"  -> MovccDecoded(MovccOpcode(w), w, instrNo)
    [] target = "v8-blockicc-selcc"  -> SelccDecoded(SelccOpcode(w), w, instrNo)
    [] target = "v8-blockpreg-selcc" -> PregDecoded(PregOpcode(w), w, instrNo)

Opcodes ==
  DOMAIN Op3Memory \cup DOMAIN Op3Other
    \cup {"CALL", "BRANCH", "SETHI", "CYCLE_PRINT", "CYCLE_CLEAR", "MOV", "SEL",
          "HWLOOP_INIT", "HWLOOP_START", "PREDBEGIN", "PREDEND", "PREDSET", "PREDCLEAR"}

\* an instruction of a source with the labels given, and one whose labels are
\* addresses already
IsInstruction(i, labels) ==
  \E op \in Opcodes : i \in [op : {op}, operands : OperandLists(op, OperandsOf("LABEL", labels), labels)]
IsResolved(i) ==
  \E op \in Opcodes : i \in [op : {op}, operands : OperandLists(op, OperandsOf("LABEL_ADDRESS", Int), {})]

\* the displacements of instruction number n fit into their fields, which nobody checks
Reaches(i, n) ==
  \A k \in DOMAIN i.operands :
    LET o == i.operands[k] IN
    o.type = "LABEL_ADDRESS" => o.value - n \in SignedField(IF i.op = "CALL" THEN 30 ELSE 22)
-----------------------------------------------------------------------------
(***************************************************************************)
(* What the simulator must make of an instruction whose labels are         *)
(* addresses.  "sethi 0, %g0" is "nop"; setting a predicate on "always" or *)
(* "never" is setting and clearing it; a loop bound has no sign.           *)
(***************************************************************************)
Meant(i) ==
  LET o == i.operands IN
  CASE i.op = "SETHI" /\ o[1].value = 0 /\ o[2].value = 0 -> ZeroOperandInstr("NOP")
    [] i.op = "PREDSET" /\ Len(o) = 2 /\ o[2].value = CCAlways -> PredRegInstr("PREDSET", o[1].value)
    [] i.op = "PREDSET" /\ Len(o) = 2 /\ o[2].value = CCNever -> PredRegInstr("PREDCLEAR", o[1].value)
    [] i.op = "HWLOOP_INIT" /\ o[2].type = "IMM22" -> HWLoopBoundImmInstr(o[2].value % 2^22)
    [] OTHER -> i
=============================================================================
