---------------------------- MODULE MCMixedSteps ----------------------------
(***************************************************************************)
(* The instructions combined by MixedSteps: every opcode class, with the   *)
(* operands that reach its error and its undefined cases.                  *)
(***************************************************************************)
EXTENDS MixedSteps

ImageMemories == {[a \in Addresses |-> (a + 1) % ByteRange]}

AllKinds ==
  {Format3(op, L(0), L(0), Imm(3)) : op \in {"ADDX", "SUBCC", "SLL", "SMUL", "UDIV"}}
  \cup {Format3(op, L(0), G0, Imm(a)) : op \in {"LD", "ST"}, a \in {2, 4, 64}}
  \cup {Format3(op, L(0), G0, Imm(2)) : op \in {"LDSH", "LDUB", "STH", "STB"}}
  \cup {Format3(op, O(0), O(0), L(0)) : op \in {"SAVE", "RESTORE"}}
  \cup {[op |-> op] : op \in {"NOP", "CYCLE_CLEAR", "UNKNOWN", "STD", "SWAP", "HWLOOP_START"}}
  \cup {Format3("UDIV", L(0), L(0), Imm(0)), Format3("LDA", L(1), G0, Imm(4)),
        [op |-> "SETHI", rd |-> L(0), imm |-> 5],
        [op |-> "RD", rd |-> G0, special |-> "Y"], [op |-> "RD", rd |-> L(0), special |-> "Y"],
        [op |-> "RD", rd |-> L(0), special |-> "ASR"],
        [op |-> "WR", rs1 |-> L(0), src2 |-> Imm(1), special |-> "Y"],
        Bcc("L", 0), CallTo(3), JumpTo(L(0), L(0), 8), MovCC(L(1), L(0), "NE"),
        SelCC(L(0), Imm(1), L(1), "GU"), LoopStart(2), LoopEnd(5), LoopBound(Imm(2)),
        PredSetCC(0, "L"), [op |-> "PREDSET", preg |-> 0], [op |-> "PREDCLEAR", preg |-> 0],
        BlockICC("L"), BlockPreg(0, 1), BlockEnd}

\* for the comment of gen_sim.c that the code does not follow
LdaKinds == {Format3("LDA", L(1), G0, Imm(4)), Nop}

SetUp == <<Set(L(0), 4), Compare(L(0), Imm(5))>>
AllPreludes == {SetUp, SetUp \o <<BlockICC("GE")>>, SetUp \o <<BlockPreg(0, 1)>>}
=============================================================================
