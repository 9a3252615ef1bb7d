---------------------------- MODULE SparcPrograms ----------------------------
(***************************************************************************)
(* Programs for the simulator core: the records readInstructions builds    *)
(* for the instructions of the four targets, and how programs end.         *)
(***************************************************************************)
EXTENDS SimulateStep, SequencesExt

G(i) == <<"g", i>>
O(i) == <<"o", i>>
L(i) == <<"l", i>>
I(i) == <<"i", i>>
Imm(v) == <<"imm", v % Modulus>>

\* rd = rs1 op src2: arithmetic, SAVE, RESTORE, JUMPL, loads and stores
Format3(op, rd, rs1, src2) == [op |-> op, rd |-> rd, rs1 |-> rs1, src2 |-> src2]
Set(rd, v) == Format3("ADD", rd, G0, Imm(v))
Copy(rd, rs) == Format3("ADD", rd, rs, Imm(0))
Compare(a, b) == Format3("SUBCC", G0, a, b)
Nop == [op |-> "NOP"]
Bcc(cc, target) == [op |-> "BRANCH", cc |-> cc, target |-> target]
CallTo(target) == [op |-> "CALL", target |-> target]
JumpTo(rd, rs1, v) == Format3("JUMPL", rd, rs1, Imm(v))
MovCC(rd, rs1, cc) == [op |-> "MOV", rd |-> rd, rs1 |-> rs1, cc |-> cc]
SelCC(rd, a, b, cc) == [op |-> "SEL", rd |-> rd, rs1 |-> a, src2 |-> b, cc |-> cc]
LoopStart(t) == [op |-> "HWLOOP_INIT", reg |-> "LOOPS", target |-> t]
LoopEnd(t) == [op |-> "HWLOOP_INIT", reg |-> "LOOPE", target |-> t]
LoopBound(src) == [op |-> "HWLOOP_INIT", reg |-> "LOOPB", src2 |-> src]
PredSetCC(p, cc) == [op |-> "PREDSET", preg |-> p, cc |-> cc]
BlockICC(cc) == [op |-> "PREDBEGIN", condition |-> [state |-> "ICC", icc |-> cc]]
BlockPreg(p, tf) == [op |-> "PREDBEGIN", condition |-> [state |-> "PREG", bit |-> <<p, tf>>]]
BlockEnd == [op |-> "PREDEND"]

\* retl; nop: a leaf procedure, and main, return through o7
ReturnFromLeaf == <<JumpTo(G0, CallAddress, 8), Nop>>

\* the program array of a sequence of instructions
Assembled(s) == [a \in 0 .. Len(s) - 1 |-> s[a + 1]]
=============================================================================
