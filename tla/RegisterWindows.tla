--------------------------- MODULE RegisterWindows ---------------------------
(***************************************************************************)
(* The windowed register file of gen_sim.c.  Three arrays hold the values: *)
(* sparc_glob_regs, sparc_inout_regs[w] and sparc_local_regs[w].  The 32   *)
(* visible registers are pointers into them (sparc_window_registers), and  *)
(* changeCWP rewrites the pointers when SAVE or RESTORE turns the window.  *)
(* A register number G_REGISTER + i, O_REGISTER + i, ... of the code is    *)
(* the pair <<"g", i>>, <<"o", i>>, ...; an array element, what a pointer  *)
(* points at, is the triple <<array, window, i>>.                          *)
(***************************************************************************)
EXTENDS SparcWords

CONSTANTS
  NWindows,               \* NWINDOWS, 16 in the code, 2..32 allowed
  UIntRange,              \* 2^32, the range changeCWP computes in
  BankSize,               \* registers of a bank, 8 in the code
  SPOffset, CallOffset,   \* SP_REGISTER - O_REGISTER, CALL_ADDR_REGISTER - O_REGISTER
  StackTop,               \* data_memory_size - 4
  ReturnFromMain          \* END_OF_INS_MEM - 8

ASSUME WindowsAssumption ==
  /\ NWindows \in Nat \ {0, 1}
  /\ UIntRange \in Nat /\ NWindows <= UIntRange
  /\ BankSize \in Nat \ {0}
  /\ SPOffset \in 0 .. BankSize - 1 /\ CallOffset \in 0 .. BankSize - 1
  /\ StackTop \in Word /\ ReturnFromMain \in Word

VARIABLES
  cwp,                    \* PSR_GET_CWP(sparc_psr)
  windowRegisters,        \* sparc_window_registers
  regs                    \* the contents of the three arrays

windowVars == <<cwp, windowRegisters, regs>>

Windows == 0 .. NWindows - 1
Offsets == 0 .. BankSize - 1
Registers == {"g", "o", "l", "i"} \X Offsets
Cells == ({"glob"} \X {0} \X Offsets) \cup ({"inout", "local"} \X Windows \X Offsets)

G0 == <<"g", 0>>
StackPointer == <<"o", SPOffset>>      \* SP_REGISTER
CallAddress == <<"o", CallOffset>>       \* CALL_ADDR_REGISTER

\* type invariant: every pointer points into one of the three arrays
WindowsTypeOK ==
  /\ cwp \in Windows
  /\ windowRegisters \in [Registers -> Cells]
  /\ regs \in [Cells -> Word]
-----------------------------------------------------------------------------
\* the pointers with the outs at inout[w], the locals at local[w], the ins at inout[in]
Pointers(w, in) ==
  [r \in Registers |->
     IF r[1] = "g" THEN <<"glob", 0, r[2]>>
     ELSE IF r[1] = "o" THEN <<"inout", w, r[2]>>
     ELSE IF r[1] = "l" THEN <<"local", w, r[2]>>
     ELSE <<"inout", in, r[2]>>]

\* resetSimulator
ResetWindows ==
  /\ cwp = NWindows - 1
  /\ windowRegisters = Pointers(NWindows - 1, 0)
  /\ regs = [c \in Cells |->
               IF c = Pointers(NWindows - 1, 0)[CallAddress] THEN ReturnFromMain
               ELSE IF c = Pointers(NWindows - 1, 0)[StackPointer] THEN StackTop
               ELSE 0]

FaultyAfter(w) == w + 1

\* (cwp + 1)%NWINDOWS and (cwp - 1)%NWINDOWS in uint32_t: 0 - 1 wraps
After(w) == (w + 1) % NWindows
FaultyBefore(w) == IF w = 0 THEN 0 ELSE w - 1
Before(w) == ((w - 1) % UIntRange) % NWindows

FaultyChangeCWP(new) ==
  /\ cwp' = new
  /\ windowRegisters' = [r \in Registers |-> IF r[1] \in {"g", "i"} THEN windowRegisters[r]
                                             ELSE Pointers(new, After(new))[r]]

\* the outs, locals and ins move; the globals keep their pointers
ChangeCWP(new) ==
  /\ cwp' = new
  /\ windowRegisters' =
       [r \in Registers |-> IF r[1] = "g" THEN windowRegisters[r]
                            ELSE Pointers(new, After(new))[r]]

Read(r) == regs[windowRegisters[r]]

\* an operand is a register or a sign-extended immediate
Operands == Registers \cup ({"imm"} \X Word)
OperandValue(o) == IF o[1] = "imm" THEN o[2] ELSE Read(o)

FaultyWritten(pointers, r, v, executed) ==
  IF executed THEN [regs EXCEPT ![pointers[r]] = v] ELSE regs

\* *dst_address = v, with the pointers in force when dst_address was taken
Written(pointers, r, v, executed) ==
  IF executed /\ r # G0 THEN [regs EXCEPT ![pointers[r]] = v] ELSE regs
-----------------------------------------------------------------------------
(***************************************************************************)
(* The operations.  executed is FALSE inside a predicated block whose      *)
(* condition does not hold: the window turns all the same.                 *)
(***************************************************************************)
WriteRegister(r, v, executed) ==
  /\ regs' = Written(windowRegisters, r, v, executed)
  /\ UNCHANGED <<cwp, windowRegisters>>

FaultySave(rd, rs1, src2, executed) ==
  /\ ChangeCWP(Before(cwp))
  /\ regs' = Written(windowRegisters, rd, AddW(Read(rs1), OperandValue(src2)), executed)

\* the sources are read in the old window, the sum is written in the new one
Save(rd, rs1, src2, executed) ==
  /\ ChangeCWP(Before(cwp))
  /\ regs' = Written(windowRegisters', rd, AddW(Read(rs1), OperandValue(src2)), executed)

Restore(rd, rs1, src2, executed) ==
  /\ ChangeCWP(After(cwp))
  /\ regs' = Written(windowRegisters', rd, AddW(Read(rs1), OperandValue(src2)), executed)

NextWindows ==
  \E executed \in BOOLEAN, rd \in Registers :
    \/ \E v \in Word : WriteRegister(rd, v, executed)
    \/ \E rs1 \in Registers, src2 \in Operands : Save(rd, rs1, src2, executed)
    \/ \E rs1 \in Registers, src2 \in Operands : Restore(rd, rs1, src2, executed)

SpecWindows == ResetWindows /\ [][NextWindows]_windowVars
-----------------------------------------------------------------------------
(***************************************************************************)
(* The pointers are always those of the window the psr names: the ins of a *)
(* window are the outs of the next higher one.  resetSimulator, SAVE and   *)
(* RESTORE each rewrite 24 pointers for it.                                *)
(***************************************************************************)
PointersFollowCWP == windowRegisters = Pointers(cwp, After(cwp))

(***************************************************************************)
(* %g0 reads as zero after any sequence of instructions: no write and no   *)
(* aliasing of two pointers ever reaches sparc_glob_regs[0].               *)
(***************************************************************************)
ZeroRegister == Read(G0) = 0

(***************************************************************************)
(* RESTORE undoes the turn of a SAVE: the window below the current one has *)
(* the current one above it, also where the unsigned cwp - 1 wraps.        *)
(***************************************************************************)
RestoreUndoesSave == Before(cwp) \in Windows /\ After(Before(cwp)) = cwp
=============================================================================
