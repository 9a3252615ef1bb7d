----------------------- MODULE RegisterWindows_proofs -----------------------
(***************************************************************************)
(* Proofs about the register windows, for every number of windows, every   *)
(* size of a bank and every word width.                                    *)
(***************************************************************************)
EXTENDS RegisterWindows, TLAPS

(***************************************************************************)
(* A number with quotient q and remainder r has that remainder: the step   *)
(* from the definition of % to the wrap-around of the window pointer.      *)
(***************************************************************************)
LEMMA AfterValue ==
  ASSUME NEW w \in Windows
  PROVE  After(w) = IF w = NWindows - 1 THEN 0 ELSE w + 1
  BY WindowsAssumption DEF After, Windows

LEMMA BeforeZero ==
  ASSUME UIntRange % NWindows = 0
  PROVE  (UIntRange - 1) % NWindows = NWindows - 1
  BY WindowsAssumption

LEMMA BeforeValue ==
  ASSUME NEW w \in Windows, UIntRange % NWindows = 0
  PROVE  Before(w) = IF w = 0 THEN NWindows - 1 ELSE w - 1
<1>1. CASE w = 0
  <2>1. (w - 1) % UIntRange = UIntRange - 1
    BY <1>1, WindowsAssumption
  <2> QED
    BY <1>1, <2>1, BeforeZero DEF Before
<1>2. CASE w # 0
  <2>1. (w - 1) % UIntRange = w - 1
    BY <1>2, WindowsAssumption DEF Windows
  <2>2. (w - 1) % NWindows = w - 1
    BY <1>2, WindowsAssumption DEF Windows
  <2> QED
    BY <1>2, <2>1, <2>2 DEF Before
<1> QED
  BY <1>1, <1>2
-----------------------------------------------------------------------------
\* the next windows are windows, whether or not NWindows divides UIntRange
LEMMA TurnType ==
  ASSUME NEW w \in Windows
  PROVE  After(w) \in Windows /\ Before(w) \in Windows
<1>1. After(w) \in Windows
  BY WindowsAssumption DEF After, Windows
<1>2. (w - 1) % UIntRange \in Nat
  BY WindowsAssumption DEF Windows
<1>3. Before(w) \in Windows
  BY <1>2, WindowsAssumption DEF Before, Windows
<1> QED
  BY <1>1, <1>3

LEMMA AddWType ==
  ASSUME NEW a \in Word, NEW b \in Word
  PROVE  AddW(a, b) \in Word
  BY HalfRangeAssumption DEF AddW, Word, Modulus

LEMMA PointersType ==
  ASSUME NEW w \in Windows, NEW in \in Windows
  PROVE  Pointers(w, in) \in [Registers -> Cells]
<1> SUFFICES ASSUME NEW r \in Registers
             PROVE  (IF r[1] = "g" THEN <<"glob", 0, r[2]>>
                     ELSE IF r[1] = "o" THEN <<"inout", w, r[2]>>
                     ELSE IF r[1] = "l" THEN <<"local", w, r[2]>>
                     ELSE <<"inout", in, r[2]>>) \in Cells
  BY DEF Pointers
<1> QED
  BY DEF Registers, Cells

\* only %g0 points at sparc_glob_regs[0]
LEMMA OnlyG0PointsAtZero ==
  ASSUME NEW w \in Windows, NEW in \in Windows, NEW r \in Registers, r # G0
  PROVE  Pointers(w, in)[r] # <<"glob", 0, 0>>
<1>1. r = <<r[1], r[2]>>
  BY DEF Registers
<1> QED
  BY <1>1 DEF Pointers, G0
-----------------------------------------------------------------------------
(***************************************************************************)
(* The inductive invariant: %g0 is zero in the array itself, and pointers  *)
(* that follow the psr never lead another register there.                  *)
(***************************************************************************)
WindowInvariant ==
  /\ WindowsTypeOK
  /\ PointersFollowCWP
  /\ regs[<<"glob", 0, 0>>] = 0

LEMMA InvariantInit == ResetWindows => WindowInvariant
<1> SUFFICES ASSUME ResetWindows PROVE WindowInvariant
  OBVIOUS
<1>1. NWindows - 1 \in Windows /\ 0 \in Windows /\ After(NWindows - 1) = 0
  BY WindowsAssumption, AfterValue DEF Windows
<1>2. /\ windowRegisters = Pointers(cwp, After(cwp))
      /\ cwp \in Windows /\ After(cwp) \in Windows
  BY <1>1 DEF ResetWindows
<1>3. windowRegisters \in [Registers -> Cells]
  BY <1>1, <1>2, PointersType
<1>4. 0 \in Word /\ StackTop \in Word /\ ReturnFromMain \in Word
  BY WindowsAssumption, HalfRangeAssumption DEF Word, Modulus
<1>5. regs \in [Cells -> Word]
  BY <1>4 DEF ResetWindows
<1>6. <<"glob", 0, 0>> \in Cells
  BY WindowsAssumption DEF Cells, Offsets
<1>7. /\ Pointers(NWindows - 1, 0)[CallAddress] # <<"glob", 0, 0>>
      /\ Pointers(NWindows - 1, 0)[StackPointer] # <<"glob", 0, 0>>
  BY <1>1, OnlyG0PointsAtZero, WindowsAssumption
     DEF CallAddress, StackPointer, Registers, G0, Offsets
<1>8. regs[<<"glob", 0, 0>>] = 0
  BY <1>6, <1>7 DEF ResetWindows
<1> QED
  BY <1>2, <1>3, <1>5, <1>8 DEF WindowInvariant, WindowsTypeOK, PointersFollowCWP

\* a write through the pointers of a window keeps the array typed and %g0 zero
LEMMA WrittenType ==
  ASSUME regs \in [Cells -> Word], regs[<<"glob", 0, 0>>] = 0,
         NEW w \in Windows, NEW in \in Windows, NEW r \in Registers,
         NEW v \in Word, NEW executed \in BOOLEAN
  PROVE  LET new == Written(Pointers(w, in), r, v, executed)
         IN  new \in [Cells -> Word] /\ new[<<"glob", 0, 0>>] = 0
<1>1. Pointers(w, in)[r] \in Cells
  BY PointersType
<1>2. CASE executed /\ r # G0
  <2>1. Pointers(w, in)[r] # <<"glob", 0, 0>>
    BY <1>2, OnlyG0PointsAtZero
  <2> QED
    BY <1>1, <1>2, <2>1 DEF Written
<1>3. CASE ~(executed /\ r # G0)
  BY <1>3 DEF Written
<1> QED
  BY <1>2, <1>3

\* turning to window w rewrites the pointers for w
LEMMA TurnPointers ==
  ASSUME WindowInvariant, NEW w \in Windows, ChangeCWP(w)
  PROVE  cwp' = w /\ windowRegisters' = Pointers(w, After(w))
<1>1. windowRegisters = Pointers(cwp, After(cwp))
  BY DEF WindowInvariant, PointersFollowCWP
<1>2. \A r \in Registers : r[1] = "g" => windowRegisters[r] = Pointers(w, After(w))[r]
  BY <1>1 DEF Pointers
<1>3. windowRegisters' = [r \in Registers |-> Pointers(w, After(w))[r]]
  BY <1>2 DEF ChangeCWP
<1> QED
  BY <1>3 DEF ChangeCWP, Pointers

LEMMA OperandType ==
  ASSUME WindowInvariant, NEW r \in Registers, NEW o \in Operands
  PROVE  Read(r) \in Word /\ OperandValue(o) \in Word
<1>1. \A q \in Registers : Read(q) \in Word
  BY DEF WindowInvariant, WindowsTypeOK, Read
<1>2. CASE o \in Registers
  BY <1>1, <1>2 DEF OperandValue, Registers
<1>3. CASE o \in {"imm"} \X Word
  <2>1. o[1] = "imm" /\ o[2] \in Word
    BY <1>3
  <2> QED
    BY <1>1, <2>1 DEF OperandValue
<1> QED
  BY <1>1, <1>2, <1>3 DEF Operands

\* SAVE and RESTORE differ only in the window they turn to
LEMMA InvariantTurn ==
  ASSUME WindowInvariant, NEW w \in Windows, ChangeCWP(w),
         NEW rd \in Registers, NEW rs1 \in Registers, NEW src2 \in Operands,
         NEW executed \in BOOLEAN,
         regs' = Written(windowRegisters', rd, AddW(Read(rs1), OperandValue(src2)), executed)
  PROVE  WindowInvariant'
<1>1. cwp' = w /\ windowRegisters' = Pointers(w, After(w))
  BY TurnPointers
<1>2. After(w) \in Windows
  BY TurnType
<1>3. AddW(Read(rs1), OperandValue(src2)) \in Word
  BY OperandType, AddWType
<1>4. regs' \in [Cells -> Word] /\ regs'[<<"glob", 0, 0>>] = 0
  BY <1>1, <1>2, <1>3, WrittenType DEF WindowInvariant, WindowsTypeOK
<1>5. windowRegisters' \in [Registers -> Cells]
  BY <1>1, <1>2, PointersType
<1>6. PointersFollowCWP'
  BY <1>1 DEF PointersFollowCWP, After
<1> QED
  BY <1>1, <1>4, <1>5, <1>6 DEF WindowInvariant, WindowsTypeOK

LEMMA InvariantNext == WindowInvariant /\ [NextWindows]_windowVars => WindowInvariant'
<1> SUFFICES ASSUME WindowInvariant, [NextWindows]_windowVars
             PROVE  WindowInvariant'
  OBVIOUS
<1>1. cwp \in Windows /\ After(cwp) \in Windows /\ Before(cwp) \in Windows
  BY TurnType DEF WindowInvariant, WindowsTypeOK
<1>2. ASSUME NEW executed \in BOOLEAN, NEW rd \in Registers, NEW v \in Word,
             WriteRegister(rd, v, executed)
      PROVE  WindowInvariant'
  <2>1. regs' = Written(Pointers(cwp, After(cwp)), rd, v, executed)
    BY <1>2 DEF WriteRegister, WindowInvariant, PointersFollowCWP
  <2>2. regs' \in [Cells -> Word] /\ regs'[<<"glob", 0, 0>>] = 0
    BY <1>1, <2>1, WrittenType DEF WindowInvariant, WindowsTypeOK
  <2> QED
    BY <1>2, <2>2
       DEF WriteRegister, WindowInvariant, WindowsTypeOK, PointersFollowCWP, After
<1>3. ASSUME NEW executed \in BOOLEAN, NEW rd \in Registers,
             NEW rs1 \in Registers, NEW src2 \in Operands, Save(rd, rs1, src2, executed)
      PROVE  WindowInvariant'
  BY <1>1, <1>3, InvariantTurn DEF Save
<1>4. ASSUME NEW executed \in BOOLEAN, NEW rd \in Registers,
             NEW rs1 \in Registers, NEW src2 \in Operands, Restore(rd, rs1, src2, executed)
      PROVE  WindowInvariant'
  BY <1>1, <1>4, InvariantTurn DEF Restore
<1>5. CASE UNCHANGED windowVars
  BY <1>5 DEF windowVars, WindowInvariant, WindowsTypeOK, PointersFollowCWP, After
<1> QED
  BY <1>2, <1>3, <1>4, <1>5 DEF NextWindows

THEOREM WindowsInvariant == SpecWindows => []WindowInvariant
BY InvariantInit, InvariantNext, PTL DEF SpecWindows
-----------------------------------------------------------------------------
(***************************************************************************)
(* The register file, its pointers and the window pointer keep their       *)
(* types, for every number of windows, bank size and word width.           *)
(***************************************************************************)
THEOREM WindowsTypeCorrect == SpecWindows => []WindowsTypeOK
<1>1. WindowInvariant => WindowsTypeOK
  BY DEF WindowInvariant
<1> QED
  BY <1>1, WindowsInvariant, PTL

(***************************************************************************)
(* The 32 pointers are always those of the window the psr names, for every *)
(* number of windows.                                                      *)
(***************************************************************************)
THEOREM PointersAlwaysFollowCWP == SpecWindows => []PointersFollowCWP
<1>1. WindowInvariant => PointersFollowCWP
  BY DEF WindowInvariant
<1> QED
  BY <1>1, WindowsInvariant, PTL

(***************************************************************************)
(* %g0 always reads as zero.                                               *)
(***************************************************************************)
THEOREM G0AlwaysZero == SpecWindows => []ZeroRegister
<1>1. WindowInvariant => ZeroRegister
  BY WindowsAssumption
     DEF WindowInvariant, PointersFollowCWP, ZeroRegister, Read, Pointers, G0, Registers, Offsets
<1> QED
  BY <1>1, WindowsInvariant, PTL

(***************************************************************************)
(* RESTORE undoes the turn of a SAVE in every window, provided the number  *)
(* of windows divides 2^32, the range of cwp - 1: the assumption the code  *)
(* makes without stating it and NWINDOWS = 16 satisfies.                   *)
(***************************************************************************)
THEOREM SaveThenRestore ==
  ASSUME UIntRange % NWindows = 0
  PROVE  SpecWindows => []RestoreUndoesSave
<1>1. WindowInvariant => RestoreUndoesSave
  <2> SUFFICES ASSUME cwp \in Windows PROVE RestoreUndoesSave
    BY DEF WindowInvariant, WindowsTypeOK
  <2>1. Before(cwp) = IF cwp = 0 THEN NWindows - 1 ELSE cwp - 1
    BY BeforeValue
  <2>2. Before(cwp) \in Windows
    BY TurnType
  <2>3. After(Before(cwp)) = cwp
    BY <2>1, <2>2, AfterValue, WindowsAssumption DEF Windows
  <2> QED
    BY <2>2, <2>3 DEF RestoreUndoesSave
<1> QED
  BY <1>1, WindowsInvariant, PTL
=============================================================================
