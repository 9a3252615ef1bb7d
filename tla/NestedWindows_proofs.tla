------------------------ MODULE NestedWindows_proofs ------------------------
(***************************************************************************)
(* The register windows implement the stack of frames, for every number of *)
(* windows, every size of a bank and every word width, as long as programs *)
(* nest no deeper than MaxDepth.                                           *)
(***************************************************************************)
EXTENDS NestedWindows, RegisterWindows_proofs, SequenceTheorems

(***************************************************************************)
(* The inductive invariant: the register file is sound, and the current    *)
(* window lies as far below main's as calls are open.                      *)
(***************************************************************************)
NestedInvariant == WindowInvariant /\ WindowFollowsDepth

Kept == {"l", "i"} \X Offsets

\* the frames' windows are windows, main's the highest, and 0 is nobody's
LEMMA FrameWindow ==
  ASSUME NEW k \in 0 .. MaxDepth
  PROVE  /\ WindowOf(k) \in Windows \ {0}
         /\ After(WindowOf(k)) = IF k = 0 THEN 0 ELSE WindowOf(k - 1)
         /\ k < MaxDepth => Before(WindowOf(k)) = WindowOf(k + 1)
<1>1. WindowOf(k) \in Windows \ {0}
  BY WindowsAssumption DEF WindowOf, Windows, MaxDepth
<1>2. After(WindowOf(k)) = IF k = 0 THEN 0 ELSE WindowOf(k - 1)
  BY <1>1, AfterValue, WindowsAssumption DEF WindowOf, MaxDepth
<1>3. ASSUME k < MaxDepth PROVE Before(WindowOf(k)) = WindowOf(k + 1)
  <2>1. WindowOf(k) - 1 \in 1 .. NWindows - 1
    BY <1>3, WindowsAssumption DEF WindowOf, MaxDepth
  <2>2. (WindowOf(k) - 1) % UIntRange = WindowOf(k) - 1
    BY <2>1, WindowsAssumption
  <2>3. (WindowOf(k) - 1) % NWindows = WindowOf(k) - 1
    BY <2>1, WindowsAssumption
  <2> QED
    BY <2>2, <2>3, WindowsAssumption DEF Before, WindowOf, MaxDepth
<1> QED
  BY <1>1, <1>2, <1>3

LEMMA NestedInit == Init => NestedInvariant
<1> SUFFICES ASSUME Init PROVE NestedInvariant
  OBVIOUS
<1>1. WindowInvariant
  BY InvariantInit DEF Init
<1>2. WindowFollowsDepth
  BY WindowsAssumption DEF Init, ResetWindows, WindowFollowsDepth, WindowOf, MaxDepth
<1> QED
  BY <1>1, <1>2 DEF NestedInvariant

LEMMA NestedNext == NestedInvariant /\ [Next]_nestedVars => NestedInvariant'
<1> SUFFICES ASSUME NestedInvariant, [Next]_nestedVars PROVE NestedInvariant'
  OBVIOUS
<1>1. depth \in 0 .. MaxDepth /\ cwp = WindowOf(depth)
  BY DEF NestedInvariant, WindowFollowsDepth
<1>2. [NextWindows]_windowVars
  BY DEF Next, NestedWrite, NestedSave, NestedRestore, NextWindows, nestedVars, windowVars
<1>3. WindowInvariant'
  BY <1>2, InvariantNext DEF NestedInvariant
<1>4. WindowFollowsDepth'
  <2>1. CASE NestedWrite
    BY <1>1, <2>1 DEF NestedWrite, WriteRegister, WindowFollowsDepth, WindowOf
  <2>2. CASE NestedSave
    <3>1. cwp' = Before(cwp)
      BY <2>2 DEF NestedSave, Save, ChangeCWP
    <3>2. depth' \in 0 .. MaxDepth
      BY <1>1, <2>2, WindowsAssumption DEF NestedSave, MaxDepth
    <3> QED
      BY <1>1, <2>2, <3>1, <3>2, FrameWindow DEF NestedSave, WindowFollowsDepth, WindowOf
  <2>3. CASE NestedRestore
    <3>1. cwp' = After(cwp)
      BY <2>3 DEF NestedRestore, Restore, ChangeCWP
    <3>2. depth' \in 0 .. MaxDepth
      BY <1>1, <2>3, WindowsAssumption DEF NestedRestore, MaxDepth
    <3> QED
      BY <1>1, <2>3, <3>1, <3>2, FrameWindow DEF NestedRestore, WindowFollowsDepth, WindowOf
  <2>4. CASE UNCHANGED nestedVars
    BY <1>1, <2>4 DEF nestedVars, WindowFollowsDepth, WindowOf
  <2> QED
    BY <2>1, <2>2, <2>3, <2>4 DEF Next
<1> QED
  BY <1>3, <1>4 DEF NestedInvariant

THEOREM NestedInvariantHolds == Spec => []NestedInvariant
BY NestedInit, NestedNext, PTL DEF Spec

(***************************************************************************)
(* The current window is the one the nesting says: no turn of a nested     *)
(* program wraps, whether or not NWINDOWS divides the range of the window  *)
(* arithmetic.                                                             *)
(***************************************************************************)
THEOREM WindowAlwaysFollowsDepth == Spec => []WindowFollowsDepth
<1>1. NestedInvariant => WindowFollowsDepth
  BY DEF NestedInvariant
<1> QED
  BY <1>1, NestedInvariantHolds, PTL
-----------------------------------------------------------------------------
\* two registers an instruction can name are two cells
LEMMA PointersInjective ==
  ASSUME NEW w \in Windows, NEW in \in Windows, w # in,
         NEW r \in Registers, NEW q \in Registers, r # q
  PROVE  Pointers(w, in)[r] # Pointers(w, in)[q]
<1>1. r = <<r[1], r[2]>> /\ q = <<q[1], q[2]>>
  BY DEF Registers
<1>2. r[1] \in {"g", "o", "l", "i"} /\ q[1] \in {"g", "o", "l", "i"}
  BY DEF Registers
<1> QED
  BY <1>1, <1>2 DEF Pointers

LEMMA FrameCellsInjective ==
  ASSUME NEW k \in 0 .. MaxDepth, NEW r \in Registers, NEW q \in Registers, r # q
  PROVE  CellOfFrame(k, r) # CellOfFrame(k, q)
<1>1. /\ WindowOf(k) \in Windows /\ After(WindowOf(k)) \in Windows
      /\ WindowOf(k) # After(WindowOf(k))
  BY FrameWindow, TurnType, WindowsAssumption DEF WindowOf, MaxDepth, Windows
<1> QED
  BY <1>1, PointersInjective DEF CellOfFrame

(***************************************************************************)
(* What a suspended frame keeps is out of reach of the frames below it:    *)
(* main's ins are the outs of window 0, which MaxDepth leaves free.        *)
(***************************************************************************)
LEMMA FramesApart ==
  ASSUME NEW d \in 1 .. MaxDepth, NEW k \in Nat, k < d,
         NEW q \in Kept, NEW r \in Registers
  PROVE  CellOfFrame(k, q) # CellOfFrame(d, r)
<1>1. d \in 0 .. MaxDepth /\ k \in 0 .. MaxDepth
  BY WindowsAssumption DEF MaxDepth
<1>2. /\ WindowOf(k) # WindowOf(d)
      /\ After(WindowOf(k)) # WindowOf(d)
      /\ After(WindowOf(k)) # After(WindowOf(d))
  BY <1>1, FrameWindow, WindowsAssumption DEF WindowOf, MaxDepth, Windows
<1>3. q[1] \in {"l", "i"} /\ q \in Registers
  BY DEF Kept, Registers
<1>4. CellOfFrame(k, q) = IF q[1] = "l" THEN <<"local", WindowOf(k), q[2]>>
                          ELSE <<"inout", After(WindowOf(k)), q[2]>>
  BY <1>3 DEF CellOfFrame, Pointers
<1>5. CellOfFrame(d, r) \in {<<"glob", 0, r[2]>>, <<"inout", WindowOf(d), r[2]>>,
                             <<"local", WindowOf(d), r[2]>>,
                             <<"inout", After(WindowOf(d)), r[2]>>}
  BY DEF CellOfFrame, Pointers
<1> QED
  BY <1>2, <1>3, <1>4, <1>5

LEMMA FrameCellType ==
  ASSUME NEW k \in 0 .. MaxDepth, NEW r \in Registers
  PROVE  CellOfFrame(k, r) \in Cells
<1>1. WindowOf(k) \in Windows /\ After(WindowOf(k)) \in Windows
  BY FrameWindow, TurnType
<1> QED
  BY <1>1, PointersType DEF CellOfFrame
-----------------------------------------------------------------------------
(***************************************************************************)
(* The refinement.  In a state of the invariant the visible registers are  *)
(* the cells of the innermost frame, and the mapped state has the types of *)
(* the stack.                                                              *)
(***************************************************************************)
MappedCells ==
  /\ \A r \in Registers : windowRegisters[r] = CellOfFrame(depth, r)
  /\ \A r \in Registers : VisibleWords[r] = regs[CellOfFrame(depth, r)]
  /\ VisibleWords \in [Registers -> Word]
  /\ \A k \in 1 .. depth : \A q \in Kept :
       SuspendedFrames[k][q] = regs[CellOfFrame(k - 1, q)]
  /\ SuspendedFrames \in Seq([Kept -> Word]) /\ Len(SuspendedFrames) = depth

LEMMA MappedState == NestedInvariant => MappedCells
<1> SUFFICES ASSUME NestedInvariant PROVE MappedCells
  OBVIOUS
<1>1. depth \in 0 .. MaxDepth /\ depth \in Nat /\ cwp = WindowOf(depth)
  BY DEF NestedInvariant, WindowFollowsDepth
<1>2. windowRegisters = Pointers(cwp, After(cwp)) /\ regs \in [Cells -> Word]
  BY DEF NestedInvariant, WindowInvariant, PointersFollowCWP, WindowsTypeOK
<1>3. \A r \in Registers : windowRegisters[r] = CellOfFrame(depth, r)
  BY <1>1, <1>2 DEF CellOfFrame
<1>4. \A r \in Registers : VisibleWords[r] = regs[CellOfFrame(depth, r)]
  BY <1>3 DEF VisibleWords, Read
<1>5. VisibleWords \in [Registers -> Word]
  BY <1>1, <1>2, <1>3, FrameCellType DEF VisibleWords, Read
<1>6. \A k \in 1 .. depth : \A q \in Kept :
        SuspendedFrames[k][q] = regs[CellOfFrame(k - 1, q)]
  BY DEF SuspendedFrames, Kept
<1>7. SuspendedFrames \in [1 .. depth -> [Kept -> Word]]
  <2>1. \A k \in 1 .. depth, q \in Kept : CellOfFrame(k - 1, q) \in Cells
    <3> SUFFICES ASSUME NEW k \in 1 .. depth, NEW q \in Kept
                 PROVE  CellOfFrame(k - 1, q) \in Cells
      OBVIOUS
    <3>1. k - 1 \in 0 .. MaxDepth /\ q \in Registers
      BY <1>1, WindowsAssumption DEF Kept, Registers, MaxDepth
    <3> QED
      BY <3>1, FrameCellType
  <2> QED
    BY <1>2, <2>1 DEF SuspendedFrames, Kept
<1>8. SuspendedFrames \in Seq([Kept -> Word]) /\ Len(SuspendedFrames) = depth
  BY <1>1, <1>7
<1> QED
  BY <1>3, <1>4, <1>5, <1>6, <1>8 DEF MappedCells

LEMMA MappedStateAfter == NestedInvariant' => MappedCells'
BY MappedState, PTL

\* two stacks of the same height are equal when their frames are
LEMMA SameFrames ==
  ASSUME NEW s \in Seq([Kept -> Word]), NEW t \in Seq([Kept -> Word]), Len(s) = Len(t),
         \A k \in 1 .. Len(s) : \A q \in Kept : s[k][q] = t[k][q]
  PROVE  s = t
<1>1. ASSUME NEW k \in 1 .. Len(s) PROVE s[k] = t[k]
  <2>1. s[k] \in [Kept -> Word] /\ t[k] \in [Kept -> Word]
    OBVIOUS
  <2>2. \A q \in Kept : s[k][q] = t[k][q]
    BY <1>1
  <2> QED
    BY <2>1, <2>2
<1> QED
  BY <1>1, SeqEqual

(***************************************************************************)
(* Every instruction writes one visible register of the frame it leads to, *)
(* and no cell of a frame suspended there.                                 *)
(***************************************************************************)
LEMMA WrittenFrame ==
  ASSUME NestedInvariant, NestedInvariant', NEW rd \in Registers, NEW v \in Word,
         NEW executed \in BOOLEAN,
         regs' = Written(windowRegisters', rd, v, executed)
  PROVE  /\ \A r \in Registers :
              VisibleWords'[r] = IF executed /\ r = rd /\ r # G0 THEN v
                                 ELSE regs[CellOfFrame(depth', r)]
         /\ \A k \in 1 .. depth' : \A q \in Kept :
              SuspendedFrames'[k][q] = regs[CellOfFrame(k - 1, q)]
<1>1. depth' \in 0 .. MaxDepth /\ depth' \in Nat
  BY DEF NestedInvariant, WindowFollowsDepth, MaxDepth
<1>2. \A r \in Registers : windowRegisters'[r] = CellOfFrame(depth', r)
  BY MappedStateAfter DEF MappedCells, CellOfFrame, WindowOf, Pointers, After
<1>3. \A r \in Registers : VisibleWords'[r] = regs'[CellOfFrame(depth', r)]
  BY MappedStateAfter DEF MappedCells, CellOfFrame, WindowOf, Pointers, After
<1>4. \A k \in 1 .. depth' : \A q \in Kept :
        SuspendedFrames'[k][q] = regs'[CellOfFrame(k - 1, q)]
  BY MappedStateAfter DEF MappedCells, CellOfFrame, WindowOf, Pointers, After
<1>5. regs \in [Cells -> Word] /\ CellOfFrame(depth', rd) \in Cells
  BY <1>1, FrameCellType DEF NestedInvariant, WindowInvariant, WindowsTypeOK
<1>6. regs' = IF executed /\ rd # G0 THEN [regs EXCEPT ![CellOfFrame(depth', rd)] = v]
              ELSE regs
  BY <1>2 DEF Written
<1>7. ASSUME NEW r \in Registers
      PROVE  VisibleWords'[r] = IF executed /\ r = rd /\ r # G0 THEN v
                                ELSE regs[CellOfFrame(depth', r)]
  <2>1. CellOfFrame(depth', r) \in Cells
    BY <1>1, FrameCellType
  <2>2. r # rd => CellOfFrame(depth', r) # CellOfFrame(depth', rd)
    BY <1>1, FrameCellsInjective
  <2> QED
    BY <1>3, <1>5, <1>6, <2>1, <2>2
<1>8. ASSUME NEW k \in Nat, k \in 1 .. depth', NEW q \in Kept
      PROVE  SuspendedFrames'[k][q] = regs[CellOfFrame(k - 1, q)]
  <2>1. /\ depth' \in 1 .. MaxDepth /\ k - 1 \in Nat
        /\ k - 1 < depth' /\ k - 1 \in 0 .. MaxDepth
    <3>1. MaxDepth \in Int
      BY WindowsAssumption DEF MaxDepth
    <3> QED
      BY <1>1, <1>8, <3>1
  <2>2. q \in Registers
    BY DEF Kept, Registers
  <2>3. CellOfFrame(k - 1, q) # CellOfFrame(depth', rd)
    BY <2>1, FramesApart
  <2>4. CellOfFrame(k - 1, q) \in Cells
    BY <2>1, <2>2, FrameCellType
  <2> QED
    BY <1>4, <1>5, <1>6, <1>8, <2>3, <2>4
<1> QED
  BY <1>1, <1>7, <1>8
-----------------------------------------------------------------------------
\* a write of the program is a write of the stack
LEMMA WriteIsWrite ==
  ASSUME NestedInvariant, NestedInvariant', UNCHANGED depth,
         NEW executed \in BOOLEAN, NEW rd \in Registers, NEW v \in Word,
         WriteRegister(rd, v, executed)
  PROVE  Stack!Write(rd, v, executed)
<1>1. regs' = Written(windowRegisters', rd, v, executed)
  BY DEF WriteRegister
<1>2. /\ \A r \in Registers :
            VisibleWords'[r] = IF executed /\ r = rd /\ r # G0 THEN v
                               ELSE regs[CellOfFrame(depth', r)]
      /\ \A k \in 1 .. depth' : \A q \in Kept :
            SuspendedFrames'[k][q] = regs[CellOfFrame(k - 1, q)]
  BY <1>1, WrittenFrame
<1>3. MappedCells /\ MappedCells'
  BY MappedState, MappedStateAfter
<1>4. SuspendedFrames' = SuspendedFrames
  <2>1. /\ SuspendedFrames \in Seq([Kept -> Word]) /\ Len(SuspendedFrames) = depth
        /\ SuspendedFrames' \in Seq([Kept -> Word]) /\ Len(SuspendedFrames') = depth
    BY <1>3 DEF MappedCells, Kept
  <2>2. \A k \in 1 .. depth : \A q \in Kept : SuspendedFrames'[k][q] = SuspendedFrames[k][q]
    BY <1>2, <1>3 DEF MappedCells
  <2> QED
    BY <2>1, <2>2, SameFrames
<1>5. VisibleWords' \in [Registers -> Word]
  BY <1>3 DEF MappedCells, Registers
<1>6. \A r \in Registers :
        VisibleWords'[r] \in IF executed /\ r = rd /\ r # G0 THEN {v} ELSE {VisibleWords[r]}
  BY <1>2, <1>3 DEF MappedCells
<1> QED
  BY <1>4, <1>5, <1>6
     DEF Stack!Write, Stack!Becomes, Stack!Registers, Stack!Offsets, Registers, Offsets, G0, Stack!Word, Word, Stack!Modulus, Modulus

\* the sum a SAVE or RESTORE computes is the one the stack computes
LEMMA MappedSum ==
  ASSUME NestedInvariant, NEW rs1 \in Registers, NEW src2 \in Operands
  PROVE  /\ AddW(Read(rs1), OperandValue(src2)) \in Word
         /\ AddW(Read(rs1), OperandValue(src2)) =
              Stack!AddW(VisibleWords[rs1], Stack!Operand(src2))
         /\ src2 \in Stack!Operands
<1>1. AddW(Read(rs1), OperandValue(src2)) \in Word
  BY OperandType, AddWType DEF NestedInvariant
<1>2. src2 \in Stack!Operands
  BY DEF Stack!Operands, Stack!Registers, Stack!Offsets, Stack!Word, Stack!Modulus,
         Operands, Registers, Offsets, Word, Modulus
<1>3. VisibleWords[rs1] = Read(rs1)
  BY DEF VisibleWords
<1>4. OperandValue(src2) = Stack!Operand(src2)
  <2>1. src2[1] # "imm" => src2 \in Registers
    BY DEF Operands
  <2> QED
    BY <2>1 DEF OperandValue, Stack!Operand, VisibleWords
<1> QED
  BY <1>1, <1>2, <1>3, <1>4 DEF Stack!AddW, Stack!Modulus, AddW, Modulus

\* a SAVE pushes a frame
LEMMA SaveIsPush ==
  ASSUME NestedInvariant, NestedInvariant', depth < MaxDepth, depth' = depth + 1,
         NEW executed \in BOOLEAN, NEW rd \in Registers,
         NEW rs1 \in Registers, NEW src2 \in Operands,
         Save(rd, rs1, src2, executed)
  PROVE  Stack!Push(rd, rs1, src2, executed)
<1> DEFINE v == AddW(Read(rs1), OperandValue(src2))
<1>1. v \in Word /\ v = Stack!AddW(VisibleWords[rs1], Stack!Operand(src2))
  BY MappedSum
<1>2. /\ \A r \in Registers :
            VisibleWords'[r] = IF executed /\ r = rd /\ r # G0 THEN v
                               ELSE regs[CellOfFrame(depth + 1, r)]
      /\ \A k \in 1 .. depth + 1 : \A q \in Kept :
            SuspendedFrames'[k][q] = regs[CellOfFrame(k - 1, q)]
  <2>1. regs' = Written(windowRegisters', rd, v, executed)
    BY DEF Save
  <2> HIDE DEF v
  <2> QED
    BY <1>1, <2>1, WrittenFrame
<1>3. MappedCells /\ MappedCells'
  BY MappedState, MappedStateAfter
<1>4. depth \in 0 .. MaxDepth /\ depth + 1 \in 0 .. MaxDepth /\ depth \in Nat
  BY DEF NestedInvariant, WindowFollowsDepth
<1>5. SuspendedFrames' = Append(SuspendedFrames, [q \in Kept |-> VisibleWords[q]])
  <2> DEFINE top == [q \in Kept |-> VisibleWords[q]]
  <2>1. top \in [Kept -> Word]
    BY <1>3 DEF MappedCells, Kept, Registers
  <2>2. SuspendedFrames \in Seq([Kept -> Word]) /\ Len(SuspendedFrames) = depth
    BY <1>3 DEF MappedCells
  <2>3. SuspendedFrames' \in Seq([Kept -> Word]) /\ Len(SuspendedFrames') = depth + 1
    BY <1>3 DEF MappedCells, Kept
  <2>4. \A q \in Kept : top[q] = regs[CellOfFrame(depth, q)]
    BY <1>3 DEF MappedCells, Kept, Registers
  <2>5. \A k \in 1 .. depth : \A q \in Kept :
          SuspendedFrames[k][q] = regs[CellOfFrame(k - 1, q)]
    BY <1>3 DEF MappedCells
  <2> HIDE DEF top
  <2>6. /\ Append(SuspendedFrames, top) \in Seq([Kept -> Word])
        /\ Len(Append(SuspendedFrames, top)) = depth + 1
        /\ \A k \in 1 .. depth : Append(SuspendedFrames, top)[k] = SuspendedFrames[k]
        /\ Append(SuspendedFrames, top)[depth + 1] = top
    BY <2>1, <2>2, AppendProperties
  <2>7. ASSUME NEW k \in 1 .. depth + 1, NEW q \in Kept
        PROVE  SuspendedFrames'[k][q] = Append(SuspendedFrames, top)[k][q]
    <3>1. CASE k = depth + 1
      BY <1>2, <1>4, <2>4, <2>6, <3>1
    <3>2. CASE k \in 1 .. depth
      BY <1>2, <2>5, <2>6, <3>2
    <3>3. depth \in Nat
      BY <1>4
    <3>4. k = depth + 1 \/ k \in 1 .. depth
      BY <3>3
    <3> QED
      BY <3>1, <3>2, <3>4
  <2>8. SuspendedFrames' = Append(SuspendedFrames, top)
    BY <2>3, <2>6, <2>7, SameFrames
  <2> QED
    BY <2>8 DEF top
<1>6. VisibleWords' \in [Registers -> Word]
  BY <1>3 DEF MappedCells, Registers
<1>7. ASSUME NEW r \in Registers
      PROVE  VisibleWords'[r] \in
               IF executed /\ r = rd /\ r # G0 THEN {v}
               ELSE CASE r[1] = "g" -> {VisibleWords[r]}
                      [] r[1] = "i" -> {VisibleWords[<<"o", r[2]>>]}
                      [] OTHER      -> Word
  <2>1. CASE r[1] = "g"
    <3>1. CellOfFrame(depth + 1, r) = CellOfFrame(depth, r)
      BY <2>1 DEF CellOfFrame, Pointers
    <3> QED
      BY <1>2, <1>3, <2>1, <3>1 DEF MappedCells
  <2>2. CASE r[1] = "i"
    <3>1. <<"o", r[2]>> \in Registers
      BY DEF Registers
    <3>2. After(WindowOf(depth + 1)) = WindowOf(depth)
      BY <1>4, FrameWindow
    <3>3. CellOfFrame(depth + 1, r) = CellOfFrame(depth, <<"o", r[2]>>)
      BY <2>2, <3>1, <3>2 DEF CellOfFrame, Pointers
    <3> QED
      BY <1>2, <1>3, <2>2, <3>1, <3>3 DEF MappedCells
  <2>3. CASE r[1] \notin {"g", "i"}
    BY <1>1, <1>6, <2>3, <1>2
  <2> QED
    BY <2>1, <2>2, <2>3
<1> QED
  BY <1>1, <1>5, <1>6, <1>7
     DEF Stack!Push, Stack!Becomes, Stack!Registers, Stack!Offsets, Stack!Kept, Stack!Word,
         Stack!Modulus, Registers, Offsets, Kept, G0, Word, Modulus

\* a RESTORE pops a frame
LEMMA RestoreIsPop ==
  ASSUME NestedInvariant, NestedInvariant', depth > 0, depth' = depth - 1,
         NEW executed \in BOOLEAN, NEW rd \in Registers,
         NEW rs1 \in Registers, NEW src2 \in Operands,
         Restore(rd, rs1, src2, executed)
  PROVE  Stack!Pop(rd, rs1, src2, executed)
<1> DEFINE v == AddW(Read(rs1), OperandValue(src2))
<1>1. v \in Word /\ v = Stack!AddW(VisibleWords[rs1], Stack!Operand(src2))
  BY MappedSum
<1>2. /\ \A r \in Registers :
            VisibleWords'[r] = IF executed /\ r = rd /\ r # G0 THEN v
                               ELSE regs[CellOfFrame(depth - 1, r)]
      /\ \A k \in 1 .. depth - 1 : \A q \in Kept :
            SuspendedFrames'[k][q] = regs[CellOfFrame(k - 1, q)]
  <2>1. regs' = Written(windowRegisters', rd, v, executed)
    BY DEF Restore
  <2> HIDE DEF v
  <2> QED
    BY <1>1, <2>1, WrittenFrame
<1>3. MappedCells /\ MappedCells'
  BY MappedState, MappedStateAfter
<1>4. depth \in 0 .. MaxDepth /\ depth - 1 \in 0 .. MaxDepth /\ depth \in Nat
  BY DEF NestedInvariant, WindowFollowsDepth
<1>5. SuspendedFrames # <<>> /\ Len(SuspendedFrames) = depth
  BY <1>3 DEF MappedCells
<1>6. SuspendedFrames' = SubSeq(SuspendedFrames, 1, depth - 1)
  <2> DEFINE rest == SubSeq(SuspendedFrames, 1, depth - 1)
  <2>1. SuspendedFrames \in Seq([Kept -> Word])
    BY <1>3 DEF MappedCells
  <2>2. SuspendedFrames' \in Seq([Kept -> Word]) /\ Len(SuspendedFrames') = depth - 1
    BY <1>3 DEF MappedCells, Kept
  <2>3. /\ rest \in Seq([Kept -> Word]) /\ Len(rest) = depth - 1
        /\ \A k \in 1 .. depth - 1 : rest[k] = SuspendedFrames[k]
    <3>1. depth - 1 \in Nat
      BY <1>4
    <3>2. \A k \in 1 .. depth - 1 : SuspendedFrames[k] \in [Kept -> Word]
      BY <1>5, <2>1, <3>1, ElementOfSeq
    <3> QED
      BY <3>1, <3>2, SubSeqProperties
  <2>4. \A k \in 1 .. depth - 1 : \A q \in Kept :
          SuspendedFrames[k][q] = regs[CellOfFrame(k - 1, q)]
    <3>1. depth \in Nat
      BY <1>4
    <3>2. \A k \in 1 .. depth - 1 : k \in 1 .. depth
      BY <3>1
    <3> QED
      BY <1>3, <3>2 DEF MappedCells
  <2> HIDE DEF rest
  <2>5. \A k \in 1 .. depth - 1 : \A q \in Kept : SuspendedFrames'[k][q] = rest[k][q]
    BY <1>2, <2>3, <2>4
  <2>6. SuspendedFrames' = rest
    BY <2>2, <2>3, <2>5, SameFrames
  <2> QED
    BY <2>6 DEF rest
<1>7. VisibleWords' \in [Registers -> Word]
  BY <1>3 DEF MappedCells, Registers
<1>8. ASSUME NEW r \in Registers
      PROVE  VisibleWords'[r] \in
               IF executed /\ r = rd /\ r # G0 THEN {v}
               ELSE CASE r[1] = "g" -> {VisibleWords[r]}
                      [] r[1] = "o" -> {VisibleWords[<<"i", r[2]>>]}
                      [] OTHER      -> {SuspendedFrames[Len(SuspendedFrames)][r]}
  <2>1. CASE r[1] = "g"
    <3>1. CellOfFrame(depth - 1, r) = CellOfFrame(depth, r)
      BY <2>1 DEF CellOfFrame, Pointers
    <3> QED
      BY <1>2, <1>3, <2>1, <3>1 DEF MappedCells
  <2>2. CASE r[1] = "o"
    <3>1. <<"i", r[2]>> \in Registers
      BY DEF Registers
    <3>2. After(WindowOf(depth)) = WindowOf(depth - 1)
      BY <1>4, FrameWindow
    <3>3. CellOfFrame(depth - 1, r) = CellOfFrame(depth, <<"i", r[2]>>)
      BY <2>2, <3>1, <3>2 DEF CellOfFrame, Pointers
    <3> QED
      BY <1>2, <1>3, <2>2, <3>1, <3>3 DEF MappedCells
  <2>3. CASE r[1] \notin {"g", "o"}
    <3>1. r \in Kept
      BY <2>3 DEF Registers, Kept
    <3>2. SuspendedFrames[depth][r] = regs[CellOfFrame(depth - 1, r)]
      BY <1>3, <1>4, <3>1 DEF MappedCells
    <3> QED
      BY <1>2, <1>5, <2>3, <3>2
  <2> QED
    BY <2>1, <2>2, <2>3
<1> QED
  BY <1>1, <1>5, <1>6, <1>7, <1>8
     DEF Stack!Pop, Stack!Becomes, Stack!Registers, Stack!Offsets, Stack!Word,
         Stack!Modulus, Registers, Offsets, G0, Word, Modulus
-----------------------------------------------------------------------------
LEMMA StackInit == Init => Stack!Init
<1> SUFFICES ASSUME Init PROVE Stack!Init
  OBVIOUS
<1>1. MappedCells
  BY NestedInit, MappedState
<1>2. SuspendedFrames = <<>>
  BY <1>1 DEF MappedCells, Init
<1> QED
  BY <1>1, <1>2 DEF MappedCells, Stack!Init, Stack!Registers, Stack!Offsets, Stack!Word,
                    Stack!Modulus, Registers, Offsets, Word, Modulus

LEMMA StackNext ==
  NestedInvariant /\ NestedInvariant' /\ [Next]_nestedVars => [Stack!Next]_(Stack!stackVars)
<1> SUFFICES ASSUME NestedInvariant, NestedInvariant', [Next]_nestedVars
             PROVE  [Stack!Next]_(Stack!stackVars)
  OBVIOUS
<1>1. Stack!Registers = Registers /\ Stack!Word = Word
  BY DEF Stack!Registers, Stack!Offsets, Stack!Word, Stack!Modulus,
         Registers, Offsets, Word, Modulus
<1>2. CASE NestedWrite
  <2>1. PICK executed \in BOOLEAN, rd \in Registers, v \in Word : WriteRegister(rd, v, executed)
    BY <1>2 DEF NestedWrite
  <2>2. Stack!Write(rd, v, executed)
    BY <1>2, <2>1, WriteIsWrite DEF NestedWrite
  <2> QED
    BY <1>1, <2>2 DEF Stack!Next
<1>3. CASE NestedSave
  <2>1. PICK executed \in BOOLEAN, rd \in Registers, rs1 \in Registers, src2 \in Operands :
          Save(rd, rs1, src2, executed)
    BY <1>3 DEF NestedSave
  <2>2. Stack!Push(rd, rs1, src2, executed)
    BY <1>3, <2>1, SaveIsPush DEF NestedSave
  <2>3. src2 \in Stack!Operands
    BY MappedSum
  <2> QED
    BY <1>1, <2>2, <2>3 DEF Stack!Next
<1>4. CASE NestedRestore
  <2>1. PICK executed \in BOOLEAN, rd \in Registers, rs1 \in Registers, src2 \in Operands :
          Restore(rd, rs1, src2, executed)
    BY <1>4 DEF NestedRestore
  <2>2. Stack!Pop(rd, rs1, src2, executed)
    BY <1>4, <2>1, RestoreIsPop DEF NestedRestore
  <2>3. src2 \in Stack!Operands
    BY MappedSum
  <2> QED
    BY <1>1, <2>2, <2>3 DEF Stack!Next
<1>5. CASE UNCHANGED nestedVars
  <2>1. VisibleWords' = VisibleWords
    BY <1>5 DEF nestedVars, VisibleWords, Read
  <2>2. SuspendedFrames' = SuspendedFrames
    BY <1>5 DEF nestedVars, SuspendedFrames, CellOfFrame, WindowOf, Pointers, After
  <2> QED
    BY <2>1, <2>2 DEF Stack!stackVars
<1> QED
  BY <1>2, <1>3, <1>4, <1>5 DEF Next

(***************************************************************************)
(* The windows implement the stack of frames for every number of windows:  *)
(* whatever the callees do, a RESTORE finds the locals and ins its SAVE    *)
(* left, and parameters and results pass through the shared bank.          *)
(***************************************************************************)
THEOREM WindowsImplementStack == Spec => ImplementsStack
BY StackInit, StackNext, NestedInvariantHolds, PTL DEF Spec, ImplementsStack, Stack!Spec
=============================================================================
