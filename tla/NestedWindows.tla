---------------------------- MODULE NestedWindows ----------------------------
(***************************************************************************)
(* The register windows under a program that nests its procedures: every   *)
(* RESTORE closes an earlier SAVE and no more than NWindows - 2 frames are *)
(* open below main's.  The code has no window overflow trap (the WIM is    *)
(* never read), so deeper nesting overwrites frames.  depth counts the     *)
(* open frames; the program knows it, the simulator does not keep it.      *)
(***************************************************************************)
EXTENDS RegisterWindows, Sequences

VARIABLE depth

nestedVars == <<cwp, windowRegisters, regs, depth>>

MaxDepth == NWindows - 2

Init == ResetWindows /\ depth = 0

NestedWrite ==
  /\ \E executed \in BOOLEAN, rd \in Registers, v \in Word : WriteRegister(rd, v, executed)
  /\ UNCHANGED depth

NestedSave ==
  /\ depth < MaxDepth
  /\ depth' = depth + 1
  /\ \E executed \in BOOLEAN, rd, rs1 \in Registers, src2 \in Operands :
       Save(rd, rs1, src2, executed)

NestedRestore ==
  /\ depth > 0
  /\ depth' = depth - 1
  /\ \E executed \in BOOLEAN, rd, rs1 \in Registers, src2 \in Operands :
       Restore(rd, rs1, src2, executed)

Next == NestedWrite \/ NestedSave \/ NestedRestore

Spec == Init /\ [][Next]_nestedVars
-----------------------------------------------------------------------------
\* the window of the frame opened by the k-th SAVE, main's being frame 0
WindowOf(k) == NWindows - 1 - k

(***************************************************************************)
(* The refinement mapping: the visible registers are read through the      *)
(* pointers, the suspended frames in the arrays of their windows.          *)
(***************************************************************************)
CellOfFrame(k, r) == Pointers(WindowOf(k), After(WindowOf(k)))[r]

VisibleWords == [r \in Registers |-> Read(r)]

SuspendedFrames ==
  [k \in 1 .. depth |-> [r \in {"l", "i"} \X Offsets |-> regs[CellOfFrame(k - 1, r)]]]

Stack == INSTANCE WindowStack WITH visible <- VisibleWords, callers <- SuspendedFrames

(***************************************************************************)
(* The windows implement the stack of frames: whatever the callees do, a   *)
(* RESTORE finds the caller's locals and ins as its SAVE left them, and    *)
(* parameters and results pass through the shared bank.                    *)
(***************************************************************************)
ImplementsStack == Stack!Spec

(***************************************************************************)
(* The current window is the one the nesting says, so that the windows of  *)
(* open frames are pairwise different.                                     *)
(***************************************************************************)
WindowFollowsDepth == depth \in 0 .. MaxDepth /\ cwp = WindowOf(depth)
=============================================================================
