----------------------------- MODULE Procedures -----------------------------
(***************************************************************************)
(* A recursive procedure on the simulator core: sum(n) = n + sum(n-1) with *)
(* a window and a stack slot per activation, called from main as compiled  *)
(* code does it.  CALL leaves its own address in o7, the callee's SAVE     *)
(* turns o7 into i7, the return jumps to i7 + 8 and its delay slot turns   *)
(* the window back.                                                        *)
(***************************************************************************)
EXTENDS SparcPrograms

CONSTANT Arguments        \* the arguments main passes

SP == StackPointer
ReturnAddress == <<"i", CallOffset>>
PushFrame == Format3("SAVE", SP, SP, Imm(-4))
PopFrame == Format3("RESTORE", G0, G0, Imm(0))

SumEntry == 6
MainCallSite == 1
SumCallSite == 12

SumOf(n) ==
  Assembled(<<
    PushFrame,                                    \*  0 main:
    CallTo(SumEntry),                             \*  1   call sum
    Set(O(0), n),                                 \*  2   (delay slot) the argument
    Copy(I(0), O(0)),                             \*  3   the result
    JumpTo(G0, ReturnAddress, 8),                 \*  4   ret
    PopFrame,                                     \*  5   (delay slot) restore
    PushFrame,                                    \*  6 sum:
    Format3("ST", I(0), SP, Imm(0)),              \*  7   spill the argument
    Compare(I(0), Imm(0)),                        \*  8
    Bcc("E", 15),                                 \*  9   be done
    Set(L(0), 0),                                 \* 10   (delay slot)
    Nop,                                          \* 11
    CallTo(SumEntry),                             \* 12   call sum
    Format3("SUB", O(0), I(0), Imm(1)),           \* 13   (delay slot) n - 1
    Copy(L(0), O(0)),                             \* 14
    Format3("LD", L(1), SP, Imm(0)),              \* 15 done: reload the argument
    Format3("ADD", I(0), L(0), L(1)),             \* 16
    JumpTo(G0, ReturnAddress, 8),                 \* 17   ret
    PopFrame>>)                                   \* 18   (delay slot) restore

SumPrograms == {SumOf(n) : n \in Arguments}

\* main and sum(n), ..., sum(0) each open a frame below the reset window
ASSUME ArgumentsFit ==
  \A n \in Arguments : n \in Nat /\ n + 2 <= NWindows - 2 /\ 4 * (n + 3) <= MemoryBytes
-----------------------------------------------------------------------------
Argument == program[2].src2[2]

(***************************************************************************)
(* The program returns the sum in o0, with the window and the stack        *)
(* pointer as main found them.                                             *)
(***************************************************************************)
SumReturned ==
  status = "halted" /\ program \in SumPrograms =>
    /\ 2 * Read(O(0)) = Argument * (Argument + 1)
    /\ cwp = NWindows - 1
    /\ Read(SP) = StackTop

(***************************************************************************)
(* While procedures are active, every open frame keeps the address of the  *)
(* call it must return to: main's, the first call's and the recursive one. *)
(***************************************************************************)
ReturnAddressesKept ==
  program \in SumPrograms =>
    \A w \in cwp .. NWindows - 2 :
      regs[<<"inout", After(w), CallOffset>>] =
        CASE w = NWindows - 2 -> ReturnFromMain
          [] w = NWindows - 3 -> 4 * MainCallSite
          [] OTHER            -> 4 * SumCallSite
=============================================================================
