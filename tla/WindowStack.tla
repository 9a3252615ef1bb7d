----------------------------- MODULE WindowStack -----------------------------
(***************************************************************************)
(* What the register windows promise a program: a stack of procedure       *)
(* frames.  SAVE suspends the caller's locals and ins and hands its outs   *)
(* to the callee as ins; RESTORE brings the caller's locals and ins back   *)
(* and hands it the callee's ins as outs.  The locals and the outs of a    *)
(* new frame hold anything.  Nothing is said of arrays and pointers.       *)
(***************************************************************************)
EXTENDS SparcWords, Sequences

CONSTANT BankSize

VARIABLES
  visible,                \* the words of the registers an instruction can name
  callers                 \* the suspended frames, the innermost caller last

stackVars == <<visible, callers>>

Offsets == 0 .. BankSize - 1
Registers == {"g", "o", "l", "i"} \X Offsets
Kept == {"l", "i"} \X Offsets
Operands == Registers \cup ({"imm"} \X Word)
Operand(o) == IF o[1] = "imm" THEN o[2] ELSE visible[o]

\* type invariant of the abstract stack
TypeOK ==
  /\ visible \in [Registers -> Word]
  /\ callers \in Seq([Kept -> Word])

\* visible' is new, up to the register the instruction writes
Becomes(new(_), rd, v, executed) ==
  /\ visible' \in [Registers -> Word]
  /\ \A r \in Registers :
       visible'[r] \in IF executed /\ r = rd /\ r # <<"g", 0>> THEN {v} ELSE new(r)

Write(rd, v, executed) ==
  /\ Becomes(LAMBDA r : {visible[r]}, rd, v, executed)
  /\ UNCHANGED callers

Push(rd, rs1, src2, executed) ==
  /\ Becomes(LAMBDA r : CASE r[1] = "g" -> {visible[r]}
                          [] r[1] = "i" -> {visible[<<"o", r[2]>>]}
                          [] OTHER      -> Word,
             rd, AddW(visible[rs1], Operand(src2)), executed)
  /\ callers' = Append(callers, [r \in Kept |-> visible[r]])

Pop(rd, rs1, src2, executed) ==
  /\ callers # <<>>
  /\ Becomes(LAMBDA r : CASE r[1] = "g" -> {visible[r]}
                          [] r[1] = "o" -> {visible[<<"i", r[2]>>]}
                          [] OTHER      -> {callers[Len(callers)][r]},
             rd, AddW(visible[rs1], Operand(src2)), executed)
  /\ callers' = SubSeq(callers, 1, Len(callers) - 1)

Init == visible \in [Registers -> Word] /\ callers = <<>>

Next ==
  \E executed \in BOOLEAN, rd \in Registers :
    \/ \E v \in Word : Write(rd, v, executed)
    \/ \E rs1 \in Registers, src2 \in Operands : Push(rd, rs1, src2, executed)
    \/ \E rs1 \in Registers, src2 \in Operands : Pop(rd, rs1, src2, executed)

Spec == Init /\ [][Next]_stackVars
=============================================================================
