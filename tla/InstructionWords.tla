--------------------------- MODULE InstructionWords ---------------------------
(***************************************************************************)
(* Instruction words as bits and the field macros of the target headers.   *)
(* A set macro is the word it leaves behind, as a function of the word it  *)
(* is given.                                                               *)
(***************************************************************************)
EXTENDS Integers, Sequences

Bits == 0 .. 31
WordType == [Bits -> {0, 1}]
ZeroWord == [k \in Bits |-> 0]

SetField(w, first, width, value) ==
  [k \in Bits |-> IF k \in first .. first + width - 1 THEN (value \div 2^(k - first)) % 2 ELSE w[k]]

GetField(w, first, width) ==
  LET value[k \in 0 .. width] == IF k = 0 THEN 0 ELSE 2 * value[k - 1] + w[first + width - k]
  IN  value[width]

\* the sign extensions of the decoders
Extended(value, width) == IF value >= 2^(width - 1) THEN value - 2^width ELSE value
-----------------------------------------------------------------------------
SetOp(w, v) == SetField(w, 30, 2, v)
SetDisp30(w, v) == SetField(w, 0, 30, v)
SetRd(w, v) == SetField(w, 25, 5, v)
SetOp2(w, v) == SetField(w, 22, 3, v)
SetImm22(w, v) == SetField(w, 0, 22, v)
SetOp3(w, v) == SetField(w, 19, 6, v)
SetRs1(w, v) == SetField(w, 14, 5, v)
SetRs2(w, v) == SetField(SetField(w, 0, 5, v), 13, 1, 0)
SetSimm13(w, v) == SetField(SetField(w, 0, 13, v), 13, 1, 1)
SetCC(w, v) == SetField(w, 25, 4, v)
SetA(w, v) == SetField(w, 29, 1, v)

GetOp(w) == GetField(w, 30, 2)
GetDisp30(w) == GetField(w, 0, 30)
GetRd(w) == GetField(w, 25, 5)
GetOp2(w) == GetField(w, 22, 3)
GetImm22(w) == GetField(w, 0, 22)
GetOp3(w) == GetField(w, 19, 6)
GetRs1(w) == GetField(w, 14, 5)
GetRs2(w) == GetField(w, 0, 5)
GetSimm13(w) == GetField(w, 0, 13)
GetI(w) == GetField(w, 13, 1)
GetCC(w) == GetField(w, 25, 4)
GetA(w) == GetField(w, 29, 1)

\* selects
SelSetType(w, v) == SetField(w, 20, 2, v)
SelSetIcc(w, v) == SetField(w, 16, 4, v)
SelSetRs1(w, v) == SetField(w, 11, 5, v)
SelSetRs2(w, v) == SetField(w, 0, 5, v)
SelSetSimm11(w, v) == SetField(w, 0, 11, v)
SelSetSrc1Imm8(w, v) == SetField(w, 8, 8, v)
SelSetSrc2Imm8(w, v) == SetField(w, 0, 8, v)

SelGetType(w) == GetField(w, 20, 2)
SelGetIcc(w) == GetField(w, 16, 4)
SelGetRs1(w) == GetField(w, 11, 5)
SelGetSimm11(w) == GetField(w, 0, 11)
SelGetSrc1Imm8(w) == GetField(w, 8, 8)
SelGetSrc2Imm8(w) == GetField(w, 0, 8)

\* blocks predicated on predicate registers
PredSetType(w, v) == SetField(w, 20, 2, v)
PredSetIcc(w, v) == SetField(w, 16, 4, v)
PredSetTf(w, v) == SetField(w, 5, 1, v)
PredGetType(w) == GetField(w, 20, 2)
PredGetIcc(w) == GetField(w, 16, 4)
PredGetTf(w) == GetField(w, 5, 1)

\* words as the four bytes of a file, most significant first
WordBytes(w) == [b \in 1 .. 4 |-> GetField(w, 8 * (4 - b), 8)]
BytesOf(words) ==
  [b \in 1 .. 4 * Len(words) |-> WordBytes(words[(b + 3) \div 4])[1 + ((b - 1) % 4)]]
WordOf(bytes) == [k \in Bits |-> (bytes[4 - (k \div 8)] \div 2^(k % 8)) % 2]
=============================================================================
