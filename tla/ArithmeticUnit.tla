--------------------------- MODULE ArithmeticUnit ---------------------------
(***************************************************************************)
(* Sequences of arithmetic instructions.  The state an arithmetic          *)
(* instruction leaves for the next one is the y register and the icc bits  *)
(* (sparc_y and the icc field of sparc_psr); op, src1, src2 and dst are    *)
(* the opcode, the operands and the result of the last instruction.  The   *)
(* operands are arbitrary words, as the register file may hold any.        *)
(***************************************************************************)
EXTENDS SparcAlu

CONSTANT Ops              \* the opcodes explored

ASSUME OpsAssumption == Ops \subseteq AluOps \cup {"RD", "WR"}

VARIABLES op, src1, src2, dst, y, icc, status

vars == <<op, src1, src2, dst, y, icc, status>>

\* type invariant: results and y stay words for every opcode, signed ones included
TypeOK ==
  /\ op \in Ops \cup {"NONE"}
  /\ src1 \in Word /\ src2 \in Word /\ dst \in Word
  /\ y \in Word
  /\ icc \in IccType
  /\ status \in {"running", "failed"}

Init ==
  /\ op = "NONE" /\ src1 = 0 /\ src2 = 0 /\ dst = 0
  /\ y = 0
  /\ icc = IccClear
  /\ status = "running"

Issue(o, a, b) ==
  /\ status = "running"
  /\ op' = o /\ src1' = a /\ src2' = b

\* the arithmetic, multiplication, division and logic opcodes
Compute(o, a, b) ==
  /\ o \in AluOps
  /\ o \in DivOps => b # 0
  /\ Issue(o, a, b)
  /\ \E r \in AluOutcomes(o, a, b, icc, y) :
       dst' = r.value /\ y' = r.y /\ icc' = r.icc
  /\ UNCHANGED status

\* "Encountered division by zero!"
DivideByZero(o, a) ==
  /\ o \in DivOps
  /\ Issue(o, a, 0)
  /\ status' = "failed"
  /\ UNCHANGED <<dst, y, icc>>

\* rd %y, rd
ReadY(a, b) ==
  /\ "RD" \in Ops
  /\ Issue("RD", a, b)
  /\ dst' = y
  /\ UNCHANGED <<y, icc, status>>

\* wr rs1, operand2, %y
WriteY(a, b) ==
  /\ "WR" \in Ops
  /\ Issue("WR", a, b)
  /\ dst' = XorW(a, b)
  /\ y' = dst'
  /\ UNCHANGED <<icc, status>>

Next ==
  \E a, b \in Word :
    \/ \E o \in Ops : Compute(o, a, b)
    \/ \E o \in Ops : DivideByZero(o, a)
    \/ ReadY(a, b)
    \/ WriteY(a, b)

Spec == Init /\ [][Next]_vars
-----------------------------------------------------------------------------
SignedRange == -HalfRange .. HalfRange - 1
Wide(hi, lo) == hi * Modulus + lo

(***************************************************************************)
(* After a compare (SUBCC) every condition code a branch, a move or a      *)
(* predicated block can test is the comparison it is named after, signed   *)
(* or unsigned, although the code derives the bits from three sign bits.   *)
(***************************************************************************)
ConditionsAfterCompare ==
  op \in {"SUBCC", "TSUBCC", "TSUBCCTV"} =>
    /\ EvaluateICC("E", icc)   <=> src1 = src2
    /\ EvaluateICC("NE", icc)  <=> src1 # src2
    /\ EvaluateICC("L", icc)   <=> Signed(src1) < Signed(src2)
    /\ EvaluateICC("GE", icc)  <=> Signed(src1) >= Signed(src2)
    /\ EvaluateICC("LE", icc)  <=> Signed(src1) <= Signed(src2)
    /\ EvaluateICC("G", icc)   <=> Signed(src1) > Signed(src2)
    /\ EvaluateICC("CS", icc)  <=> src1 < src2
    /\ EvaluateICC("CC", icc)  <=> src1 >= src2
    /\ EvaluateICC("LEU", icc) <=> src1 <= src2
    /\ EvaluateICC("GU", icc)  <=> src1 > src2
    /\ EvaluateICC("VS", icc)  <=> Signed(src1) - Signed(src2) \notin SignedRange

(***************************************************************************)
(* After ADDCC the V bit is the signed overflow and the C bit the carry    *)
(* out of the word, and the sign of the exact sum is N unless V is set.    *)
(***************************************************************************)
ConditionsAfterAdd ==
  op \in {"ADDCC", "TADDCC", "TADDCCTV"} =>
    /\ EvaluateICC("VS", icc) <=> Signed(src1) + Signed(src2) \notin SignedRange
    /\ EvaluateICC("CS", icc) <=> src1 + src2 \notin Word
    /\ EvaluateICC("L", icc)  <=> Signed(src1) + Signed(src2) < 0

(***************************************************************************)
(* ADDCC of the lower words followed by ADDX of the upper words adds two   *)
(* double words: the carry survives in the psr between the two steps.      *)
(***************************************************************************)
WideAdd ==
  [][op = "ADDCC" /\ op' = "ADDX" =>
       Wide(dst', dst) = (Wide(src1', src1) + Wide(src2', src2)) % (Modulus * Modulus)]_vars

(***************************************************************************)
(* SUBCC of the lower words followed by SUBX of the upper words subtracts  *)
(* two double words.                                                       *)
(***************************************************************************)
WideSubtract ==
  [][op = "SUBCC" /\ op' = "SUBX" =>
       Wide(dst', dst) = (Wide(src1', src1) - Wide(src2', src2)) % (Modulus * Modulus)]_vars

(***************************************************************************)
(* A division of the double word a multiplication left in y and in its     *)
(* destination, by the same second operand, gives the first operand back,  *)
(* unsigned and signed; the latter although SMUL does not extend the sign  *)
(* of its first operand.                                                   *)
(***************************************************************************)
DivisionUndoesMultiplication ==
  [][/\ (op \in UmulOps /\ op' \in UdivOps) \/ (op \in SmulOps /\ op' \in SdivOps)
     /\ src1' = dst /\ src2' = src2 /\ src2 # 0
     => dst' = src1]_vars

\* q is p divided by d, truncated: the remainder has the sign of p
IsQuotient(q, p, d) ==
  LET r == p - q * d
  IN  r = 0 \/ ((r < 0) = (p < 0) /\ Abs(r) < Abs(d))

(***************************************************************************)
(* UDIV and SDIV divide the double word y:src1, whatever instruction left  *)
(* y; a quotient that fits the destination is the truncated one, and after *)
(* UDIVCC and SDIVCC the conditions E and NEG test the quotient.           *)
(***************************************************************************)
DivisionQuotient ==
  [][/\ op' \in DivOps
     /\ status' = "running"
     => /\ op' \in UdivOps => \A q \in Word :
             IsQuotient(q, Wide(y, src1'), src2') => dst' = q
        /\ op' \in SdivOps => \A q \in SignedRange :
             IsQuotient(q, Wide(Signed(y), src1'), Signed(src2')) => dst' = q % Modulus
        /\ op' \in {"UDIVCC", "SDIVCC"} =>
             (EvaluateICC("E", icc') <=> dst' = 0)
             /\ (EvaluateICC("NEG", icc') <=> Signed(dst') < 0)]_vars

(***************************************************************************)
(* SMUL leaves the exact signed product in y and the destination whenever  *)
(* the first operand is not negative, and always its lower word.           *)
(***************************************************************************)
SignedProduct ==
  op \in SmulOps =>
    /\ (dst - Signed(src1) * Signed(src2)) % Modulus = 0
    /\ ~Negative(src1) => Wide(Signed(y), dst) = Signed(src1) * Signed(src2)

(***************************************************************************)
(* The shifts move bit by bit what multiplication and division by a power  *)
(* of two scale: SLL modulo the word, SRL rounding down, SRA rounding the  *)
(* signed value down, also for counts beyond the width where SRA stops     *)
(* at zero or minus one.                                                   *)
(***************************************************************************)
ShiftsScale ==
  /\ op = "SLL" /\ src2 < WordBits => dst = (src1 * PowerOfTwo[src2]) % Modulus
  /\ op = "SRL" /\ src2 < WordBits => dst = src1 \div PowerOfTwo[src2]
  /\ op = "SRA" /\ Signed(src2) >= 0 => Signed(dst) = Signed(src1) \div PowerOfTwo[src2]
=============================================================================
