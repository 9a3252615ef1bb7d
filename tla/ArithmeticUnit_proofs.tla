------------------------ MODULE ArithmeticUnit_proofs ------------------------
(***************************************************************************)
(* Proofs about additions, subtractions and the condition codes, about     *)
(* products and quotients, and about shifts, for every word width.         *)
(***************************************************************************)
EXTENDS ArithmeticUnit, SparcAlu_proofs

\* what the opcode tables say of the opcodes the theorems are about
LEMMA AddTable ==
  ASSUME NEW o \in AddOps, NEW a, NEW b, NEW i, NEW q
  PROVE  AluValues(o, a, b, i, q) = {AddW(a, b)}
  BY DEF AluValues, AddOps, SubOps, AddxOps, SubxOps, UmulOps, SmulOps, UdivOps, SdivOps

LEMMA SubTable ==
  ASSUME NEW o \in SubOps, NEW a, NEW b, NEW i, NEW q
  PROVE  AluValues(o, a, b, i, q) = {SubW(a, b)}
  BY DEF AluValues, AddOps, SubOps, AddxOps, SubxOps, UmulOps, SmulOps, UdivOps, SdivOps

LEMMA AddxTable ==
  ASSUME NEW a, NEW b, NEW i, NEW q
  PROVE  AluValues("ADDX", a, b, i, q) = {AddW(AddW(a, b), Carry(i))}
  BY DEF AluValues, AddOps, SubOps, AddxOps, SubxOps, UmulOps, SmulOps, UdivOps, SdivOps

LEMMA SubxTable ==
  ASSUME NEW a, NEW b, NEW i, NEW q
  PROVE  AluValues("SUBX", a, b, i, q) = {SubW(SubW(a, b), Carry(i))}
  BY DEF AluValues, AddOps, SubOps, AddxOps, SubxOps, UmulOps, SmulOps, UdivOps, SdivOps

LEMMA AddIccTable ==
  ASSUME NEW o \in {"ADDCC", "TADDCC", "TADDCCTV"}, NEW a, NEW b, NEW d, NEW i, NEW q
  PROVE  AluIcc(o, a, b, d, i, q) = AddIcc(a, b, d)
  BY DEF AluIcc

LEMMA SubIccTable ==
  ASSUME NEW o \in {"SUBCC", "TSUBCC", "TSUBCCTV"}, NEW a, NEW b, NEW d, NEW i, NEW q
  PROVE  AluIcc(o, a, b, d, i, q) = SubIcc(a, b, d)
  BY DEF AluIcc
-----------------------------------------------------------------------------
LEMMA AddIccFields ==
  ASSUME NEW a, NEW b, NEW d
  PROVE  /\ AddIcc(a, b, d).n <=> Negative(d)
         /\ AddIcc(a, b, d).z <=> d = 0
         /\ AddIcc(a, b, d).v <=> \/ Negative(a) /\ Negative(b) /\ ~Negative(d)
                                  \/ ~Negative(a) /\ ~Negative(b) /\ Negative(d)
         /\ AddIcc(a, b, d).c <=> \/ Negative(a) /\ Negative(b)
                                  \/ ~Negative(d) /\ (Negative(a) \/ Negative(b))
  BY DEF AddIcc

LEMMA SubIccFields ==
  ASSUME NEW a, NEW b, NEW d
  PROVE  /\ SubIcc(a, b, d).n <=> Negative(d)
         /\ SubIcc(a, b, d).z <=> d = 0
         /\ SubIcc(a, b, d).v <=> \/ Negative(a) /\ ~Negative(b) /\ ~Negative(d)
                                  \/ ~Negative(a) /\ Negative(b) /\ Negative(d)
         /\ SubIcc(a, b, d).c <=> \/ ~Negative(a) /\ Negative(b)
                                  \/ Negative(d) /\ (~Negative(a) \/ Negative(b))
  BY DEF SubIcc

(***************************************************************************)
(* The sign-bit formulas of the code are carry, overflow and sign of the   *)
(* exact sum: by cases on the signs and on whether the sum wraps.          *)
(***************************************************************************)
LEMMA AddIccMeaning ==
  ASSUME NEW a \in Word, NEW b \in Word
  PROVE  LET i == AddIcc(a, b, AddW(a, b))
         IN  /\ i.c <=> a + b \notin Word
             /\ i.v <=> Signed(a) + Signed(b) \notin SignedRange
             /\ ~(i.n <=> i.v) <=> Signed(a) + Signed(b) < 0
<1> DEFINE d == AddW(a, b)
<1>1. d = IF a + b < Modulus THEN a + b ELSE a + b - Modulus
  BY AddWValue
<1> HIDE DEF d
<1> QED
  BY <1>1, AddIccFields, HalfRangeAssumption DEF d, Negative, Signed, SignedRange, Word, Modulus

LEMMA SubIccMeaning ==
  ASSUME NEW a \in Word, NEW b \in Word
  PROVE  LET i == SubIcc(a, b, SubW(a, b))
         IN  /\ i.z <=> a = b
             /\ i.c <=> a < b
             /\ i.v <=> Signed(a) - Signed(b) \notin SignedRange
             /\ ~(i.n <=> i.v) <=> Signed(a) < Signed(b)
<1>1. SubW(a, b) = IF a >= b THEN a - b ELSE a - b + Modulus
  BY SubWValue
<1> QED
  BY <1>1, SubIccFields, HalfRangeAssumption DEF Negative, Signed, SignedRange, Word, Modulus

\* what the condition codes test, for any icc bits
LEMMA ConditionBits ==
  ASSUME NEW i \in IccType
  PROVE  /\ EvaluateICC("E", i) <=> i.z
         /\ EvaluateICC("NE", i) <=> ~i.z
         /\ EvaluateICC("L", i) <=> ~(i.n <=> i.v)
         /\ EvaluateICC("GE", i) <=> (i.n <=> i.v)
         /\ EvaluateICC("LE", i) <=> i.z \/ ~(i.n <=> i.v)
         /\ EvaluateICC("G", i) <=> ~i.z /\ (i.n <=> i.v)
         /\ EvaluateICC("CS", i) <=> i.c
         /\ EvaluateICC("CC", i) <=> ~i.c
         /\ EvaluateICC("LEU", i) <=> i.c \/ i.z
         /\ EvaluateICC("GU", i) <=> ~i.c /\ ~i.z
         /\ EvaluateICC("VS", i) <=> i.v
<1>1. i.n \in BOOLEAN /\ i.v \in BOOLEAN /\ i.z \in BOOLEAN /\ i.c \in BOOLEAN
  BY DEF IccType
<1> QED
  BY <1>1 DEF EvaluateICC

\* SUBCC leaves the conditions it is named for
LEMMA CompareMeaning ==
  ASSUME NEW a \in Word, NEW b \in Word, NEW i, i = SubIcc(a, b, SubW(a, b))
  PROVE  /\ EvaluateICC("E", i)   <=> a = b
         /\ EvaluateICC("NE", i)  <=> a # b
         /\ EvaluateICC("L", i)   <=> Signed(a) < Signed(b)
         /\ EvaluateICC("GE", i)  <=> Signed(a) >= Signed(b)
         /\ EvaluateICC("LE", i)  <=> Signed(a) <= Signed(b)
         /\ EvaluateICC("G", i)   <=> Signed(a) > Signed(b)
         /\ EvaluateICC("CS", i)  <=> a < b
         /\ EvaluateICC("CC", i)  <=> a >= b
         /\ EvaluateICC("LEU", i) <=> a <= b
         /\ EvaluateICC("GU", i)  <=> a > b
         /\ EvaluateICC("VS", i)  <=> Signed(a) - Signed(b) \notin SignedRange
<1>1. /\ i.z <=> a = b
      /\ i.c <=> a < b
      /\ i.v <=> Signed(a) - Signed(b) \notin SignedRange
      /\ ~(i.n <=> i.v) <=> Signed(a) < Signed(b)
  BY SubIccMeaning
<1>2. a = b <=> Signed(a) = Signed(b)
  BY HalfRangeAssumption DEF Signed, Negative, Word, Modulus
<1>3. /\ Signed(a) \in Int /\ Signed(b) \in Int
      /\ a \in Int /\ b \in Int
  BY HalfRangeAssumption DEF Signed, Negative, Word, Modulus
<1>4. /\ Signed(a) >= Signed(b) <=> ~(Signed(a) < Signed(b))
      /\ Signed(a) <= Signed(b) <=> Signed(a) = Signed(b) \/ Signed(a) < Signed(b)
      /\ Signed(a) > Signed(b) <=> ~(Signed(a) = Signed(b)) /\ ~(Signed(a) < Signed(b))
      /\ a >= b <=> ~(a < b)
      /\ a <= b <=> a = b \/ a < b
      /\ a > b <=> ~(a = b) /\ ~(a < b)
  BY <1>3
<1>5. i \in IccType
  BY IccTyped
<1> QED
  BY <1>1, <1>2, <1>4, <1>5, ConditionBits, Zenon
-----------------------------------------------------------------------------
AddCCOps == {"ADDCC", "TADDCC", "TADDCCTV"}
SubCCOps == {"SUBCC", "TSUBCC", "TSUBCCTV"}

(***************************************************************************)
(* The inductive invariant: after an addition or subtraction that sets the *)
(* condition codes, the result and the icc bits are those of its operands. *)
(***************************************************************************)
IccInvariant ==
  /\ op \in AddCCOps => /\ src1 \in Word /\ src2 \in Word
                        /\ dst = AddW(src1, src2)
                        /\ icc = AddIcc(src1, src2, dst)
  /\ op \in SubCCOps => /\ src1 \in Word /\ src2 \in Word
                        /\ dst = SubW(src1, src2)
                        /\ icc = SubIcc(src1, src2, dst)

LEMMA ComputeAddition ==
  ASSUME NEW o \in AddCCOps \cup SubCCOps, NEW a \in Word, NEW b \in Word, Compute(o, a, b)
  PROVE  /\ o \in AddCCOps => dst' = AddW(a, b) /\ icc' = AddIcc(a, b, dst')
         /\ o \in SubCCOps => dst' = SubW(a, b) /\ icc' = SubIcc(a, b, dst')
<1>1. PICK v \in AluValues(o, a, b, icc, y) :
        dst' = v /\ icc' = AluIcc(o, a, b, v, icc, y)
  BY DEF Compute, AluOutcomes
<1>2. CASE o \in AddCCOps
  BY <1>1, <1>2, AddTable, AddIccTable DEF AddCCOps, SubCCOps, AddOps
<1>3. CASE o \in SubCCOps
  BY <1>1, <1>3, SubTable, SubIccTable DEF AddCCOps, SubCCOps, SubOps
<1> QED
  BY <1>2, <1>3

LEMMA IccInvariantInductive ==
  /\ Init => IccInvariant
  /\ IccInvariant /\ [Next]_vars => IccInvariant'
<1>1. Init => IccInvariant
  BY DEF Init, IccInvariant, AddCCOps, SubCCOps
<1>2. ASSUME IccInvariant, [Next]_vars PROVE IccInvariant'
  <2>1. ASSUME NEW a \in Word, NEW b \in Word, NEW o \in Ops, Compute(o, a, b)
        PROVE  IccInvariant'
    <3>1. op' = o /\ src1' = a /\ src2' = b
      BY <2>1 DEF Compute, Issue
    <3>2. CASE o \in AddCCOps \cup SubCCOps
      BY <2>1, <3>1, <3>2, ComputeAddition DEF IccInvariant
    <3>3. CASE o \notin AddCCOps \cup SubCCOps
      BY <3>1, <3>3 DEF IccInvariant
    <3> QED
      BY <3>2, <3>3
  <2>2. ASSUME NEW a \in Word, NEW o \in Ops, DivideByZero(o, a)
        PROVE  IccInvariant'
    <3>1. op' \in DivOps
      BY <2>2 DEF DivideByZero, Issue
    <3> QED
      BY <3>1 DEF IccInvariant, DivOps, UdivOps, SdivOps, AddCCOps, SubCCOps
  <2>3. ASSUME NEW a \in Word, NEW b \in Word, ReadY(a, b) \/ WriteY(a, b)
        PROVE  IccInvariant'
    <3>1. op' \in {"RD", "WR"}
      BY <2>3 DEF ReadY, WriteY, Issue
    <3> QED
      BY <3>1 DEF IccInvariant, AddCCOps, SubCCOps
  <2>4. CASE UNCHANGED vars
    BY <1>2, <2>4 DEF vars, IccInvariant
  <2> QED
    BY <1>2, <2>1, <2>2, <2>3, <2>4 DEF Next
<1> QED
  BY <1>1, <1>2

THEOREM IccInvariantHolds == Spec => []IccInvariant
BY IccInvariantInductive, PTL DEF Spec

(***************************************************************************)
(* After a compare every condition code is the comparison it is named      *)
(* after, for every word width.                                            *)
(***************************************************************************)
THEOREM CompareConditions == Spec => []ConditionsAfterCompare
<1>1. IccInvariant => ConditionsAfterCompare
  BY CompareMeaning DEF IccInvariant, ConditionsAfterCompare, SubCCOps
<1> QED
  BY <1>1, IccInvariantHolds, PTL

(***************************************************************************)
(* After ADDCC, V, C and L are overflow, carry and sign of the exact sum,  *)
(* for every word width.                                                   *)
(***************************************************************************)
THEOREM AddConditions == Spec => []ConditionsAfterAdd
<1>1. IccInvariant => ConditionsAfterAdd
  <2> SUFFICES ASSUME IccInvariant, op \in AddCCOps
               PROVE  /\ EvaluateICC("VS", icc) <=> Signed(src1) + Signed(src2) \notin SignedRange
                      /\ EvaluateICC("CS", icc) <=> src1 + src2 \notin Word
                      /\ EvaluateICC("L", icc)  <=> Signed(src1) + Signed(src2) < 0
    BY DEF ConditionsAfterAdd, AddCCOps
  <2>1. src1 \in Word /\ src2 \in Word /\ icc = AddIcc(src1, src2, AddW(src1, src2))
    BY DEF IccInvariant
  <2>2. icc \in IccType
    BY <2>1, IccTyped
  <2> QED
    BY <2>1, <2>2, AddIccMeaning, ConditionBits
<1> QED
  BY <1>1, IccInvariantHolds, PTL
-----------------------------------------------------------------------------
\* a remainder is found by adding or subtracting the divisor once
LEMMA RemainderOnce ==
  ASSUME NEW m \in Nat \ {0}, NEW r \in 0 .. m - 1
  PROVE  r % m = r /\ (r + m) % m = r /\ (r - m) % m = r
  OBVIOUS

\* a double word is below the square of the modulus
LEMMA WideRange ==
  ASSUME NEW hi \in Word, NEW lo \in Word
  PROVE  Wide(hi, lo) \in 0 .. (Modulus * Modulus) - 1
<1> DEFINE M == Modulus
<1>1. M \in Nat \ {0} /\ hi \in 0 .. M - 1 /\ lo \in 0 .. M - 1
  BY HalfRangeAssumption DEF Word, Modulus
<1> HIDE DEF M
<1>2. hi * M \in Nat /\ hi * M <= (M - 1) * M
  BY <1>1
<1>3. (M - 1) * M = M * M - M
  BY <1>1
<1> QED
  BY <1>1, <1>2, <1>3 DEF Wide, M

LEMMA WideSum ==
  ASSUME NEW a1 \in Word, NEW a0 \in Word, NEW b1 \in Word, NEW b0 \in Word,
         NEW c \in {0, 1}, NEW d0 \in Word, NEW d1 \in Word,
         a0 + b0 = d0 + c * Modulus,
         d1 = AddW(AddW(a1, b1), c)
  PROVE  Wide(d1, d0) = (Wide(a1, a0) + Wide(b1, b0)) % (Modulus * Modulus)
<1> DEFINE M == Modulus
<1>0. M \in Nat \ {0} /\ M > 1 /\ Word = 0 .. M - 1
  BY HalfRangeAssumption DEF Word, Modulus
<1>1. PICK k \in {0, 1} : a1 + b1 + c = d1 + k * M
  <2>1. c \in Word
    BY <1>0
  <2>2. /\ AddW(a1, b1) = IF a1 + b1 < M THEN a1 + b1 ELSE a1 + b1 - M
        /\ AddW(a1, b1) \in Word
    BY AddWValue
  <2>3. d1 = IF AddW(a1, b1) + c < M THEN AddW(a1, b1) + c ELSE AddW(a1, b1) + c - M
    BY <2>1, <2>2, AddWValue
  <2> HIDE DEF M
  <2> QED
    BY <1>0, <2>2, <2>3
<1> HIDE DEF M
<1>2. Wide(a1, a0) + Wide(b1, b0) = (a1 + b1 + c) * M + d0
  <2>1. Wide(a1, a0) + Wide(b1, b0) = (a1 * M + b1 * M) + (a0 + b0)
    BY <1>0 DEF Wide, M
  <2>2. a0 + b0 = d0 + c * M
    BY DEF M
  <2>3. (a1 + b1 + c) * M = a1 * M + b1 * M + c * M
    BY <1>0
  <2> QED
    BY <1>0, <2>1, <2>2, <2>3
<1>3. Wide(d1, d0) = d1 * M + d0
  BY DEF Wide, M
<1>4. M * M \in Nat \ {0} /\ Wide(d1, d0) \in 0 .. (M * M) - 1
  <2>1. M * M \in Nat \ {0}
    BY <1>0
  <2> QED
    BY <2>1, <1>1, WideRange DEF M
<1>5. CASE k = 0
  <2>1. Wide(a1, a0) + Wide(b1, b0) = Wide(d1, d0)
    BY <1>0, <1>1, <1>2, <1>3, <1>5
  <2> QED
    BY <2>1, <1>4, RemainderOnce DEF M
<1>6. CASE k = 1
  <2>1. (a1 + b1 + c) * M = d1 * M + M * M
    <3>1. a1 + b1 + c = d1 + M
      BY <1>0, <1>1, <1>6
    <3>2. d1 \in Nat /\ (d1 + M) * M = d1 * M + M * M
      BY <1>0
    <3> QED
      BY <3>1, <3>2
  <2>2. Wide(a1, a0) + Wide(b1, b0) = Wide(d1, d0) + M * M
    <3>1. Wide(a1, a0) + Wide(b1, b0) = (d1 * M + M * M) + d0
      BY <1>2, <2>1
    <3>2. d1 * M \in Nat /\ M * M \in Nat /\ d0 \in Nat
      BY <1>0
    <3> QED
      BY <3>1, <3>2, <1>3
  <2> QED
    BY <2>2, <1>4, RemainderOnce DEF M
<1> QED
  BY <1>5, <1>6
\* the same for a difference and its borrow
LEMMA WideDifference ==
  ASSUME NEW a1 \in Word, NEW a0 \in Word, NEW b1 \in Word, NEW b0 \in Word,
         NEW c \in {0, 1}, NEW d0 \in Word, NEW d1 \in Word,
         a0 - b0 = d0 - c * Modulus,
         d1 = SubW(SubW(a1, b1), c)
  PROVE  Wide(d1, d0) = (Wide(a1, a0) - Wide(b1, b0)) % (Modulus * Modulus)
<1> DEFINE M == Modulus
<1>0. M \in Nat \ {0} /\ M > 1 /\ Word = 0 .. M - 1
  BY HalfRangeAssumption DEF Word, Modulus
<1>1. PICK k \in {0, 1} : a1 - b1 - c = d1 - k * M
  <2>1. c \in Word
    BY <1>0
  <2>2. /\ SubW(a1, b1) = IF a1 >= b1 THEN a1 - b1 ELSE a1 - b1 + M
        /\ SubW(a1, b1) \in Word
    BY SubWValue
  <2>3. d1 = IF SubW(a1, b1) >= c THEN SubW(a1, b1) - c ELSE SubW(a1, b1) - c + M
    BY <2>1, <2>2, SubWValue
  <2> HIDE DEF M
  <2>4. a1 \in 0 .. M - 1 /\ b1 \in 0 .. M - 1
    BY <1>0
  <2>5. CASE a1 >= b1 + c
    <3>1. d1 = a1 - b1 - c
      BY <1>0, <2>2, <2>3, <2>4, <2>5
    <3> QED
      BY <1>0, <2>4, <3>1
  <2>6. CASE a1 < b1 + c
    <3>1. d1 = a1 - b1 - c + M
      BY <1>0, <2>2, <2>3, <2>4, <2>6
    <3>2. a1 - b1 - c = d1 - 1 * M
      BY <1>0, <2>4, <3>1
    <3> QED
      BY <3>2
  <2> QED
    BY <2>4, <2>5, <2>6
<1> HIDE DEF M
<1>2. Wide(a1, a0) - Wide(b1, b0) = (a1 - b1 - c) * M + d0
  <2>1. Wide(a1, a0) - Wide(b1, b0) = (a1 * M - b1 * M) + (a0 - b0)
    BY <1>0 DEF Wide, M
  <2>2. a0 - b0 = d0 - c * M
    BY DEF M
  <2>3. (a1 - b1 - c) * M = a1 * M - b1 * M - c * M
    BY <1>0
  <2> QED
    BY <1>0, <2>1, <2>2, <2>3
<1>3. Wide(d1, d0) = d1 * M + d0
  BY DEF Wide, M
<1>4. M * M \in Nat \ {0} /\ Wide(d1, d0) \in 0 .. (M * M) - 1
  <2>1. M * M \in Nat \ {0}
    BY <1>0
  <2> QED
    BY <2>1, <1>1, WideRange DEF M
<1>5. CASE k = 0
  <2>1. Wide(a1, a0) - Wide(b1, b0) = Wide(d1, d0)
    BY <1>0, <1>1, <1>2, <1>3, <1>5
  <2> QED
    BY <2>1, <1>4, RemainderOnce DEF M
<1>6. CASE k = 1
  <2>1. (a1 - b1 - c) * M = d1 * M - M * M
    <3>1. a1 - b1 - c = d1 - M
      BY <1>0, <1>1, <1>6
    <3>2. d1 \in Nat /\ (d1 - M) * M = d1 * M - M * M
      BY <1>0
    <3> QED
      BY <3>1, <3>2
  <2>2. Wide(a1, a0) - Wide(b1, b0) = Wide(d1, d0) - M * M
    <3>1. Wide(a1, a0) - Wide(b1, b0) = (d1 * M - M * M) + d0
      BY <1>2, <2>1
    <3>2. d1 * M \in Nat /\ M * M \in Nat /\ d0 \in Nat
      BY <1>0
    <3> QED
      BY <3>1, <3>2, <1>3
  <2> QED
    BY <2>2, <1>4, RemainderOnce DEF M
<1> QED
  BY <1>5, <1>6
-----------------------------------------------------------------------------
(***************************************************************************)
(* A double-word addition made of ADDCC and ADDX is exact, for every word  *)
(* width: the C bit the first leaves in the psr is the carry the second    *)
(* needs.                                                                  *)
(***************************************************************************)
THEOREM WideAddition == Spec => WideAdd
<1>1. ASSUME IccInvariant, [Next]_vars, op = "ADDCC", op' = "ADDX"
      PROVE  Wide(dst', dst) = (Wide(src1', src1) + Wide(src2', src2)) % (Modulus * Modulus)
  <2>1. PICK a \in Word, b \in Word, o \in Ops : Compute(o, a, b)
    BY <1>1 DEF Next, vars, DivideByZero, ReadY, WriteY, Issue, DivOps, UdivOps, SdivOps
  <2>2. src1' = a /\ src2' = b /\ o = "ADDX"
    BY <1>1, <2>1 DEF Compute, Issue
  <2>3. PICK v \in AluValues(o, a, b, icc, y) : dst' = v
    BY <2>1 DEF Compute, AluOutcomes
  <2>4. dst' = AddW(AddW(a, b), Carry(icc))
    BY <2>2, <2>3, AddxTable
  <2>5. /\ src1 \in Word /\ src2 \in Word /\ dst \in Word
        /\ dst = AddW(src1, src2) /\ icc = AddIcc(src1, src2, dst)
    BY <1>1, AddWValue DEF IccInvariant, AddCCOps
  <2>6. Carry(icc) \in {0, 1} /\ src1 + src2 = dst + Carry(icc) * Modulus
    <3>1. icc.c <=> src1 + src2 \notin Word
      BY <2>5, AddIccMeaning
    <3>2. dst = IF src1 + src2 < Modulus THEN src1 + src2 ELSE src1 + src2 - Modulus
      BY <2>5, AddWValue
    <3> QED
      BY <2>5, <3>1, <3>2, HalfRangeAssumption DEF Carry, Word, Modulus
  <2>7. Carry(icc) \in Word /\ dst' \in Word
    <3>1. Carry(icc) \in Word
      BY <2>6, HalfRangeAssumption DEF Word, Modulus
    <3>2. AddW(a, b) \in Word
      BY AddWValue
    <3> QED
      BY <2>4, <3>1, <3>2, AddWValue
  <2> QED
    BY <2>2, <2>4, <2>5, <2>6, <2>7, WideSum
<1>2. IccInvariant /\ [Next]_vars =>
        [op = "ADDCC" /\ op' = "ADDX" =>
           Wide(dst', dst) = (Wide(src1', src1) + Wide(src2', src2)) % (Modulus * Modulus)]_vars
  BY <1>1
<1> QED
  BY <1>2, IccInvariantHolds, PTL DEF WideAdd, Spec
(***************************************************************************)
(* A double-word subtraction made of SUBCC and SUBX is exact, for every    *)
(* word width: the C bit the first leaves in the psr is the borrow the     *)
(* second needs.                                                           *)
(***************************************************************************)
THEOREM WideSubtraction == Spec => WideSubtract
<1>1. ASSUME IccInvariant, [Next]_vars, op = "SUBCC", op' = "SUBX"
      PROVE  Wide(dst', dst) = (Wide(src1', src1) - Wide(src2', src2)) % (Modulus * Modulus)
  <2>1. PICK a \in Word, b \in Word, o \in Ops : Compute(o, a, b)
    BY <1>1 DEF Next, vars, DivideByZero, ReadY, WriteY, Issue, DivOps, UdivOps, SdivOps
  <2>2. src1' = a /\ src2' = b /\ o = "SUBX"
    BY <1>1, <2>1 DEF Compute, Issue
  <2>3. PICK v \in AluValues(o, a, b, icc, y) : dst' = v
    BY <2>1 DEF Compute, AluOutcomes
  <2>4. dst' = SubW(SubW(a, b), Carry(icc))
    BY <2>2, <2>3, SubxTable
  <2>5. /\ src1 \in Word /\ src2 \in Word /\ dst \in Word
        /\ dst = SubW(src1, src2) /\ icc = SubIcc(src1, src2, dst)
    BY <1>1, SubWValue DEF IccInvariant, SubCCOps
  <2>6. Carry(icc) \in {0, 1} /\ src1 - src2 = dst - Carry(icc) * Modulus
    <3>1. icc.c <=> src1 < src2
      BY <2>5, SubIccMeaning
    <3>2. dst = IF src1 >= src2 THEN src1 - src2 ELSE src1 - src2 + Modulus
      BY <2>5, SubWValue
    <3> QED
      BY <2>5, <3>1, <3>2, HalfRangeAssumption DEF Carry, Word, Modulus
  <2>7. Carry(icc) \in Word /\ dst' \in Word
    <3>1. Carry(icc) \in Word
      BY <2>6, HalfRangeAssumption DEF Word, Modulus
    <3>2. SubW(a, b) \in Word
      BY SubWValue
    <3> QED
      BY <2>4, <3>1, <3>2, SubWValue
  <2> QED
    BY <2>2, <2>4, <2>5, <2>6, <2>7, WideDifference
<1>2. IccInvariant /\ [Next]_vars =>
        [op = "SUBCC" /\ op' = "SUBX" =>
           Wide(dst', dst) = (Wide(src1', src1) - Wide(src2', src2)) % (Modulus * Modulus)]_vars
  BY <1>1
<1> QED
  BY <1>2, IccInvariantHolds, PTL DEF WideSubtract, Spec
-----------------------------------------------------------------------------
LEMMA TypeInductive ==
  /\ Init => TypeOK
  /\ TypeOK /\ [Next]_vars => TypeOK'
<1>1. Init => TypeOK
  BY HalfRangeAssumption DEF Init, TypeOK, IccClear, IccType, Word, Modulus
<1>2. ASSUME TypeOK, [Next]_vars PROVE TypeOK'
  <2> USE <1>2
  <2>1. ASSUME NEW a \in Word, NEW b \in Word, NEW o \in Ops, Compute(o, a, b)
        PROVE  TypeOK'
    <3>1. PICK r \in AluOutcomes(o, a, b, icc, y) : dst' = r.value /\ y' = r.y /\ icc' = r.icc
      BY <2>1 DEF Compute
    <3>2. r.value \in Word /\ r.y \in Word /\ r.icc \in IccType
      BY <2>1, AluOutcomesType DEF Compute, TypeOK
    <3> QED
      BY <2>1, <3>1, <3>2 DEF Compute, Issue, TypeOK
  <2>2. ASSUME NEW a \in Word, NEW o \in Ops, DivideByZero(o, a)
        PROVE  TypeOK'
    BY <2>2, HalfRangeAssumption DEF DivideByZero, Issue, TypeOK, Word, Modulus
  <2>3. ASSUME NEW a \in Word, NEW b \in Word, ReadY(a, b)
        PROVE  TypeOK'
    BY <2>3 DEF ReadY, Issue, TypeOK
  <2>4. ASSUME NEW a \in Word, NEW b \in Word, WriteY(a, b)
        PROVE  TypeOK'
    BY <2>4, BitwiseType DEF WriteY, Issue, TypeOK
  <2>5. CASE UNCHANGED vars
    BY <2>5 DEF vars, TypeOK
  <2> QED
    BY <2>1, <2>2, <2>3, <2>4, <2>5 DEF Next
<1> QED
  BY <1>1, <1>2

(***************************************************************************)
(* Results, y and the icc bits keep their types for every opcode and every *)
(* word width: no product, quotient or shift leaves the 32 bits.           *)
(***************************************************************************)
THEOREM TypeCorrect == Spec => []TypeOK
BY TypeInductive, PTL DEF Spec
-----------------------------------------------------------------------------
(***************************************************************************)
(* Multiplication and division.  Division rounds down, so a quotient is    *)
(* known by its remainder; the rest is bookkeeping of signs.               *)
(***************************************************************************)
LEMMA QuotientOf ==
  ASSUME NEW e \in Nat \ {0}, NEW s \in Int, NEW t \in 0 .. e - 1
  PROVE  (s * e + t) \div e = s
  OBVIOUS

LEMMA QuotientAndRemainder ==
  ASSUME NEW e \in Nat \ {0}, NEW p \in Int
  PROVE  /\ p = (p \div e) * e + (p % e)
         /\ p % e \in 0 .. e - 1 /\ p \div e \in Int
  OBVIOUS

LEMMA QuotientBound ==
  ASSUME NEW e \in Nat \ {0}, NEW p \in Int, NEW lo \in Int, NEW hi \in Int,
         p >= lo * e, p < hi * e
  PROVE  p \div e \in lo .. hi - 1
  OBVIOUS

LEMMA MultipleRemainder ==
  ASSUME NEW e \in Nat \ {0}, NEW k \in Int
  PROVE  (k * e) % e = 0
  OBVIOUS

LEMMA ModulusValue ==
  /\ HalfRange \in Nat \ {0} /\ Modulus \in Nat \ {0} /\ Modulus = 2 * HalfRange
  /\ Word = 0 .. Modulus - 1
BY HalfRangeAssumption DEF Modulus, Word

LEMMA WordParts ==
  ASSUME NEW p \in Int
  PROVE  /\ p = (p \div Modulus) * Modulus + (p % Modulus)
         /\ p % Modulus \in Int /\ p \div Modulus \in Int
<1>1. Modulus \in Nat \ {0}
  BY ModulusValue
<1> QED
  BY <1>1

LEMMA MultipleOfModulus ==
  ASSUME NEW k \in Int
  PROVE  (k * Modulus) % Modulus = 0
BY MultipleRemainder, ModulusValue

\* what a word is, signed
LEMMA SignedValue ==
  ASSUME NEW a \in Word
  PROVE  /\ Signed(a) \in SignedRange
         /\ Signed(a) = a \/ Signed(a) = a - Modulus
         /\ ~Negative(a) => Signed(a) = a
         /\ Signed(a) < 0 <=> Negative(a)
         /\ Signed(a) = 0 <=> a = 0
BY HalfRangeAssumption DEF Signed, Negative, SignedRange, Word, Modulus

\* a number of the signed range is the signed value of its lower word
LEMMA SignedOfLow ==
  ASSUME NEW q \in SignedRange
  PROVE  Signed(q % Modulus) = q
<1>1. q % Modulus = IF q < 0 THEN q + Modulus ELSE q
  BY ModulusValue DEF SignedRange
<1> QED
  BY <1>1, ModulusValue DEF Signed, Negative, SignedRange

\* the two words of a product, put together again
LEMMA UnsignedProductParts ==
  ASSUME NEW a \in Word, NEW b \in Word
  PROVE  Wide(HighWord(UProduct(a, b)), LowWord(UProduct(a, b))) = a * b
<1> DEFINE p == a * b
<1>1. p \in Nat /\ a \in Nat /\ b \in Nat /\ a < Modulus /\ b < Modulus
  BY ModulusValue
<1>2. p >= 0 * Modulus /\ p < Modulus * Modulus
  <2>1. p <= a * Modulus /\ a * Modulus < Modulus * Modulus
    BY <1>1, ModulusValue
  <2> QED
    BY <1>1, <2>1, ModulusValue
<1> HIDE DEF p
<1>3. p \div Modulus \in 0 .. Modulus - 1
  BY <1>1, <1>2, QuotientBound, ModulusValue
<1>4. (p \div Modulus) % Modulus = p \div Modulus
  BY <1>3, RemainderOnce, ModulusValue
<1>5. Wide(HighWord(p), LowWord(p)) = (p \div Modulus) * Modulus + (p % Modulus)
  BY <1>4 DEF Wide, HighWord, LowWord
<1>6. Wide(HighWord(p), LowWord(p)) = p
  <2>1. p \in Int
    BY <1>1
  <2> QED
    BY <2>1, <1>5, WordParts
<1> QED
  BY <1>6 DEF p, UProduct

LEMMA SignedProductParts ==
  ASSUME NEW a \in Word, NEW b \in Word
  PROVE  Wide(Signed(HighWord(SProduct(a, b))), LowWord(SProduct(a, b))) = a * Signed(b)
<1> DEFINE s == Signed(b)
           p == a * s
<1>1. /\ s \in Int /\ -HalfRange <= s /\ s <= HalfRange - 1
      /\ a \in Nat /\ a < Modulus
  BY SignedValue, ModulusValue DEF SignedRange
<1> HIDE DEF s
<1>2. p \in Int /\ p >= (-HalfRange) * Modulus /\ p < HalfRange * Modulus
  <2>1. p >= a * (-HalfRange) /\ a * (-HalfRange) >= Modulus * (-HalfRange)
    BY <1>1, ModulusValue
  <2>2. p <= a * (HalfRange - 1) /\ a * (HalfRange - 1) <= Modulus * (HalfRange - 1)
    BY <1>1, ModulusValue
  <2>3. Modulus * (HalfRange - 1) = HalfRange * Modulus - Modulus
    BY ModulusValue
  <2>4. Modulus * (-HalfRange) = (-HalfRange) * Modulus
    BY ModulusValue
  <2>5. p \in Int /\ a * (HalfRange - 1) \in Int /\ a * (-HalfRange) \in Int
        /\ HalfRange * Modulus \in Int /\ (-HalfRange) * Modulus \in Int
    BY <1>1, ModulusValue
  <2> HIDE DEF p
  <2> QED
    BY <2>1, <2>2, <2>3, <2>4, <2>5, ModulusValue
<1> HIDE DEF p
<1>3. p \div Modulus \in -HalfRange .. HalfRange - 1
  BY <1>2, QuotientBound, ModulusValue
<1>4. Signed(HighWord(p)) = p \div Modulus
  BY <1>3, SignedOfLow DEF HighWord, SignedRange
<1>5. Wide(Signed(HighWord(p)), LowWord(p)) = p
  BY <1>2, <1>4, QuotientAndRemainder, ModulusValue DEF Wide, LowWord
<1> QED
  BY <1>5 DEF p, s, SProduct

\* the lower word does not depend on which factors were sign-extended
LEMMA SignedProductLow ==
  ASSUME NEW a \in Word, NEW b \in Word
  PROVE  (LowWord(SProduct(a, b)) - Signed(a) * Signed(b)) % Modulus = 0
<1> DEFINE s == Signed(b)
           p == a * s
           q == p \div Modulus
           low == p % Modulus
           k == IF Signed(a) = a THEN 0 ELSE s
<1>1. s \in Int /\ a \in Int /\ Modulus \in Int
  BY SignedValue, ModulusValue DEF SignedRange
<1> HIDE DEF s
<1>2. p \in Int
  BY <1>1
<1>3. Signed(a) * s = p - k * Modulus
  <2>1. CASE Signed(a) = a
    BY <1>1, <2>1
  <2>2. CASE Signed(a) = a - Modulus /\ Signed(a) # a
    <3>1. (a - Modulus) * s = p - s * Modulus
      BY <1>1
    <3> QED
      BY <2>2, <3>1
  <2> QED
    BY <2>1, <2>2, SignedValue
<1>4. k \in Int
  BY <1>1
<1> HIDE DEF p, k
<1>5. p = q * Modulus + low /\ q \in Int /\ low \in Int
  BY <1>2, WordParts
<1> HIDE DEF q, low
<1>6. low - Signed(a) * s = (k - q) * Modulus
  <2> DEFINE whole == q * Modulus
             extra == k * Modulus
  <2>1. whole \in Int /\ extra \in Int /\ (k - q) * Modulus = extra - whole
    BY <1>1, <1>4, <1>5
  <2>2. p = whole + low /\ Signed(a) * s = p - extra
    BY <1>3, <1>5
  <2> HIDE DEF whole, extra
  <2>3. low - Signed(a) * s = extra - whole
    BY <1>2, <1>5, <2>1, <2>2
  <2> QED
    BY <2>1, <2>3
<1>7. ((k - q) * Modulus) % Modulus = 0
  <2>1. k - q \in Int
    BY <1>4, <1>5
  <2> QED
    BY <2>1, MultipleOfModulus
<1> QED
  BY <1>6, <1>7 DEF p, s, low, SProduct, LowWord

(***************************************************************************)
(* The truncated quotient is the only one whose remainder has the sign of  *)
(* the dividend and is smaller than the divisor.                           *)
(***************************************************************************)
LEMMA TruncatedUnique ==
  ASSUME NEW p \in Int, NEW d \in Int, d # 0, NEW q \in Int, IsQuotient(q, p, d)
  PROVE  Truncated(p, d) = q
<1> DEFINE r == p - q * d
<1>1. q * d \in Int /\ r \in Int /\ p = q * d + r
  OBVIOUS
<1>2. /\ r = 0 \/ ((r < 0) = (p < 0) /\ Abs(r) < Abs(d))
      /\ Abs(d) \in Nat \ {0} /\ Abs(d) = IF d < 0 THEN -d ELSE d
      /\ Abs(p) = IF p < 0 THEN -p ELSE p
      /\ Abs(r) = IF r < 0 THEN -r ELSE r
  BY DEF IsQuotient, Abs
<1>3. (-q) * d = -(q * d) /\ q * (-d) = -(q * d) /\ (-q) * (-d) = q * d
  OBVIOUS
<1> DEFINE e == Abs(d)
           s == IF (p < 0) = (d < 0) THEN q ELSE -q
           t == IF p < 0 THEN -r ELSE r
<1> HIDE DEF r
<1>4. e \in Nat \ {0} /\ s \in Int /\ t \in 0 .. e - 1
  BY <1>1, <1>2
<1>5. Abs(p) = s * e + t
  <2>1. CASE p < 0 /\ d < 0
    BY <1>1, <1>2, <1>3, <2>1
  <2>2. CASE p < 0 /\ ~(d < 0)
    BY <1>1, <1>2, <1>3, <2>2
  <2>3. CASE ~(p < 0) /\ d < 0
    BY <1>1, <1>2, <1>3, <2>3
  <2>4. CASE ~(p < 0) /\ ~(d < 0)
    BY <1>1, <1>2, <1>3, <2>4
  <2> QED
    BY <2>1, <2>2, <2>3, <2>4
<1>6. Abs(p) \div Abs(d) = s
  <2> HIDE DEF e, s, t
  <2>1. (s * e + t) \div e = s
    BY <1>4, QuotientOf
  <2> QED
    BY <1>5, <2>1 DEF e
<1> QED
  BY <1>6 DEF Truncated
-----------------------------------------------------------------------------
LEMMA UmulTable ==
  ASSUME NEW o \in UmulOps, NEW a, NEW b, NEW i, NEW q
  PROVE  /\ AluValues(o, a, b, i, q) = {LowWord(UProduct(a, b))}
         /\ AluY(o, a, b, q) = HighWord(UProduct(a, b))
  BY DEF AluValues, AluY, AddOps, SubOps, AddxOps, SubxOps, UmulOps, SmulOps, UdivOps, SdivOps

LEMMA SmulTable ==
  ASSUME NEW o \in SmulOps, NEW a, NEW b, NEW i, NEW q
  PROVE  /\ AluValues(o, a, b, i, q) = {LowWord(SProduct(a, b))}
         /\ AluY(o, a, b, q) = HighWord(SProduct(a, b))
  BY DEF AluValues, AluY, AddOps, SubOps, AddxOps, SubxOps, UmulOps, SmulOps, UdivOps, SdivOps

LEMMA UdivTable ==
  ASSUME NEW o \in UdivOps, NEW a, NEW b, NEW i, NEW q
  PROVE  AluValues(o, a, b, i, q) = {LowWord(UQuotient(q, a, b))}
  BY DEF AluValues, AddOps, SubOps, AddxOps, SubxOps, UmulOps, SmulOps, UdivOps, SdivOps

LEMMA SdivTable ==
  ASSUME NEW o \in SdivOps, NEW a, NEW b, NEW i, NEW q
  PROVE  AluValues(o, a, b, i, q) = IF SQuotientUndefined(q, a, b) THEN Word
                                    ELSE {LowWord(SQuotient(q, a, b))}
  BY DEF AluValues, AddOps, SubOps, AddxOps, SubxOps, UmulOps, SmulOps, UdivOps, SdivOps

(***************************************************************************)
(* The inductive invariant of the multiplications: y and the destination   *)
(* are the two words of the product of the operands.                       *)
(***************************************************************************)
ProductInvariant ==
  /\ TypeOK
  /\ op \in UmulOps => dst = LowWord(UProduct(src1, src2)) /\ y = HighWord(UProduct(src1, src2))
  /\ op \in SmulOps => dst = LowWord(SProduct(src1, src2)) /\ y = HighWord(SProduct(src1, src2))

LEMMA ProductInvariantInductive ==
  /\ Init => ProductInvariant
  /\ ProductInvariant /\ [Next]_vars => ProductInvariant'
<1>1. Init => ProductInvariant
  BY TypeInductive DEF Init, ProductInvariant, UmulOps, SmulOps
<1>2. ASSUME ProductInvariant, [Next]_vars PROVE ProductInvariant'
  <2>0. TypeOK'
    BY <1>2, TypeInductive DEF ProductInvariant
  <2>1. ASSUME NEW a \in Word, NEW b \in Word, NEW o \in Ops, Compute(o, a, b)
        PROVE  ProductInvariant'
    <3>1. op' = o /\ src1' = a /\ src2' = b
      BY <2>1 DEF Compute, Issue
    <3>2. dst' \in AluValues(o, a, b, icc, y) /\ y' = AluY(o, a, b, y)
      BY <2>1 DEF Compute, AluOutcomes
    <3>3. op' \in UmulOps => dst' = LowWord(UProduct(a, b)) /\ y' = HighWord(UProduct(a, b))
      BY <3>1, <3>2, UmulTable
    <3>4. op' \in SmulOps => dst' = LowWord(SProduct(a, b)) /\ y' = HighWord(SProduct(a, b))
      BY <3>1, <3>2, SmulTable
    <3> QED
      BY <2>0, <3>1, <3>3, <3>4 DEF ProductInvariant
  <2>2. ASSUME NEW a \in Word, NEW o \in Ops, DivideByZero(o, a)
        PROVE  ProductInvariant'
    <3>1. op' \in DivOps
      BY <2>2 DEF DivideByZero, Issue
    <3> QED
      BY <2>0, <3>1 DEF ProductInvariant, DivOps, UdivOps, SdivOps, UmulOps, SmulOps
  <2>3. ASSUME NEW a \in Word, NEW b \in Word, ReadY(a, b) \/ WriteY(a, b)
        PROVE  ProductInvariant'
    <3>1. op' \in {"RD", "WR"}
      BY <2>3 DEF ReadY, WriteY, Issue
    <3> QED
      BY <2>0, <3>1 DEF ProductInvariant, UmulOps, SmulOps
  <2>4. CASE UNCHANGED vars
    BY <1>2, <2>0, <2>4 DEF vars, ProductInvariant
  <2> QED
    BY <1>2, <2>1, <2>2, <2>3, <2>4 DEF Next
<1> QED
  BY <1>1, <1>2

THEOREM ProductInvariantHolds == Spec => []ProductInvariant
BY ProductInvariantInductive, PTL DEF Spec

(***************************************************************************)
(* SMUL leaves the exact signed product in y and the destination whenever  *)
(* the first operand is not negative, and always its lower word, for every *)
(* word width.                                                             *)
(***************************************************************************)
THEOREM SignedProductExact == Spec => []SignedProduct
<1>1. ProductInvariant => SignedProduct
  <2> SUFFICES ASSUME ProductInvariant, op \in SmulOps
               PROVE  /\ (dst - Signed(src1) * Signed(src2)) % Modulus = 0
                      /\ ~Negative(src1) => Wide(Signed(y), dst) = Signed(src1) * Signed(src2)
    BY DEF SignedProduct
  <2>1. src1 \in Word /\ src2 \in Word
    BY DEF ProductInvariant, TypeOK
  <2>2. dst = LowWord(SProduct(src1, src2)) /\ y = HighWord(SProduct(src1, src2))
    BY DEF ProductInvariant
  <2>3. Wide(Signed(y), dst) = src1 * Signed(src2)
    BY <2>1, <2>2, SignedProductParts
  <2>4. ~Negative(src1) => Signed(src1) = src1
    BY <2>1, SignedValue
  <2> QED
    BY <2>1, <2>2, <2>3, <2>4, SignedProductLow
<1> QED
  BY <1>1, ProductInvariantHolds, PTL
-----------------------------------------------------------------------------
\* a division that does not fail is computed from the y and icc it finds
LEMMA DivisionStep ==
  ASSUME TypeOK, [Next]_vars, op' \in DivOps, status' = "running", ~UNCHANGED vars
  PROVE  /\ op' \in AluOps /\ src1' \in Word /\ src2' \in Word /\ src2' # 0
         /\ dst' \in AluValues(op', src1', src2', icc, y)
         /\ icc' = AluIcc(op', src1', src2', dst', icc, y)
<1>1. PICK a \in Word, b \in Word : (\E o \in Ops : Compute(o, a, b))
                                    \/ (\E o \in Ops : DivideByZero(o, a))
                                    \/ ReadY(a, b) \/ WriteY(a, b)
  BY DEF Next
<1>2. ~ReadY(a, b) /\ ~WriteY(a, b)
  BY DEF ReadY, WriteY, Issue, DivOps, UdivOps, SdivOps
<1>3. \A o \in Ops : ~DivideByZero(o, a)
  BY DEF DivideByZero
<1>4. PICK o \in Ops : Compute(o, a, b)
  BY <1>1, <1>2, <1>3
<1>5. op' = o /\ src1' = a /\ src2' = b /\ o \in AluOps /\ b # 0
  BY <1>4 DEF Compute, Issue
<1>6. PICK v \in AluValues(o, a, b, icc, y) : dst' = v /\ icc' = AluIcc(o, a, b, v, icc, y)
  BY <1>4 DEF Compute, AluOutcomes
<1> QED
  BY <1>5, <1>6

\* a quotient in the signed range is defined and is put into the destination
LEMMA SdivValue ==
  ASSUME NEW o \in SdivOps, NEW a \in Word, NEW b \in Word, NEW i, NEW h \in Word,
         NEW q \in Int, SQuotient(h, a, b) = q, q < HalfRange * Modulus
  PROVE  AluValues(o, a, b, i, h) = {q % Modulus}
<1>1. ~SQuotientUndefined(h, a, b)
  <2>1. HalfRange * Modulus \in Int
    BY ModulusValue
  <2> QED
    BY <2>1 DEF SQuotientUndefined
<1> QED
  BY <1>1, SdivTable DEF LowWord

\* words are below every such bound
LEMMA WordsFit ==
  \A q \in Int : q < Modulus => q < HalfRange * Modulus
<1>1. Modulus <= HalfRange * Modulus /\ HalfRange * Modulus \in Int
  BY ModulusValue
<1> QED
  BY <1>1, ModulusValue

(***************************************************************************)
(* Dividing what a multiplication left in y and the destination by its     *)
(* second operand gives the first operand back, for every word width.      *)
(***************************************************************************)
LEMMA UnsignedUndone ==
  ASSUME NEW a \in Word, NEW b \in Word, b # 0
  PROVE  LowWord(UQuotient(HighWord(UProduct(a, b)), LowWord(UProduct(a, b)), b)) = a
<1>1. UQuotient(HighWord(UProduct(a, b)), LowWord(UProduct(a, b)), b) = (a * b) \div b
  BY UnsignedProductParts DEF UQuotient, Wide
<1>2. a \in Int /\ b \in Nat \ {0} /\ 0 \in 0 .. b - 1
  BY ModulusValue
<1>3. (a * b + 0) \div b = a
  BY <1>2, QuotientOf
<1>4. a * b + 0 = a * b
  BY <1>2
<1>5. a % Modulus = a
  BY RemainderOnce, ModulusValue
<1> QED
  BY <1>1, <1>3, <1>4, <1>5 DEF LowWord

LEMMA SignedUndone ==
  ASSUME NEW a \in Word, NEW b \in Word, b # 0
  PROVE  SQuotient(HighWord(SProduct(a, b)), LowWord(SProduct(a, b)), b) = a
<1> DEFINE s == Signed(b)
<1>1. SQuotient(HighWord(SProduct(a, b)), LowWord(SProduct(a, b)), b) = Truncated(a * s, s)
  BY SignedProductParts DEF SQuotient, Wide
<1>2. a \in Int /\ s \in Int /\ s # 0
  BY SignedValue, ModulusValue DEF SignedRange
<1> HIDE DEF s
<1>3. a * s \in Int /\ IsQuotient(a, a * s, s)
  BY <1>2 DEF IsQuotient
<1>4. Truncated(a * s, s) = a
  BY <1>2, <1>3, TruncatedUnique
<1> QED
  BY <1>1, <1>4

THEOREM DivisionUndoes == Spec => DivisionUndoesMultiplication
<1>1. ASSUME ProductInvariant, TypeOK', [Next]_vars, ~UNCHANGED vars,
             (op \in UmulOps /\ op' \in UdivOps) \/ (op \in SmulOps /\ op' \in SdivOps),
             src1' = dst, src2' = src2, src2 # 0
      PROVE  dst' = src1
  <2>1. TypeOK /\ op' \in DivOps
    BY <1>1 DEF ProductInvariant, DivOps
  <2>2. status' = "running"
    <3>1. \A o \in Ops, a \in Word : ~DivideByZero(o, a)
      BY <1>1 DEF DivideByZero, Issue
    <3>2. \A a, b \in Word : ~ReadY(a, b) /\ ~WriteY(a, b)
      BY <2>1 DEF ReadY, WriteY, Issue, DivOps, UdivOps, SdivOps
    <3>3. PICK o \in Ops, a \in Word, b \in Word : Compute(o, a, b)
      BY <1>1, <3>1, <3>2 DEF Next
    <3> QED
      BY <3>3 DEF Compute, Issue
  <2>3. dst' \in AluValues(op', dst, src2, icc, y)
    BY <1>1, <2>1, <2>2, DivisionStep
  <2>4. src1 \in Word /\ src2 \in Word /\ dst \in Word /\ y \in Word
    BY <2>1 DEF TypeOK
  <2>5. CASE op \in UmulOps /\ op' \in UdivOps
    <3>1. dst = LowWord(UProduct(src1, src2)) /\ y = HighWord(UProduct(src1, src2))
      BY <1>1, <2>5 DEF ProductInvariant
    <3>2. dst' = LowWord(UQuotient(y, dst, src2))
      BY <2>3, <2>5, UdivTable
    <3> QED
      BY <1>1, <2>4, <3>1, <3>2, UnsignedUndone
  <2>6. CASE op \in SmulOps /\ op' \in SdivOps
    <3>1. dst = LowWord(SProduct(src1, src2)) /\ y = HighWord(SProduct(src1, src2))
      BY <1>1, <2>6 DEF ProductInvariant
    <3>2. SQuotient(y, dst, src2) = src1
      BY <1>1, <2>4, <3>1, SignedUndone
    <3>3. src1 \in Int /\ src1 < HalfRange * Modulus /\ src1 % Modulus = src1
      BY <2>4, WordsFit, RemainderOnce, ModulusValue
    <3>4. AluValues(op', dst, src2, icc, y) = {src1 % Modulus}
      BY <2>4, <2>6, <3>2, <3>3, SdivValue
    <3> QED
      BY <2>3, <3>3, <3>4
  <2> QED
    BY <1>1, <2>5, <2>6
<1>2. ProductInvariant /\ ProductInvariant' /\ [Next]_vars =>
        [/\ (op \in UmulOps /\ op' \in UdivOps) \/ (op \in SmulOps /\ op' \in SdivOps)
         /\ src1' = dst /\ src2' = src2 /\ src2 # 0
         => dst' = src1]_vars
  BY <1>1 DEF ProductInvariant
<1> QED
  BY <1>2, ProductInvariantHolds, PTL DEF DivisionUndoesMultiplication, Spec
-----------------------------------------------------------------------------
\* E and NEG test the quotient after a division that sets the condition codes
LEMMA DivisionConditions ==
  ASSUME NEW o \in {"UDIVCC", "SDIVCC"}, NEW a, NEW b, NEW d \in Word, NEW i, NEW q
  PROVE  LET cc == AluIcc(o, a, b, d, i, q)
         IN  /\ EvaluateICC("E", cc) <=> d = 0
             /\ EvaluateICC("NEG", cc) <=> Signed(d) < 0
<1> DEFINE cc == AluIcc(o, a, b, d, i, q)
<1>1. cc \in {LogicIcc(d), [LogicIcc(d) EXCEPT !.v = SQuotient(q, a, b) \notin Word]}
  BY DEF AluIcc
<1>2. (cc.z <=> d = 0) /\ (cc.n <=> Negative(d))
  <2> DEFINE l == LogicIcc(d)
             overflow == SQuotient(q, a, b) \notin Word
  <2>1. l = [n |-> Negative(d), z |-> d = 0, v |-> FALSE, c |-> FALSE]
    BY DEF LogicIcc
  <2>2. cc \in {l, [l EXCEPT !.v = overflow]}
    BY <1>1
  <2> HIDE DEF cc, overflow
  <2>3. cc.z = l.z /\ cc.n = l.n
    BY <2>1, <2>2
  <2>4. (l.z <=> d = 0) /\ (l.n <=> Negative(d))
    BY DEF LogicIcc
  <2> HIDE DEF l
  <2> QED
    BY <2>3, <2>4, Zenon
<1>3. (EvaluateICC("E", cc) <=> cc.z) /\ (EvaluateICC("NEG", cc) <=> cc.n)
  BY <1>2 DEF EvaluateICC
<1> QED
  BY <1>2, <1>3, SignedValue

(***************************************************************************)
(* UDIV and SDIV leave the truncated quotient of the double word y:src1    *)
(* whenever it fits, and the condition codes test it, for every word       *)
(* width.                                                                  *)
(***************************************************************************)
THEOREM DivisionExact == Spec => DivisionQuotient
<1>1. ASSUME TypeOK, TypeOK', [Next]_vars, ~UNCHANGED vars,
             op' \in DivOps, status' = "running"
      PROVE  /\ op' \in UdivOps => \A q \in Word :
                  IsQuotient(q, Wide(y, src1'), src2') => dst' = q
             /\ op' \in SdivOps => \A q \in SignedRange :
                  IsQuotient(q, Wide(Signed(y), src1'), Signed(src2')) => dst' = q % Modulus
             /\ op' \in {"UDIVCC", "SDIVCC"} =>
                  (EvaluateICC("E", icc') <=> dst' = 0)
                  /\ (EvaluateICC("NEG", icc') <=> Signed(dst') < 0)
  <2>1. /\ src1' \in Word /\ src2' \in Word /\ src2' # 0
        /\ dst' \in AluValues(op', src1', src2', icc, y)
        /\ icc' = AluIcc(op', src1', src2', dst', icc, y)
    BY <1>1, DivisionStep
  <2>2. y \in Word /\ dst' \in Word
    BY <1>1 DEF TypeOK
  <2>3. ASSUME op' \in UdivOps, NEW q \in Word, IsQuotient(q, Wide(y, src1'), src2')
        PROVE  dst' = q
    <3> DEFINE p == Wide(y, src1')
               d == src2'
    <3>1. p \in Nat /\ d \in Nat \ {0} /\ q \in Int
      BY <2>1, <2>2, WideRange, ModulusValue
    <3> HIDE DEF p, d
    <3>2. Truncated(p, d) = q
      BY <2>3, <3>1, TruncatedUnique DEF p, d
    <3>3. Truncated(p, d) = p \div d
      BY <3>1 DEF Truncated, Abs
    <3>4. dst' = LowWord(p \div d)
      BY <2>1, <2>3, UdivTable DEF UQuotient, Wide, p, d
    <3>5. q % Modulus = q
      BY RemainderOnce, ModulusValue
    <3> QED
      BY <3>2, <3>3, <3>4, <3>5 DEF LowWord
  <2>4. ASSUME op' \in SdivOps, NEW q \in SignedRange,
               IsQuotient(q, Wide(Signed(y), src1'), Signed(src2'))
        PROVE  dst' = q % Modulus
    <3> DEFINE h == Signed(y)
               d == Signed(src2')
    <3>1. h \in Int /\ d \in Int /\ d # 0 /\ src1' \in Int /\ q \in Int /\ q < Modulus
      BY <2>1, <2>2, SignedValue, ModulusValue DEF SignedRange
    <3> HIDE DEF h, d
    <3>2. Wide(h, src1') \in Int
      BY <3>1, ModulusValue DEF Wide
    <3>3. Truncated(Wide(h, src1'), d) = q
      BY <2>4, <3>1, <3>2, TruncatedUnique DEF h, d
    <3>4. SQuotient(y, src1', src2') = q
      BY <3>3 DEF SQuotient, Wide, h, d
    <3>5. q < HalfRange * Modulus
      BY <3>1, WordsFit
    <3>6. AluValues(op', src1', src2', icc, y) = {q % Modulus}
      BY <2>1, <2>2, <2>4, <3>1, <3>4, <3>5, SdivValue
    <3> QED
      BY <2>1, <3>6
  <2>5. ASSUME op' \in {"UDIVCC", "SDIVCC"}
        PROVE  /\ EvaluateICC("E", icc') <=> dst' = 0
               /\ EvaluateICC("NEG", icc') <=> Signed(dst') < 0
    BY <2>1, <2>2, <2>5, DivisionConditions
  <2> QED
    BY <2>3, <2>4, <2>5
<1>2. TypeOK /\ TypeOK' /\ [Next]_vars =>
        [/\ op' \in DivOps
         /\ status' = "running"
         => /\ op' \in UdivOps => \A q \in Word :
                 IsQuotient(q, Wide(y, src1'), src2') => dst' = q
            /\ op' \in SdivOps => \A q \in SignedRange :
                 IsQuotient(q, Wide(Signed(y), src1'), Signed(src2')) => dst' = q % Modulus
            /\ op' \in {"UDIVCC", "SDIVCC"} =>
                 (EvaluateICC("E", icc') <=> dst' = 0)
                 /\ (EvaluateICC("NEG", icc') <=> Signed(dst') < 0)]_vars
  BY <1>1
<1> QED
  BY <1>2, TypeCorrect, PTL DEF DivisionQuotient, Spec
-----------------------------------------------------------------------------
LEMMA ShiftTable ==
  ASSUME NEW a, NEW b, NEW i, NEW q
  PROVE  /\ AluValues("SLL", a, b, i, q) = Sll(a, b)
         /\ AluValues("SRL", a, b, i, q) = Srl(a, b)
         /\ AluValues("SRA", a, b, i, q) = {Sra(a, b)}
  BY DEF AluValues, AddOps, SubOps, AddxOps, SubxOps, UmulOps, SmulOps, UdivOps, SdivOps

\* after a shift the destination is one of its outcomes
ShiftInvariant ==
  /\ TypeOK
  /\ op = "SLL" => dst \in Sll(src1, src2)
  /\ op = "SRL" => dst \in Srl(src1, src2)
  /\ op = "SRA" => dst = Sra(src1, src2)

LEMMA ShiftInvariantInductive ==
  /\ Init => ShiftInvariant
  /\ ShiftInvariant /\ [Next]_vars => ShiftInvariant'
<1>1. Init => ShiftInvariant
  BY TypeInductive DEF Init, ShiftInvariant
<1>2. ASSUME ShiftInvariant, [Next]_vars PROVE ShiftInvariant'
  <2>0. TypeOK'
    BY <1>2, TypeInductive DEF ShiftInvariant
  <2>1. ASSUME NEW a \in Word, NEW b \in Word, NEW o \in Ops, Compute(o, a, b)
        PROVE  ShiftInvariant'
    <3>1. op' = o /\ src1' = a /\ src2' = b
      BY <2>1 DEF Compute, Issue
    <3>2. dst' \in AluValues(o, a, b, icc, y)
      BY <2>1 DEF Compute, AluOutcomes
    <3>3. /\ op' = "SLL" => dst' \in Sll(a, b)
          /\ op' = "SRL" => dst' \in Srl(a, b)
          /\ op' = "SRA" => dst' = Sra(a, b)
      BY <3>1, <3>2, ShiftTable
    <3> QED
      BY <2>0, <3>1, <3>3 DEF ShiftInvariant
  <2>2. ASSUME NEW a \in Word, NEW o \in Ops, DivideByZero(o, a)
        PROVE  ShiftInvariant'
    <3>1. op' \in DivOps
      BY <2>2 DEF DivideByZero, Issue
    <3> QED
      BY <2>0, <3>1 DEF ShiftInvariant, DivOps, UdivOps, SdivOps
  <2>3. ASSUME NEW a \in Word, NEW b \in Word, ReadY(a, b) \/ WriteY(a, b)
        PROVE  ShiftInvariant'
    <3>1. op' \in {"RD", "WR"}
      BY <2>3 DEF ReadY, WriteY, Issue
    <3> QED
      BY <2>0, <3>1 DEF ShiftInvariant
  <2>4. CASE UNCHANGED vars
    BY <1>2, <2>0, <2>4 DEF vars, ShiftInvariant
  <2> QED
    BY <1>2, <2>1, <2>2, <2>3, <2>4 DEF Next
<1> QED
  BY <1>1, <1>2

\* the arithmetic shift rounds the signed value down
LEMMA SraFloor ==
  ASSUME NEW a \in Word, NEW n \in Word, Signed(n) >= 0
  PROVE  Signed(Sra(a, n)) = Signed(a) \div PowerOfTwo[n]
<1>1. n \in Nat /\ a \in Nat /\ Modulus = 2 * HalfRange /\ HalfRange \in Nat \ {0}
  BY HalfRangeAssumption DEF Word, Modulus
<1>2. Sra(a, n) = FromBits({i \in BitPositions : IF i + n < WordBits THEN i + n \in BitsOf(a) ELSE Negative(a)})
  <2>1. (IF Signed(n) < 0 THEN 0 ELSE n) = n
    BY SignedValue DEF SignedRange
  <2> QED
    BY <2>1, Zenon DEF Sra
<1>3. CASE ~Negative(a)
  <2>1. Sra(a, n) = a \div PowerOfTwo[n]
    BY <1>1, <1>2, <1>3, SraPositive
  <2>2. a \div PowerOfTwo[n] \in Word /\ a \div PowerOfTwo[n] <= a
    BY <1>1, MovedBits
  <2>3. \A q \in Word : q <= a => Signed(q) = q
    BY <1>1, <1>3 DEF Word, Signed, Negative
  <2>4. Signed(a) = a
    BY <1>3 DEF Signed
  <2> QED
    BY <2>1, <2>2, <2>3, <2>4
<1>4. CASE Negative(a)
  <2>1. PICK d \in Nat \ {0} : d = PowerOfTwo[n]
    BY <1>1, PowersOfTwo
  <2> DEFINE c == Modulus - 1 - a
             q == c \div d
             s == a - Modulus
  <2>2. c \in Word /\ c \in Int /\ c < HalfRange
    BY <1>1, <1>4 DEF Word, Negative
  <2>3. q \in Word /\ q <= c
    <3> HIDE DEF c
    <3> QED
      BY <1>1, <2>1, <2>2, MovedBits
  <2>4. Sra(a, n) = Modulus - 1 - q
    BY <1>1, <1>2, <1>4, <2>1, SraNegative
  <2>5. Signed(a) = s /\ s \in Int /\ s = -1 - c
    BY <1>1, <1>4 DEF Signed
  <2>6. Signed(Modulus - 1 - q) = -1 - q
    <3> HIDE DEF q, c
    <3> QED
      BY <1>1, <2>2, <2>3 DEF Word, Signed, Negative
  <2>7. s \div d = -1 - q
    <3>1. PICK k \in Int, r \in 0 .. d - 1 : k = q /\ c = d * k + r
      <4>1. c \div d \in Int /\ c % d \in 0 .. d - 1 /\ c = d * (c \div d) + (c % d)
        <5> HIDE DEF c
        <5> QED
          BY <2>1, <2>2, DivisionParts
      <4> QED
        BY <4>1
    <3>2. s = d * (-1 - k) + (d - 1 - r)
      <4>1. d * (-1 - k) = -d - d * k /\ d * k \in Int
        BY <2>1
      <4> HIDE DEF c, s, q
      <4> QED
        BY <2>1, <2>5, <3>1, <4>1
    <3>3. d - 1 - r \in 0 .. d - 1 /\ -1 - k \in Int
      BY <2>1
    <3> HIDE DEF s, q, c
    <3>4. s \div d = -1 - k
      BY <2>1, <2>5, <3>2, <3>3, DivisionUnique
    <3> QED
      BY <3>1, <3>4
  <2> HIDE DEF q, s, c
  <2> QED
    BY <2>1, <2>4, <2>5, <2>6, <2>7
<1> QED
  BY <1>3, <1>4

(***************************************************************************)
(* For every word width, SLL multiplies modulo the word and SRL and SRA    *)
(* divide by the power of two, SRA also by counts beyond the width.        *)
(***************************************************************************)
THEOREM ShiftsAlwaysScale == Spec => []ShiftsScale
<1>1. ShiftInvariant => ShiftsScale
  <2> SUFFICES ASSUME ShiftInvariant PROVE ShiftsScale
    OBVIOUS
  <2>1. src1 \in Word /\ src2 \in Word /\ src2 \in Nat
    BY DEF ShiftInvariant, TypeOK, Word
  <2>2. ASSUME op = "SLL", src2 < WordBits PROVE dst = (src1 * PowerOfTwo[src2]) % Modulus
    <3>1. dst = FromBits({i + src2 : i \in BitsOf(src1)} \cap BitPositions)
      BY <2>2 DEF ShiftInvariant, Sll
    <3> QED
      BY <2>1, <2>2, <3>1, ShiftedLeft
  <2>3. ASSUME op = "SRL", src2 < WordBits PROVE dst = src1 \div PowerOfTwo[src2]
    <3>1. dst = FromBits({i - src2 : i \in BitsOf(src1)} \cap BitPositions)
      BY <2>3 DEF ShiftInvariant, Srl
    <3> QED
      BY <2>1, <3>1, ShiftedRight
  <2>4. ASSUME op = "SRA", Signed(src2) >= 0 PROVE Signed(dst) = Signed(src1) \div PowerOfTwo[src2]
    BY <2>1, <2>4, SraFloor DEF ShiftInvariant
  <2> QED
    BY <2>2, <2>3, <2>4 DEF ShiftsScale
<1> QED
  BY <1>1, ShiftInvariantInductive, PTL DEF Spec
=============================================================================
