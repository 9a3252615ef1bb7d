------------------------------ MODULE SparcAlu ------------------------------
(***************************************************************************)
(* The arithmetic and logic part of simulateStep: for an opcode, the two   *)
(* source words, the icc bits and the y register, the words it may put     *)
(* into the destination, the next y register and the next icc bits.        *)
(* Words are built from sets of bit positions, so a bitwise operation is   *)
(* the set operation on the positions.                                     *)
(***************************************************************************)
EXTENDS SparcWords, FiniteSetsExt

CONSTANT WordBits         \* 32 in the code

\* a recursive function, because the provers have no definition of 2 ^ n
PowerOfTwo[n \in Nat] == IF n = 0 THEN 1 ELSE 2 * PowerOfTwo[n - 1]

ASSUME WordBitsAssumption == WordBits \in Nat \ {0} /\ Modulus = PowerOfTwo[WordBits]

BitPositions == 0 .. WordBits - 1
BitsOf(a) == {i \in BitPositions : (a \div PowerOfTwo[i]) % 2 = 1}
FromBits(S) ==
  LET sum[n \in Nat] ==
        IF n = 0 THEN 0 ELSE sum[n - 1] + (IF n - 1 \in S THEN PowerOfTwo[n - 1] ELSE 0)
  IN  sum[WordBits]

NotW(a) == FromBits(BitPositions \ BitsOf(a))
AndW(a, b) == FromBits(BitsOf(a) \cap BitsOf(b))
OrW(a, b) == FromBits(BitsOf(a) \cup BitsOf(b))
XorW(a, b) == FromBits(SymDiff(BitsOf(a), BitsOf(b)))

\* C shifts by the width or more are undefined: any word may come out
Sll(a, n) == IF n < WordBits THEN {FromBits({i + n : i \in BitsOf(a)} \cap BitPositions)}
                             ELSE Word
Srl(a, n) == IF n < WordBits THEN {FromBits({i - n : i \in BitsOf(a)} \cap BitPositions)}
                             ELSE Word

FaultySra(a, n) ==
  LET times == IF Signed(n) < 0 THEN 0 ELSE n
  IN  FromBits({i \in BitPositions : i + times \in BitsOf(a)})

\* the loop runs (int32_t) n times, not at all for n < 0, and feeds sign bits in
Sra(a, n) ==
  LET times == IF Signed(n) < 0 THEN 0 ELSE n
  IN  FromBits({i \in BitPositions :
                  IF i + times < WordBits THEN i + times \in BitsOf(a) ELSE Negative(a)})
-----------------------------------------------------------------------------
(***************************************************************************)
(* Multiplication and division with the y register as the upper word.  The *)
(* code widens the first factor of SMUL without extending its sign.        *)
(***************************************************************************)
UProduct(a, b) == a * b
SProduct(a, b) == a * Signed(b)
LowWord(p) == p % Modulus
FaultyHighWord(p) == p \div Modulus
HighWord(p) == (p \div Modulus) % Modulus

\* C division: the quotient is truncated towards zero
Abs(n) == IF n < 0 THEN -n ELSE n
Truncated(p, q) ==
  LET quotient == Abs(p) \div Abs(q) IN IF (p < 0) = (q < 0) THEN quotient ELSE -quotient
UQuotient(y, a, b) == (y * Modulus + a) \div b
FaultySQuotient(y, a, b) == Truncated(Signed(a), Signed(b))
SQuotient(y, a, b) == Truncated(Signed(y) * Modulus + a, Signed(b))

\* the one quotient an int64_t cannot hold: undefined in C
SQuotientUndefined(y, a, b) == SQuotient(y, a, b) = HalfRange * Modulus
-----------------------------------------------------------------------------
AddOps == {"ADD", "ADDCC", "TADDCC", "TADDCCTV"}
SubOps == {"SUB", "SUBCC", "TSUBCC", "TSUBCCTV"}
AddxOps == {"ADDX", "ADDXCC"}
SubxOps == {"SUBX", "SUBXCC"}
UmulOps == {"UMUL", "UMULCC"}
SmulOps == {"SMUL", "SMULCC"}
UdivOps == {"UDIV", "UDIVCC"}
SdivOps == {"SDIV", "SDIVCC"}
DivOps == UdivOps \cup SdivOps
LogicOps == {"AND", "ANDCC", "ANDN", "ANDNCC", "OR", "ORCC",
             "ORN", "ORNCC", "XOR", "XORCC", "XNOR", "XNORCC"}
ShiftOps == {"SLL", "SRL", "SRA"}
AluOps == AddOps \cup SubOps \cup AddxOps \cup SubxOps \cup UmulOps \cup SmulOps
          \cup DivOps \cup LogicOps \cup ShiftOps \cup {"MULSCC"}

\* the words dst_value may hold after the arithmetic switch
AluValues(op, a, b, icc, y) ==
  CASE op \in {"AND", "ANDCC"}   -> {AndW(a, b)}
    [] op \in {"ANDN", "ANDNCC"} -> {NotW(AndW(a, b))}
    [] op \in {"OR", "ORCC"}     -> {OrW(a, b)}
    [] op \in {"ORN", "ORNCC"}   -> {NotW(OrW(a, b))}
    [] op \in {"XOR", "XORCC"}   -> {XorW(a, b)}
    [] op \in {"XNOR", "XNORCC"} -> {NotW(XorW(a, b))}
    [] op = "SLL"                -> Sll(a, b)
    [] op = "SRL"                -> Srl(a, b)
    [] op = "SRA"                -> {Sra(a, b)}
    [] op \in AddOps             -> {AddW(a, b)}
    [] op \in AddxOps            -> {AddW(AddW(a, b), Carry(icc))}
    [] op \in SubOps             -> {SubW(a, b)}
    [] op \in SubxOps            -> {SubW(SubW(a, b), Carry(icc))}
    [] op = "MULSCC"             -> {0}
    [] op \in UmulOps            -> {LowWord(UProduct(a, b))}
    [] op \in SmulOps            -> {LowWord(SProduct(a, b))}
    [] op \in UdivOps            -> {LowWord(UQuotient(y, a, b))}
    [] op \in SdivOps            -> IF SQuotientUndefined(y, a, b) THEN Word
                                    ELSE {LowWord(SQuotient(y, a, b))}

FaultyAluY(op, a, b, y) == IF op \in UmulOps THEN HighWord(UProduct(a, b)) ELSE y

AluY(op, a, b, y) ==
  CASE op \in UmulOps -> HighWord(UProduct(a, b))
    [] op \in SmulOps -> HighWord(SProduct(a, b))
    [] OTHER          -> y

\* UDIVCC falls through into the SDIVCC case, which clears the V bit it set;
\* SDIVCC sets V for every quotient outside the unsigned range
AluIcc(op, a, b, d, icc, y) ==
  CASE op \in {"ANDCC", "ANDNCC", "ORCC", "ORNCC", "XORCC", "XNORCC",
               "UMULCC", "SMULCC", "UDIVCC"}        -> LogicIcc(d)
    [] op \in {"ADDCC", "TADDCC", "TADDCCTV"}       -> AddIcc(a, b, d)
    [] op \in {"SUBCC", "TSUBCC", "TSUBCCTV"}       -> SubIcc(a, b, d)
    [] op = "SDIVCC" -> [LogicIcc(d) EXCEPT !.v = SQuotient(y, a, b) \notin Word]
    [] OTHER                                        -> icc

AluOutcomes(op, a, b, icc, y) ==
  {[value |-> v, y |-> AluY(op, a, b, y), icc |-> AluIcc(op, a, b, v, icc, y)] :
     v \in AluValues(op, a, b, icc, y)}
=============================================================================
