--------------------------- MODULE Toolchain_proofs ---------------------------
(***************************************************************************)
(* Proofs about assembler and loader, for every source, every file that    *)
(* survives and every pair of targets.                                     *)
(***************************************************************************)
EXTENDS Toolchain, InstructionCodec, FiniteSetTheorems, SequenceTheorems, WellFoundedInduction, TLAPS

(***************************************************************************)
(* Induction over the naturals, for sets, and what it gives: functions     *)
(* that are defined step by step exist.                                    *)
(***************************************************************************)
LEMMA Induction ==
  ASSUME NEW S, 0 \in S, \A n \in Nat : n \in S => n + 1 \in S
  PROVE  Nat \subseteq S
<1> DEFINE T == {n \in Nat : n \notin S}
<1>1. ASSUME T # {} PROVE FALSE
  <2>1. IsWellFoundedOn(OpToRel(<, Nat), Nat)
    BY NatLessThanWellFounded
  <2>2. T \subseteq Nat
    OBVIOUS
  <2>3. PICK m \in T : \A y \in T : ~ (<<y, m>> \in OpToRel(<, Nat))
    BY <1>1, <2>1, <2>2, WFMin
  <2>4. \A y \in T : ~ (y < m)
    BY <2>3 DEF OpToRel
  <2>5. m \in Nat \ {0}
    OBVIOUS
  <2>6. m - 1 \in S
    BY <2>4, <2>5
  <2> QED
    BY <2>5, <2>6
<1> QED
  BY <1>1

Follows(f, N, a, s) == f[0] = a /\ \A n \in 1 .. N : f[n] = s[<<f[n - 1], n>>]

LEMMA RecursionExists ==
  ASSUME NEW N \in Nat, NEW X, NEW a \in X, NEW s \in [X \X (1 .. N) -> X]
  PROVE  \E f \in [0 .. N -> X] : Follows(f, N, a, s)
<1> DEFINE P(m, f) == f[0] = a /\ \A n \in 1 .. m : f[n] = s[<<f[n - 1], n>>]
           S == {m \in Nat : m <= N => \E f \in [0 .. m -> X] : P(m, f)}
<1>1. 0 \in S
  <2>1. P(0, [n \in 0 .. 0 |-> a])
    OBVIOUS
  <2> QED
    BY <2>1
<1>2. ASSUME NEW m \in Nat, m \in S PROVE m + 1 \in S
  <2> SUFFICES ASSUME m + 1 <= N PROVE \E f \in [0 .. m + 1 -> X] : P(m + 1, f)
    OBVIOUS
  <2>1. PICK f \in [0 .. m -> X] : P(m, f)
    BY <1>2
  <2> DEFINE g == [n \in 0 .. m + 1 |-> IF n = m + 1 THEN s[<<f[m], m + 1>>] ELSE f[n]]
  <2>2. g \in [0 .. m + 1 -> X]
    <3>1. s[<<f[m], m + 1>>] \in X
      OBVIOUS
    <3> QED
      BY <3>1
  <2>3. P(m + 1, g)
    <3>1. g[0] = a
      BY <2>1
    <3>2. ASSUME NEW n \in 1 .. m + 1 PROVE g[n] = s[<<g[n - 1], n>>]
      <4>1. CASE n = m + 1
        <5>1. g[n] = s[<<f[m], m + 1>>]
          BY <4>1
        <5>2. n - 1 = m /\ g[m] = f[m]
          BY <4>1
        <5> HIDE DEF g
        <5> QED
          BY <4>1, <5>1, <5>2, Zenon
      <4>2. CASE n # m + 1
        <5>1. n \in 1 .. m /\ n - 1 \in 0 .. m
          BY <4>2
        <5> QED
          BY <2>1, <5>1
      <4> QED
        BY <4>1, <4>2
    <3> QED
      BY <3>1, <3>2
  <2> QED
    BY <2>2, <2>3
<1>3. N \in S
  BY <1>1, <1>2, Induction
<1> QED
  BY <1>3 DEF Follows
-----------------------------------------------------------------------------
(* Words and the bytes of a file *)

LEMMA PowerPositive == \A n \in 0 .. 31 : 2^n \in Nat \ {0}
<1>1. \A n \in {0, 1, 2, 3} : 2^n \in Nat \ {0}
  <2>1. 2^0 \in Nat \ {0} /\ 2^1 \in Nat \ {0} /\ 2^2 \in Nat \ {0} /\ 2^3 \in Nat \ {0}
    OBVIOUS
  <2> QED
    BY <2>1, Zenon
<1>2. \A n \in {4, 5, 6, 7} : 2^n \in Nat \ {0}
  <2>1. 2^4 \in Nat \ {0} /\ 2^5 \in Nat \ {0} /\ 2^6 \in Nat \ {0} /\ 2^7 \in Nat \ {0}
    OBVIOUS
  <2> QED
    BY <2>1, Zenon
<1>3. \A n \in {8, 9, 10, 11} : 2^n \in Nat \ {0}
  <2>1. 2^8 \in Nat \ {0} /\ 2^9 \in Nat \ {0} /\ 2^10 \in Nat \ {0} /\ 2^11 \in Nat \ {0}
    OBVIOUS
  <2> QED
    BY <2>1, Zenon
<1>4. \A n \in {12, 13, 14, 15} : 2^n \in Nat \ {0}
  <2>1. 2^12 \in Nat \ {0} /\ 2^13 \in Nat \ {0} /\ 2^14 \in Nat \ {0} /\ 2^15 \in Nat \ {0}
    OBVIOUS
  <2> QED
    BY <2>1, Zenon
<1>5. \A n \in {16, 17, 18, 19} : 2^n \in Nat \ {0}
  <2>1. 2^16 \in Nat \ {0} /\ 2^17 \in Nat \ {0} /\ 2^18 \in Nat \ {0} /\ 2^19 \in Nat \ {0}
    OBVIOUS
  <2> QED
    BY <2>1, Zenon
<1>6. \A n \in {20, 21, 22, 23} : 2^n \in Nat \ {0}
  <2>1. 2^20 \in Nat \ {0} /\ 2^21 \in Nat \ {0} /\ 2^22 \in Nat \ {0} /\ 2^23 \in Nat \ {0}
    OBVIOUS
  <2> QED
    BY <2>1, Zenon
<1>7. \A n \in {24, 25, 26, 27} : 2^n \in Nat \ {0}
  <2>1. 2^24 \in Nat \ {0} /\ 2^25 \in Nat \ {0} /\ 2^26 \in Nat \ {0} /\ 2^27 \in Nat \ {0}
    OBVIOUS
  <2> QED
    BY <2>1, Zenon
<1>8. \A n \in {28, 29, 30, 31} : 2^n \in Nat \ {0}
  <2>1. 2^28 \in Nat \ {0} /\ 2^29 \in Nat \ {0} /\ 2^30 \in Nat \ {0} /\ 2^31 \in Nat \ {0}
    OBVIOUS
  <2> QED
    BY <2>1, Zenon
<1>9. ASSUME NEW n \in 0 .. 31
      PROVE  \/ n \in {0, 1, 2, 3} \/ n \in {4, 5, 6, 7} \/ n \in {8, 9, 10, 11} \/ n \in {12, 13, 14, 15}
             \/ n \in {16, 17, 18, 19} \/ n \in {20, 21, 22, 23} \/ n \in {24, 25, 26, 27} \/ n \in {28, 29, 30, 31}
  OBVIOUS
<1> QED
  BY <1>1, <1>2, <1>3, <1>4, <1>5, <1>6, <1>7, <1>8, <1>9, Zenon

LEMMA BigEndianType ==
  ASSUME NEW value \in Int, NEW n \in {1, 2, 4}
  PROVE  BigEndian(value, n) \in [1 .. n -> 0 .. 255]
<1>1. ASSUME NEW k \in 1 .. n PROVE (value \div 256^(n - k)) % 256 \in 0 .. 255
  <2>1. n - k = 0 \/ n - k = 1 \/ n - k = 2 \/ n - k = 3
    OBVIOUS
  <2>2. (value \div 256^0) % 256 \in 0 .. 255
    OBVIOUS
  <2>3. (value \div 256^1) % 256 \in 0 .. 255
    OBVIOUS
  <2>4. (value \div 256^2) % 256 \in 0 .. 255
    OBVIOUS
  <2>5. (value \div 256^3) % 256 \in 0 .. 255
    OBVIOUS
  <2> QED
    BY <2>1, <2>2, <2>3, <2>4, <2>5
<1> QED
  BY <1>1 DEF BigEndian

LEMMA SetFieldType ==
  ASSUME NEW w \in WordType, NEW first \in Nat, NEW width \in Nat, NEW value \in Int
  PROVE  SetField(w, first, width, value) \in WordType
<1>1. ASSUME NEW k \in Bits, k \in first .. first + width - 1
      PROVE  (value \div 2^(k - first)) % 2 \in {0, 1}
  <2>1. k - first \in 0 .. 31
    BY <1>1 DEF Bits
  <2> DEFINE power == 2^(k - first)
  <2>2. power \in Nat \ {0}
    BY <2>1, PowerPositive
  <2> HIDE DEF power
  <2>3. (value \div power) % 2 \in {0, 1}
    BY <2>2
  <2> QED
    BY <2>3 DEF power
<1> DEFINE bit(k) == (value \div 2^(k - first)) % 2
<1>2. SetField(w, first, width, value)
        = [k \in Bits |-> IF k \in first .. first + width - 1 THEN bit(k) ELSE w[k]]
  BY DEF SetField
<1>3. \A k \in Bits : k \in first .. first + width - 1 => bit(k) \in {0, 1}
  BY <1>1
<1> HIDE DEF bit
<1> QED
  BY <1>2, <1>3 DEF WordType

(***************************************************************************)
(* The recursive function inside GetField, bit by bit from the left.       *)
(***************************************************************************)
LEMMA FieldValue ==
  ASSUME NEW w \in WordType, NEW first \in Nat, NEW width \in Nat, first + width <= 32
  PROVE  \E f \in [0 .. width -> Nat] :
           /\ f[0] = 0
           /\ \A k \in 1 .. width : f[k] = 2 * f[k - 1] + w[first + width - k]
           /\ GetField(w, first, width) = f[width]
<1> DEFINE Shifted(v) == [k \in 0 .. width |-> IF k = 0 THEN 0 ELSE 2 * v[k - 1] + w[first + width - k]]
           value == CHOOSE v : v = Shifted(v)
           s == [p \in Nat \X (1 .. width) |-> 2 * p[1] + w[first + width - p[2]]]
<1>1. \A k \in 1 .. width : w[first + width - k] \in {0, 1}
  BY DEF WordType, Bits
<1>2. s \in [Nat \X (1 .. width) -> Nat]
  <2>1. ASSUME NEW p \in Nat \X (1 .. width) PROVE 2 * p[1] + w[first + width - p[2]] \in Nat
    <3>1. p[1] \in Nat /\ w[first + width - p[2]] \in Nat
      BY <1>1
    <3> QED
      BY <3>1
  <2> QED
    BY <2>1
<1>3. PICK f \in [0 .. width -> Nat] : Follows(f, width, 0, s)
  <2> HIDE DEF s
  <2> QED
    BY <1>2, RecursionExists
<1>4. /\ f[0] = 0
      /\ \A k \in 1 .. width : f[k] = 2 * f[k - 1] + w[first + width - k]
  <2>1. f[0] = 0
    BY <1>3 DEF Follows
  <2>2. ASSUME NEW k \in 1 .. width PROVE f[k] = 2 * f[k - 1] + w[first + width - k]
    <3>1. f[k] = s[<<f[k - 1], k>>]
      BY <1>3 DEF Follows
    <3>2. f[k - 1] \in Nat
      OBVIOUS
    <3> QED
      BY <3>1, <3>2
  <2> QED
    BY <2>1, <2>2
<1>5. f = Shifted(f)
  BY <1>4
<1>6. value = Shifted(value)
  BY <1>5
<1>7. \A k \in 0 .. width : k \in Nat => value[k] = f[k]
  <2> DEFINE S == {k \in Nat : k \in 0 .. width => value[k] = f[k]}
  <2> HIDE DEF value
  <2>1. 0 \in S
    BY <1>4, <1>6
  <2>2. ASSUME NEW k \in Nat, k \in S PROVE k + 1 \in S
    <3> SUFFICES ASSUME k + 1 \in 0 .. width PROVE value[k + 1] = f[k + 1]
      OBVIOUS
    <3>1. value[k] = f[k]
      BY <2>2
    <3>2. value[k + 1] = 2 * value[k] + w[first + width - (k + 1)]
      BY <1>6
    <3> QED
      BY <1>4, <3>1, <3>2
  <2>3. Nat \subseteq S
    <3> HIDE DEF S
    <3> QED
      BY <2>1, <2>2, Induction
  <2> QED
    BY <2>3
<1>8. GetField(w, first, width) = value[width]
  BY DEF GetField
<1>9. GetField(w, first, width) = f[width]
  <2> HIDE DEF value
  <2> QED
    BY <1>7, <1>8
<1> QED
  BY <1>3, <1>4, <1>9

LEMMA WordBytesType ==
  ASSUME NEW w \in WordType
  PROVE  WordBytes(w) \in [1 .. 4 -> 0 .. 255]
<1>1. ASSUME NEW first \in {0, 8, 16, 24} PROVE GetField(w, first, 8) \in 0 .. 255
  <2>1. first \in Nat /\ 8 \in Nat /\ first + 8 <= 32
    OBVIOUS
  <2>2. PICK f \in [0 .. 8 -> Nat] :
          /\ f[0] = 0
          /\ \A k \in 1 .. 8 : f[k] = 2 * f[k - 1] + w[first + 8 - k]
          /\ GetField(w, first, 8) = f[8]
    BY <2>1, FieldValue, Zenon
  <2>3. ASSUME NEW k \in 1 .. 8 PROVE f[k] <= 2 * f[k - 1] + 1
    <3>1. first + 8 - k \in Bits
      BY <2>1 DEF Bits
    <3>2. w[first + 8 - k] \in {0, 1}
      BY <3>1 DEF WordType
    <3>3. f[k - 1] \in Nat
      OBVIOUS
    <3> QED
      BY <2>2, <3>2, <3>3
  <2> DEFINE Step(k) == f[k] <= 2 * f[k - 1] + 1
  <2>4. f[1] <= 1 /\ f[2] <= 3 /\ f[3] <= 7
    <3>1. Step(1) /\ Step(2) /\ Step(3)
      BY <2>3
    <3> QED
      BY <2>2, <3>1
  <2>5. f[4] <= 15 /\ f[5] <= 31 /\ f[6] <= 63
    <3>1. Step(4) /\ Step(5) /\ Step(6)
      BY <2>3
    <3> QED
      BY <2>4, <3>1
  <2>6. f[7] <= 127 /\ f[8] <= 255
    <3>1. Step(7) /\ Step(8)
      BY <2>3
    <3> QED
      BY <2>5, <3>1
  <2> QED
    BY <2>2, <2>6
<1> QED
  BY <1>1 DEF WordBytes

LEMMA BytesOfType ==
  ASSUME NEW words \in Seq(WordType)
  PROVE  BytesOf(words) \in Seq(0 .. 255) /\ Len(BytesOf(words)) = 4 * Len(words)
<1>1. ASSUME NEW b \in 1 .. 4 * Len(words)
      PROVE  WordBytes(words[(b + 3) \div 4])[1 + ((b - 1) % 4)] \in 0 .. 255
  <2>1. (b + 3) \div 4 \in 1 .. Len(words) /\ 1 + ((b - 1) % 4) \in 1 .. 4
    OBVIOUS
  <2>2. words[(b + 3) \div 4] \in WordType
    BY <2>1
  <2> QED
    BY <2>1, <2>2, WordBytesType
<1> QED
  BY <1>1 DEF BytesOf
-----------------------------------------------------------------------------
(* The encoders of the four targets *)

LEMMA SettersType ==
  ASSUME NEW w \in WordType, NEW v \in Int
  PROVE  /\ SetOp(w, v) \in WordType /\ SetDisp30(w, v) \in WordType /\ SetRd(w, v) \in WordType
         /\ SetOp2(w, v) \in WordType /\ SetImm22(w, v) \in WordType /\ SetOp3(w, v) \in WordType
         /\ SetRs1(w, v) \in WordType /\ SetRs2(w, v) \in WordType /\ SetSimm13(w, v) \in WordType
         /\ SetCC(w, v) \in WordType /\ SetA(w, v) \in WordType
         /\ SelSetType(w, v) \in WordType /\ SelSetIcc(w, v) \in WordType
         /\ SelSetRs1(w, v) \in WordType /\ SelSetRs2(w, v) \in WordType
         /\ SelSetSimm11(w, v) \in WordType
         /\ SelSetSrc1Imm8(w, v) \in WordType /\ SelSetSrc2Imm8(w, v) \in WordType
         /\ PredSetType(w, v) \in WordType /\ PredSetIcc(w, v) \in WordType /\ PredSetTf(w, v) \in WordType
<1>1. \A first, width \in Nat : SetField(w, first, width, v) \in WordType
  BY SetFieldType
<1>2. SetRs2(w, v) \in WordType /\ SetSimm13(w, v) \in WordType
  BY <1>1, SetFieldType DEF SetRs2, SetSimm13
<1> QED
  BY <1>1, <1>2 DEF SetOp, SetDisp30, SetRd, SetOp2, SetImm22, SetOp3, SetRs1, SetCC, SetA,
       SelSetType, SelSetIcc, SelSetRs1, SelSetRs2, SelSetSimm11, SelSetSrc1Imm8, SelSetSrc2Imm8,
       PredSetType, PredSetIcc, PredSetTf

LEMMA OpcodeWordType ==
  ASSUME NEW op
  PROVE  /\ V8OpcodeWord(op) \in WordType /\ MovccOpcodeWord(op) \in WordType
         /\ SelccOpcodeWord(op) \in WordType /\ PregOpcodeWord(op) \in WordType
<1>1. ZeroWord \in WordType
  BY DEF ZeroWord, WordType
<1>2. \A v, v2 \in Int : SetOp(ZeroWord, v) \in WordType /\ FormatWord(v, v2) \in WordType
  BY <1>1, SettersType DEF FormatWord
<1>3. /\ Op2BICC \in Int /\ Op2SETHI \in Int /\ Op2SIMCYCLES \in Int /\ Op2HWLOOP \in Int
      /\ Op2MOVCC \in Int /\ Op2SELCC \in Int /\ Op2PREDBLOCKS \in Int
  BY DEF Op2BICC, Op2SETHI, Op2SIMCYCLES, Op2HWLOOP, Op2MOVCC, Op2SELCC, Op2PREDBLOCKS
<1>4. ASSUME op \in DOMAIN Op3Memory PROVE Op3Memory[op] \in Int
  BY <1>4 DEF Op3Memory
<1>5. ASSUME op \in DOMAIN Op3Other PROVE Op3Other[op] \in Int
  BY <1>5 DEF Op3Other
<1>6. V8OpcodeWord(op) \in WordType
  <2>1. SetRd(FormatWord(0, Op2SIMCYCLES), 0) \in WordType /\ SetRd(FormatWord(0, Op2SIMCYCLES), 1) \in WordType
    BY <1>2, <1>3, SettersType
  <2>2. op \in DOMAIN Op3Memory => SetOp3(SetOp(ZeroWord, 3), Op3Memory[op]) \in WordType
    BY <1>2, <1>4, SettersType
  <2>3. op \in DOMAIN Op3Other => SetOp3(SetOp(ZeroWord, 2), Op3Other[op]) \in WordType
    BY <1>2, <1>5, SettersType
  <2>4. FormatWord(0, Op2SETHI) \in WordType /\ FormatWord(0, Op2BICC) \in WordType /\ SetOp(ZeroWord, 1) \in WordType
    BY <1>2, <1>3
  <2> QED
    BY <1>1, <2>1, <2>2, <2>3, <2>4 DEF V8OpcodeWord
<1>7. /\ FormatWord(0, Op2HWLOOP) \in WordType /\ FormatWord(0, Op2MOVCC) \in WordType
      /\ FormatWord(0, Op2SELCC) \in WordType /\ FormatWord(0, Op2PREDBLOCKS) \in WordType
  BY <1>2, <1>3
<1> QED
  BY <1>6, <1>7 DEF MovccOpcodeWord, SelccOpcodeWord, PregOpcodeWord

(***************************************************************************)
(* What stands behind an opcode once the labels are addresses.             *)
(***************************************************************************)
Number(type) == OperandsOf(type, Int)
AddressOperands == Number("LABEL_ADDRESS")
ExtensionOps == {"MOV", "SEL", "HWLOOP_INIT", "HWLOOP_START", "PREDBEGIN", "PREDEND", "PREDSET", "PREDCLEAR"}
CycleOps == {"CYCLE_PRINT", "CYCLE_CLEAR"}

LEMMA ResolvedShape ==
  ASSUME NEW i, IsResolved(i)
  PROVE  /\ i = [op |-> i.op, operands |-> i.operands] /\ i.op \in Opcodes
         /\ i.operands \in OperandLists(i.op, AddressOperands, {})
<1>1. PICK op \in Opcodes :
        i \in [op : {op}, operands : OperandLists(op, OperandsOf("LABEL_ADDRESS", Int), {})]
  BY DEF IsResolved
<1> QED
  BY <1>1 DEF AddressOperands, Number

LEMMA NoLabels == OperandsOf("HI_LABEL", {}) = {} /\ OperandsOf("LOW_LABEL", {}) = {}
BY DEF OperandsOf

LEMMA V8Operands ==
  ASSUME NEW op, NEW o \in OperandLists(op, AddressOperands, {})
  PROVE  /\ op = "CALL"   => o \in [1 .. 1 -> AddressOperands]
         /\ op = "BRANCH" => o \in AddressOperands \X ConditionOperands
         /\ op = "SETHI"  => o \in RegisterOperands \X Number("IMM22")
         /\ op = "RD"     => o \in RegisterOperands \X OperandsOf("REGISTER", {0})
         /\ op \in CycleOps => o = << >>
         /\ op \notin {"CALL", "BRANCH", "SETHI", "RD"} \cup CycleOps \cup ExtensionOps
              => o \in RegisterOperands \X RegisterOperands \X (RegisterOperands \cup Number("SIMM13"))
BY NoLabels DEF OperandLists, Number, CycleOps, ExtensionOps

LEMMA ExtensionOperands ==
  ASSUME NEW op, NEW o \in OperandLists(op, AddressOperands, {})
  PROVE  /\ op = "MOV" => o \in RegisterOperands \X RegisterOperands \X ConditionOperands
         /\ op = "SEL" =>
              \/ o \in RegisterOperands \X RegisterOperands \X (RegisterOperands \cup Number("SIMM11")) \X ConditionOperands
              \/ o \in RegisterOperands \X Number("SIMM8") \X Number("SIMM8") \X ConditionOperands
         /\ op = "HWLOOP_INIT" =>
              \/ o \in OperandsOf("LOOP_REG", {LoopS, LoopE}) \X AddressOperands
              \/ o \in OperandsOf("LOOP_REG", {LoopB}) \X (RegisterOperands \cup Number("IMM22"))
         /\ op \in {"HWLOOP_START", "PREDEND"} => o = << >>
         /\ op = "PREDBEGIN" => \/ o \in [1 .. 1 -> ConditionOperands]
                                \/ o \in PredicateOperands \X OperandsOf("TF", {0, 1})
         /\ op = "PREDSET"   => \/ o \in [1 .. 1 -> PredicateOperands]
                                \/ o \in PredicateOperands \X ConditionOperands
         /\ op = "PREDCLEAR" => o \in [1 .. 1 -> PredicateOperands]
BY DEF OperandLists, Number, ExtensionOps

LEMMA OperandKinds ==
  /\ \A o \in RegisterOperands : o.type = "REGISTER" /\ o.value \in 0 .. 31
  /\ \A o \in ConditionOperands : o.type = "ICC" /\ o.value \in 0 .. 15
  /\ \A o \in PredicateOperands : o.type = "PREG" /\ o.value \in 0 .. 15
  /\ \A o \in AddressOperands : o.type = "LABEL_ADDRESS" /\ o.value \in Int
  /\ \A type : \A o \in Number(type) : o.type = type /\ o.value \in Int
  /\ \A o \in OperandsOf("REGISTER", {0}) : o.type = "REGISTER" /\ o.value = 0
  /\ \A o \in OperandsOf("TF", {0, 1}) : o.type = "TF" /\ o.value \in {0, 1}
BY DEF RegisterOperands, ConditionOperands, PredicateOperands, AddressOperands, Number, OperandsOf

LEMMA V8OperandsType ==
  ASSUME NEW w \in WordType, NEW op, NEW o \in OperandLists(op, AddressOperands, {}),
         NEW instrNumber \in Int, op \notin ExtensionOps
  PROVE  V8WithOperands(w, op, o, instrNumber) \in WordType
<1>1. CASE op = "CALL"
  <2>1. o[1].value - instrNumber \in Int
    BY <1>1, V8Operands, OperandKinds
  <2> QED
    BY <1>1, <2>1, SettersType DEF V8WithOperands
<1>2. CASE op = "BRANCH"
  <2>1. o[1].value - instrNumber \in Int /\ o[2].value \in Int
    <3>1. o \in AddressOperands \X ConditionOperands
      BY <1>2, V8Operands
    <3>2. o[1] \in AddressOperands /\ o[2] \in ConditionOperands
      BY <3>1
    <3> QED
      BY <3>2, OperandKinds
  <2>2. SetCC(SetImm22(w, o[1].value - instrNumber), o[2].value) \in WordType
    BY <2>1, SettersType
  <2> QED
    BY <1>2, <2>2, SettersType DEF V8WithOperands
<1>3. CASE op = "SETHI"
  <2>1. o[1].value \in Int /\ o[2].value \in Int
    <3>1. o \in RegisterOperands \X Number("IMM22")
      BY <1>3, V8Operands
    <3>2. o[1] \in RegisterOperands /\ o[2] \in Number("IMM22")
      BY <3>1
    <3> QED
      BY <3>2, OperandKinds
  <2> QED
    BY <1>3, <2>1, SettersType DEF V8WithOperands
<1>4. CASE op = "RD"
  <2>1. o[1].value \in Int /\ o[2].value \in Int
    <3>1. o \in RegisterOperands \X OperandsOf("REGISTER", {0})
      BY <1>4, V8Operands
    <3>2. o[1] \in RegisterOperands /\ o[2] \in OperandsOf("REGISTER", {0})
      BY <3>1
    <3> QED
      BY <3>2, OperandKinds
  <2> QED
    BY <1>4, <2>1, SettersType DEF V8WithOperands
<1>5. CASE op \in CycleOps
  BY <1>5 DEF V8WithOperands, CycleOps
<1>6. CASE op \notin {"CALL", "BRANCH", "SETHI", "RD"} \cup CycleOps
  <2>1. o[1].value \in Int /\ o[2].value \in Int /\ o[3].value \in Int
    <3>1. o \in RegisterOperands \X RegisterOperands \X (RegisterOperands \cup Number("SIMM13"))
      BY <1>6, V8Operands
    <3>2. o[1] \in RegisterOperands /\ o[2] \in RegisterOperands /\ o[3] \in RegisterOperands \cup Number("SIMM13")
      BY <3>1
    <3> QED
      BY <3>2, OperandKinds
  <2>2. SetRs1(SetRd(w, o[1].value), o[2].value) \in WordType
    BY <2>1, SettersType
  <2>3. WithThreeOperands(w, o) \in WordType
    BY <2>1, <2>2, SettersType DEF WithThreeOperands
  <2> QED
    BY <1>6, <2>3 DEF V8WithOperands, CycleOps
<1> QED
  BY <1>1, <1>2, <1>3, <1>4, <1>5, <1>6

LEMMA LoopInitType ==
  ASSUME NEW w \in WordType, NEW o \in OperandLists("HWLOOP_INIT", AddressOperands, {}),
         NEW instrNumber \in Int
  PROVE  WithLoopInit(w, o, instrNumber) \in WordType
<1>1. CASE o \in OperandsOf("LOOP_REG", {LoopS, LoopE}) \X AddressOperands
  <2>1. o[1].value \in {LoopS, LoopE} /\ o[2].value - instrNumber \in Int
    <3>1. o[1] \in OperandsOf("LOOP_REG", {LoopS, LoopE}) /\ o[2] \in AddressOperands
      BY <1>1
    <3>2. o[2].value \in Int
      BY <3>1, OperandKinds
    <3> QED
      BY <3>1, <3>2 DEF OperandsOf
  <2>2. /\ SetImm22(SetRd(w, LoopTypeS), o[2].value - instrNumber) \in WordType
        /\ SetImm22(SetRd(w, LoopTypeE), o[2].value - instrNumber) \in WordType
    <3>1. SetRd(w, LoopTypeS) \in WordType /\ SetRd(w, LoopTypeE) \in WordType
      BY SettersType DEF LoopTypeS, LoopTypeE
    <3> QED
      BY <2>1, <3>1, SettersType
  <2> QED
    BY <2>1, <2>2 DEF WithLoopInit, LoopS, LoopE, LoopB
<1>2. CASE o \in OperandsOf("LOOP_REG", {LoopB}) \X (RegisterOperands \cup Number("IMM22"))
  <2>1. o[1].value = LoopB /\ o[2] \in RegisterOperands \cup Number("IMM22")
    <3>1. o[1] \in OperandsOf("LOOP_REG", {LoopB}) /\ o[2] \in RegisterOperands \cup Number("IMM22")
      BY <1>2
    <3> QED
      BY <3>1 DEF OperandsOf
  <2>2. o[2].value \in Int /\ o[2].type \in {"REGISTER", "IMM22"}
    BY <2>1, OperandKinds
  <2>3. /\ SetRs1(SetRd(w, LoopTypeReg), o[2].value) \in WordType
        /\ SetImm22(SetRd(w, LoopTypeImm), o[2].value) \in WordType
    <3>1. SetRd(w, LoopTypeReg) \in WordType /\ SetRd(w, LoopTypeImm) \in WordType
      BY SettersType DEF LoopTypeReg, LoopTypeImm
    <3> QED
      BY <2>2, <3>1, SettersType
  <2> QED
    BY <2>1, <2>2, <2>3 DEF WithLoopInit, LoopS, LoopE, LoopB
<1> QED
  BY <1>1, <1>2, ExtensionOperands

LEMMA SelType ==
  ASSUME NEW w \in WordType, NEW o \in OperandLists("SEL", AddressOperands, {})
  PROVE  WithSel(w, o) \in WordType
<1>1. o[1].value \in Int /\ o[2].value \in Int /\ o[3].value \in Int /\ o[4].value \in Int
  <2>1. CASE o \in RegisterOperands \X RegisterOperands \X (RegisterOperands \cup Number("SIMM11")) \X ConditionOperands
    <3>1. /\ o[1] \in RegisterOperands /\ o[2] \in RegisterOperands
          /\ o[3] \in RegisterOperands \cup Number("SIMM11") /\ o[4] \in ConditionOperands
      BY <2>1
    <3> QED
      BY <3>1, OperandKinds
  <2>2. CASE o \in RegisterOperands \X Number("SIMM8") \X Number("SIMM8") \X ConditionOperands
    <3>1. /\ o[1] \in RegisterOperands /\ o[2] \in Number("SIMM8")
          /\ o[3] \in Number("SIMM8") /\ o[4] \in ConditionOperands
      BY <2>2
    <3> QED
      BY <3>1, OperandKinds
  <2> QED
    BY <2>1, <2>2, ExtensionOperands
<1>2. SelSetIcc(SetRd(w, o[1].value), o[4].value) \in WordType
  BY <1>1, SettersType
<1>3. ASSUME NEW placed \in WordType, NEW v2 \in Int, NEW v3 \in Int
      PROVE  /\ SelSetSimm11(SelSetType(SelSetRs1(placed, v2), 1), v3) \in WordType
             /\ SelSetRs2(SelSetType(SelSetRs1(placed, v2), 0), v3) \in WordType
             /\ SelSetSrc2Imm8(SelSetSrc1Imm8(SelSetType(placed, 2), v2), v3) \in WordType
  <2>1. SelSetRs1(placed, v2) \in WordType /\ SelSetType(placed, 2) \in WordType
    BY SettersType
  <2>2. /\ SelSetType(SelSetRs1(placed, v2), 1) \in WordType
        /\ SelSetType(SelSetRs1(placed, v2), 0) \in WordType
        /\ SelSetSrc1Imm8(SelSetType(placed, 2), v2) \in WordType
    <3>1. SelSetType(SelSetRs1(placed, v2), 1) \in WordType
      BY <2>1, SettersType
    <3>2. SelSetType(SelSetRs1(placed, v2), 0) \in WordType
      BY <2>1, SettersType
    <3>3. SelSetSrc1Imm8(SelSetType(placed, 2), v2) \in WordType
      BY <2>1, SettersType
    <3> QED
      BY <3>1, <3>2, <3>3
  <2>3. SelSetSimm11(SelSetType(SelSetRs1(placed, v2), 1), v3) \in WordType
    BY <2>2, SettersType
  <2>4. SelSetRs2(SelSetType(SelSetRs1(placed, v2), 0), v3) \in WordType
    BY <2>2, SettersType
  <2>5. SelSetSrc2Imm8(SelSetSrc1Imm8(SelSetType(placed, 2), v2), v3) \in WordType
    BY <2>2, SettersType
  <2> QED
    BY <2>3, <2>4, <2>5
<1> QED
  BY <1>1, <1>2, <1>3 DEF WithSel

LEMMA MovType ==
  ASSUME NEW w \in WordType, NEW o \in OperandLists("MOV", AddressOperands, {})
  PROVE  WithMov(w, o) \in WordType
<1>1. o[1] \in RegisterOperands /\ o[2] \in RegisterOperands /\ o[3] \in ConditionOperands
  BY ExtensionOperands
<1>2. o[1].value \in Int /\ o[2].value \in Int /\ o[3].value \in Int
  BY <1>1, OperandKinds
<1>3. SetRs1(SetRs2(w, o[1].value), o[2].value) \in WordType
  BY <1>2, SettersType
<1> QED
  BY <1>2, <1>3, SettersType DEF WithMov

LEMMA BlockIccType ==
  ASSUME NEW w \in WordType, NEW op \in {"PREDBEGIN", "PREDEND"},
         NEW o \in OperandLists(op, AddressOperands, {})
  PROVE  WithBlockIcc(w, op, o) \in WordType
<1>1. SetA(w, 0) \in WordType /\ SetA(w, 1) \in WordType
  BY SettersType
<1>2. ASSUME op = "PREDBEGIN" PROVE o[1].value \in Int
  <2>1. o[1] \in ConditionOperands \cup PredicateOperands
    BY <1>2, ExtensionOperands
  <2> QED
    BY <2>1, OperandKinds
<1> QED
  BY <1>1, <1>2, SettersType DEF WithBlockIcc

\* on the target with predicate registers, a block begins with one of them
LEMMA BlockPregType ==
  ASSUME NEW w \in WordType, NEW op \in PredicationOps,
         NEW o \in OperandLists(op, AddressOperands, {}),
         op = "PREDBEGIN" => o[1].type # "ICC"
  PROVE  WithBlockPreg(w, op, o) \in WordType
<1>1. /\ BlockBegin \in Int /\ BlockEnd \in Int /\ BlockSet \in Int
      /\ CCNever \in Int /\ CCAlways \in Int
  BY DEF BlockBegin, BlockEnd, BlockSet, CCNever, CCAlways
<1>2. \A v \in Int : PredSetType(w, v) \in WordType
  BY SettersType
<1>3. CASE op = "PREDEND"
  BY <1>1, <1>2, <1>3 DEF WithBlockPreg
<1>4. CASE op = "PREDBEGIN"
  <2>1. o[1] \in PredicateOperands /\ o[2] \in OperandsOf("TF", {0, 1})
    BY <1>4, ExtensionOperands, OperandKinds
  <2>2. o[1].value \in Int /\ o[2].value \in Int
    BY <2>1, OperandKinds
  <2>3. SetRs2(PredSetType(w, BlockBegin), o[1].value) \in WordType
    BY <1>1, <1>2, <2>2, SettersType
  <2> QED
    BY <1>4, <2>2, <2>3, SettersType DEF WithBlockPreg
<1>5. CASE op = "PREDCLEAR"
  <2>1. o[1].value \in Int
    BY <1>5, ExtensionOperands, OperandKinds
  <2>2. PredSetIcc(PredSetType(w, BlockSet), CCNever) \in WordType
    BY <1>1, <1>2, SettersType
  <2> QED
    BY <1>5, <2>1, <2>2, SettersType DEF WithBlockPreg
<1>6. CASE op = "PREDSET"
  <2>1. o[1].value \in Int /\ (Len(o) # 1 => o[2].value \in Int)
    <3>1. CASE o \in [1 .. 1 -> PredicateOperands]
      BY <3>1, OperandKinds
    <3>2. CASE o \in PredicateOperands \X ConditionOperands
      <4>1. o[1] \in PredicateOperands /\ o[2] \in ConditionOperands
        BY <3>2
      <4> QED
        BY <4>1, OperandKinds
    <3> QED
      BY <1>6, <3>1, <3>2, ExtensionOperands
  <2>2. SetRd(PredSetType(w, BlockSet), o[1].value) \in WordType
    BY <1>1, <1>2, <2>1, SettersType
  <2>3. (IF Len(o) = 1 THEN CCAlways ELSE o[2].value) \in Int
    BY <1>1, <2>1
  <2> QED
    BY <1>6, <2>2, <2>3, SettersType DEF WithBlockPreg
<1> QED
  BY <1>3, <1>4, <1>5, <1>6 DEF PredicationOps

(***************************************************************************)
(* An instruction that its target supports and that printInstructions      *)
(* survives is a word.                                                     *)
(***************************************************************************)
LEMMA EncodedType ==
  ASSUME NEW t \in Targets, NEW i, IsResolved(i), NEW guard, Supported(t, i, guard), Encodable(t, i),
         NEW instrNumber \in Int
  PROVE  Encoded(t, i, instrNumber) \in WordType
<1> DEFINE op == i.op
           o == i.operands
<1>1. op \in Opcodes /\ o \in OperandLists(op, AddressOperands, {})
  BY ResolvedShape
<1>2. /\ op = "MOV" => t \in HasMovCC
      /\ op = "SEL" => t \in HasSelCC
      /\ op \in {"HWLOOP_INIT", "HWLOOP_START"} => t \in HasHWLoops
      /\ op = "PREDBEGIN" => t \in IF o[1].type = "ICC" THEN HasPredBlocksCC ELSE HasPredBlocksReg
      /\ op \in {"PREDSET", "PREDCLEAR"} => t \in HasPredBlocksReg
  BY DEF Supported, HasPredInstrsReg
<1> DEFINE V8(w) == op \notin ExtensionOps => V8WithOperands(w, op, o, instrNumber) \in WordType
           Loop(w) == /\ op = "HWLOOP_INIT" => WithLoopInit(w, o, instrNumber) \in WordType
                      /\ SetRd(w, LoopTypeStart) \in WordType
           Sel(w) == op = "SEL" => WithSel(w, o) \in WordType
           Mov(w) == op = "MOV" => WithMov(w, o) \in WordType
           Icc(w) == op \in {"PREDBEGIN", "PREDEND"} => WithBlockIcc(w, op, o) \in WordType
           Blocks(w) == op \in PredicationOps /\ (op = "PREDBEGIN" => o[1].type # "ICC")
                          => WithBlockPreg(w, op, o) \in WordType
<1>3. ASSUME NEW w \in WordType
      PROVE  V8(w) /\ Loop(w) /\ Sel(w) /\ Mov(w) /\ Icc(w) /\ Blocks(w)
  <2>1. V8(w)
    BY <1>1, V8OperandsType
  <2>2. Loop(w)
    <3>1. SetRd(w, LoopTypeStart) \in WordType
      BY SettersType DEF LoopTypeStart
    <3>2. op = "HWLOOP_INIT" => WithLoopInit(w, o, instrNumber) \in WordType
      BY <1>1, LoopInitType
    <3> QED
      BY <3>1, <3>2
  <2>3. Sel(w) /\ Mov(w)
    BY <1>1, SelType, MovType
  <2>4. Icc(w)
    BY <1>1, BlockIccType
  <2>5. Blocks(w)
    BY <1>1, BlockPregType
  <2> QED
    BY <2>1, <2>2, <2>3, <2>4, <2>5
<1> HIDE DEF op, o
<1>4. CASE t = "v8"
  <2>1. op \notin ExtensionOps
    <3>1. op \notin ExtensionOps \ {"PREDEND"}
      BY <1>2, <1>4 DEF ExtensionOps, HasMovCC, HasSelCC, HasHWLoops, HasPredBlocksCC, HasPredBlocksReg
    <3>2. op # "PREDEND"
      <4>1. op = "PREDEND" => Len(o) = 0
        BY <1>1, ExtensionOperands
      <4> QED
        BY <1>4, <4>1 DEF Encodable, V8Encodable, op, o
    <3> QED
      BY <3>1, <3>2
  <2> QED
    BY <1>3, <1>4, <2>1, OpcodeWordType DEF Encoded, op, o
<1>5. CASE t = "v8-blockicc-movcc"
  <2>1. op \notin {"SEL", "PREDSET", "PREDCLEAR"}
    BY <1>2, <1>5 DEF HasSelCC, HasPredBlocksReg
  <2> DEFINE w == MovccOpcodeWord(op)
  <2>2. w \in WordType
    BY OpcodeWordType
  <2> HIDE DEF w
  <2>3. MovccWithOperands(w, op, o, instrNumber) \in WordType
    BY <1>3, <2>1, <2>2 DEF MovccWithOperands, ExtensionOps
  <2> QED
    BY <1>5, <2>3 DEF Encoded, op, o, w
<1>6. CASE t = "v8-blockicc-selcc"
  <2>1. op \notin {"MOV", "PREDSET", "PREDCLEAR"}
    BY <1>2, <1>6 DEF HasMovCC, HasPredBlocksReg
  <2> DEFINE w == SelccOpcodeWord(op)
  <2>2. w \in WordType
    BY OpcodeWordType
  <2> HIDE DEF w
  <2>3. SelccWithOperands(w, op, o, instrNumber) \in WordType
    BY <1>3, <2>1, <2>2 DEF SelccWithOperands, ExtensionOps
  <2> QED
    BY <1>6, <2>3 DEF Encoded, op, o, w
<1>7. CASE t = "v8-blockpreg-selcc"
  <2>1. op # "MOV" /\ (op = "PREDBEGIN" => o[1].type # "ICC")
    BY <1>2, <1>7 DEF HasMovCC, HasPredBlocksCC
  <2> DEFINE w == PregOpcodeWord(op)
  <2>2. w \in WordType
    BY OpcodeWordType
  <2> HIDE DEF w
  <2>3. PregWithOperands(w, op, o, instrNumber) \in WordType
    BY <1>3, <2>1, <2>2 DEF PregWithOperands, ExtensionOps, PredicationOps
  <2> QED
    BY <1>7, <2>3 DEF Encoded, op, o, w
<1> QED
  BY <1>4, <1>5, <1>6, <1>7 DEF Targets
-----------------------------------------------------------------------------
(* Positions in a source, counted from its beginning *)

IsSource(s) == s \in Seq(Range(s)) /\ \A n \in DOMAIN s : IsStatement(s[n], Labels)

\* the number of statements of some kinds before n, and the k-th of them
Count(s, n, kinds) == Cardinality(Before(s, n, kinds))
Nth(s, k, kinds) == CHOOSE n \in Positions(s, kinds) : Count(s, n, kinds) = k - 1

LEMMA SourceLength ==
  ASSUME NEW s, IsSource(s)
  PROVE  Len(s) \in Nat /\ DOMAIN s = 1 .. Len(s)
BY DEF IsSource

LEMMA BeforeStep ==
  ASSUME NEW s, IsSource(s), NEW kinds
  PROVE  /\ Before(s, 1, kinds) = {}
         /\ \A n \in 1 .. Len(s) + 1 : IsFiniteSet(Before(s, n, kinds))
         /\ \A n \in 1 .. Len(s) :
              /\ n \notin Before(s, n, kinds)
              /\ Before(s, n + 1, kinds) =
                   IF s[n].kind \in kinds THEN Before(s, n, kinds) \cup {n} ELSE Before(s, n, kinds)
<1>1. Len(s) \in Nat /\ DOMAIN s = 1 .. Len(s)
  BY SourceLength
<1>2. \A n : Before(s, n, kinds) = {m \in 1 .. Len(s) : s[m].kind \in kinds /\ m < n}
  BY <1>1 DEF Before, Positions
<1>3. ASSUME NEW n \in 1 .. Len(s) + 1 PROVE IsFiniteSet(Before(s, n, kinds))
  <2>1. Before(s, n, kinds) \in SUBSET (1 .. Len(s))
    BY <1>2
  <2>2. IsFiniteSet(1 .. Len(s))
    BY <1>1, FS_Interval
  <2> QED
    BY <2>1, <2>2, FS_Subset
<1>4. ASSUME NEW n \in 1 .. Len(s)
      PROVE  Before(s, n + 1, kinds) =
               IF s[n].kind \in kinds THEN Before(s, n, kinds) \cup {n} ELSE Before(s, n, kinds)
  <2>1. \A m \in 1 .. Len(s) : m < n + 1 <=> m < n \/ m = n
    BY <1>1
  <2> QED
    BY <1>1, <1>2, <2>1
<1>5. Before(s, 1, kinds) = {} /\ \A n \in 1 .. Len(s) : n \notin Before(s, n, kinds)
  BY <1>1, <1>2
<1> QED
  BY <1>3, <1>4, <1>5

LEMMA CountStep ==
  ASSUME NEW s, IsSource(s), NEW kinds
  PROVE  /\ Count(s, 1, kinds) = 0
         /\ \A n \in 1 .. Len(s) + 1 : Count(s, n, kinds) \in Nat
         /\ \A n \in 1 .. Len(s) :
              Count(s, n + 1, kinds) = Count(s, n, kinds) + IF s[n].kind \in kinds THEN 1 ELSE 0
<1>1. Count(s, 1, kinds) = 0
  BY BeforeStep, FS_EmptySet DEF Count
<1>2. ASSUME NEW n \in 1 .. Len(s) + 1 PROVE Count(s, n, kinds) \in Nat
  BY BeforeStep, FS_CardinalityType DEF Count
<1>3. ASSUME NEW n \in 1 .. Len(s)
      PROVE  Count(s, n + 1, kinds) = Count(s, n, kinds) + IF s[n].kind \in kinds THEN 1 ELSE 0
  <2>1. n \in 1 .. Len(s) + 1
    BY SourceLength
  <2>2. IsFiniteSet(Before(s, n, kinds)) /\ n \notin Before(s, n, kinds)
    BY <2>1, BeforeStep
  <2>3. Cardinality(Before(s, n, kinds) \cup {n}) = Cardinality(Before(s, n, kinds)) + 1
    BY <2>2, FS_AddElement
  <2>4. Before(s, n + 1, kinds) =
          IF s[n].kind \in kinds THEN Before(s, n, kinds) \cup {n} ELSE Before(s, n, kinds)
    BY BeforeStep
  <2>5. Count(s, n, kinds) \in Nat
    BY <1>2, <2>1
  <2> QED
    BY <2>3, <2>4, <2>5 DEF Count
<1> QED
  BY <1>1, <1>2, <1>3

LEMMA CountGrows ==
  ASSUME NEW s, IsSource(s), NEW kinds, NEW n \in 1 .. Len(s) + 1, NEW m \in 1 .. n
  PROVE  /\ Count(s, m, kinds) <= Count(s, n, kinds)
         /\ m < n /\ s[m].kind \in kinds => Count(s, m, kinds) < Count(s, n, kinds)
<1>1. Len(s) \in Nat /\ m \in 1 .. Len(s) + 1
  BY SourceLength
<1>2. ASSUME NEW k \in 1 .. n PROVE Count(s, k, kinds) <= Count(s, n, kinds)
  <2>1. Before(s, k, kinds) \in SUBSET Before(s, n, kinds)
    <3>1. Before(s, k, kinds) = {i \in 1 .. Len(s) : s[i].kind \in kinds /\ i < k}
      BY SourceLength DEF Before, Positions
    <3>2. Before(s, n, kinds) = {i \in 1 .. Len(s) : s[i].kind \in kinds /\ i < n}
      BY SourceLength DEF Before, Positions
    <3> QED
      BY <1>1, <3>1, <3>2
  <2>2. IsFiniteSet(Before(s, n, kinds))
    BY BeforeStep
  <2> QED
    BY <2>1, <2>2, FS_Subset DEF Count
<1>3. ASSUME m < n, s[m].kind \in kinds PROVE Count(s, m, kinds) < Count(s, n, kinds)
  <2>1. m \in 1 .. Len(s) /\ m + 1 \in 1 .. n
    BY <1>1, <1>3
  <2>2. Count(s, m + 1, kinds) = Count(s, m, kinds) + 1
    BY <1>3, <2>1, CountStep
  <2>3. Count(s, m, kinds) \in Nat /\ Count(s, n, kinds) \in Nat
    BY <1>1, CountStep
  <2>4. Count(s, m + 1, kinds) <= Count(s, n, kinds)
    BY <1>2, <2>1
  <2> QED
    BY <2>2, <2>3, <2>4
<1> QED
  BY <1>2, <1>3

(***************************************************************************)
(* The k-th statement of some kinds is where k - 1 come before it.         *)
(***************************************************************************)
LEMMA NthStatement ==
  ASSUME NEW s, IsSource(s), NEW kinds
  PROVE  /\ \A n \in Positions(s, kinds) : Nth(s, Count(s, n, kinds) + 1, kinds) = n
         /\ \A n \in 1 .. Len(s) + 1 : \A k \in 1 .. Count(s, n, kinds) :
              /\ Nth(s, k, kinds) \in Before(s, n, kinds)
              /\ Count(s, Nth(s, k, kinds), kinds) = k - 1
<1>1. Len(s) \in Nat /\ Positions(s, kinds) = {n \in 1 .. Len(s) : s[n].kind \in kinds}
  BY SourceLength DEF Positions
<1>2. \A n \in 1 .. Len(s) + 1 : Count(s, n, kinds) \in Nat
  BY CountStep
<1>3. ASSUME NEW n \in Positions(s, kinds), NEW m \in Positions(s, kinds),
             Count(s, m, kinds) = Count(s, n, kinds)
      PROVE  m = n
  <2>1. m \in 1 .. Len(s) /\ n \in 1 .. Len(s) /\ s[m].kind \in kinds /\ s[n].kind \in kinds
    BY <1>1
  <2>2. m < n => Count(s, m, kinds) < Count(s, n, kinds)
    BY <1>1, <2>1, CountGrows
  <2>3. n < m => Count(s, n, kinds) < Count(s, m, kinds)
    BY <1>1, <2>1, CountGrows
  <2> QED
    BY <1>2, <1>3, <2>1, <2>2, <2>3
<1>4. ASSUME NEW n \in Positions(s, kinds) PROVE Nth(s, Count(s, n, kinds) + 1, kinds) = n
  <2>1. n \in 1 .. Len(s) + 1
    BY <1>1
  <2>2. Count(s, n, kinds) = (Count(s, n, kinds) + 1) - 1
    BY <1>2, <2>1
  <2> QED
    BY <1>3, <2>2 DEF Nth
<1> DEFINE Q(n) == \A k \in 1 .. Count(s, n, kinds) : \E m \in Before(s, n, kinds) : Count(s, m, kinds) = k - 1
           S == {n \in Nat : n + 1 \in 1 .. Len(s) + 1 => Q(n + 1)}
<1>5. 0 \in S
  BY CountStep
<1>6. ASSUME NEW n \in Nat, n \in S PROVE n + 1 \in S
  <2> SUFFICES ASSUME n + 1 + 1 \in 1 .. Len(s) + 1 PROVE Q(n + 1 + 1)
    OBVIOUS
  <2> DEFINE p == n + 1
  <2>1. p \in 1 .. Len(s) /\ Q(p)
    BY <1>1, <1>6
  <2> HIDE DEF p
  <2>2. Before(s, p + 1, kinds) =
          IF s[p].kind \in kinds THEN Before(s, p, kinds) \cup {p} ELSE Before(s, p, kinds)
    BY <2>1, BeforeStep
  <2>3. Count(s, p + 1, kinds) = Count(s, p, kinds) + IF s[p].kind \in kinds THEN 1 ELSE 0
    BY <2>1, CountStep
  <2>4. Count(s, p, kinds) \in Nat
    BY <1>1, <1>2, <2>1
  <2>5. Q(p + 1)
    <3> SUFFICES ASSUME NEW k \in 1 .. Count(s, p + 1, kinds)
                 PROVE  \E m \in Before(s, p + 1, kinds) : Count(s, m, kinds) = k - 1
      OBVIOUS
    <3>1. CASE k \in 1 .. Count(s, p, kinds)
      BY <2>1, <2>2, <3>1
    <3>2. CASE k \notin 1 .. Count(s, p, kinds)
      <4>1. s[p].kind \in kinds /\ Count(s, p, kinds) = k - 1
        BY <2>3, <2>4, <3>2
      <4> QED
        BY <2>2, <4>1
    <3> QED
      BY <3>1, <3>2
  <2> QED
    BY <2>5 DEF p
<1>7. Nat \subseteq S
  <2> HIDE DEF S
  <2> QED
    BY <1>5, <1>6, Induction
<1>8. ASSUME NEW n \in 1 .. Len(s) + 1, NEW k \in 1 .. Count(s, n, kinds)
      PROVE  Nth(s, k, kinds) \in Before(s, n, kinds) /\ Count(s, Nth(s, k, kinds), kinds) = k - 1
  <2>1. n - 1 \in Nat /\ (n - 1) + 1 = n
    BY <1>1
  <2>2. Q(n)
    BY <1>7, <2>1
  <2>3. PICK m \in Before(s, n, kinds) : Count(s, m, kinds) = k - 1
    BY <2>2
  <2>4. m \in Positions(s, kinds)
    BY DEF Before
  <2>5. Nth(s, k, kinds) = m
    BY <1>3, <2>3, <2>4 DEF Nth
  <2> QED
    BY <2>3, <2>5
<1> QED
  BY <1>4, <1>8

LEMMA InstructionNumberCounts ==
  \A s, n : InstructionNumber(s, n) = Count(s, n, {"instruction"})
BY DEF InstructionNumber, Count

LEMMA GreatestIs ==
  ASSUME NEW S, NEW n \in S, S \subseteq Int, \A k \in S : k <= n
  PROVE  Greatest(S) = n
<1>1. ASSUME NEW m \in S, \A k \in S : k <= m PROVE m = n
  BY <1>1
<1> QED
  BY <1>1 DEF Greatest

LEMMA SectionAtStep ==
  ASSUME NEW s, IsSource(s)
  PROVE  /\ SectionAt(s, 1) = "undef"
         /\ \A n \in 1 .. Len(s) :
              SectionAt(s, n + 1) = IF s[n].kind = "section" THEN s[n].section ELSE SectionAt(s, n)
<1>1. SectionAt(s, 1) = "undef"
  BY BeforeStep DEF SectionAt
<1>2. ASSUME NEW n \in 1 .. Len(s)
      PROVE  SectionAt(s, n + 1) = IF s[n].kind = "section" THEN s[n].section ELSE SectionAt(s, n)
  <2>1. CASE s[n].kind = "section"
    <3>1. Before(s, n + 1, {"section"}) = Before(s, n, {"section"}) \cup {n}
      BY <2>1, BeforeStep
    <3>2. Before(s, n, {"section"}) \subseteq Int /\ \A k \in Before(s, n, {"section"}) : k <= n
      BY SourceLength DEF Before, Positions
    <3>3. Greatest(Before(s, n + 1, {"section"})) = n
      BY <3>1, <3>2, GreatestIs
    <3> QED
      BY <2>1, <3>1, <3>3 DEF SectionAt
  <2>2. CASE s[n].kind # "section"
    BY <2>2, BeforeStep DEF SectionAt
  <2> QED
    BY <2>1, <2>2
<1> QED
  BY <1>1, <1>2

LEMMA StatementSize ==
  ASSUME NEW s, IsSource(s), NEW n \in 1 .. Len(s)
  PROVE  /\ Size(s[n]) \in Nat
         /\ s[n].kind = "data" => Size(s[n]) = s[n].bytes /\ s[n].bytes \in {1, 2, 4}
<1>1. IsStatement(s[n], Labels)
  BY SourceLength DEF IsSource
<1> QED
  BY <1>1 DEF IsStatement, Size

LEMMA OffsetStep ==
  ASSUME NEW s, IsSource(s)
  PROVE  /\ Offset(s, 1) = 0
         /\ \A n \in 1 .. Len(s) + 1 : Offset(s, n) \in Nat
         /\ \A n \in 1 .. Len(s) : Offset(s, n + 1) = Offset(s, n) + Size(s[n])
<1> DEFINE Counted(f) == [m \in 1 .. Len(s) + 1 |-> IF m = 1 THEN 0 ELSE f[m - 1] + Size(s[m - 1])]
           bytes == CHOOSE f : f = Counted(f)
           N == Len(s)
           sum == [p \in Nat \X (1 .. N) |-> p[1] + Size(s[p[2]])]
<1>1. N \in Nat /\ \A n \in 1 .. N : Size(s[n]) \in Nat
  BY SourceLength, StatementSize
<1>2. sum \in [Nat \X (1 .. N) -> Nat]
  <2>1. ASSUME NEW p \in Nat \X (1 .. N) PROVE p[1] + Size(s[p[2]]) \in Nat
    <3>1. p[1] \in Nat /\ p[2] \in 1 .. N
      OBVIOUS
    <3> HIDE DEF N
    <3>2. Size(s[p[2]]) \in Nat
      BY <1>1, <3>1
    <3> QED
      BY <3>1, <3>2
  <2> QED
    BY <2>1
<1>3. PICK f \in [0 .. N -> Nat] : Follows(f, N, 0, sum)
  <2> HIDE DEF sum, N
  <2> QED
    BY <1>1, <1>2, RecursionExists
<1>4. f[0] = 0 /\ \A n \in 1 .. N : f[n] = f[n - 1] + Size(s[n])
  <2>1. ASSUME NEW n \in 1 .. N PROVE f[n] = f[n - 1] + Size(s[n])
    <3>1. f[n] = sum[<<f[n - 1], n>>]
      BY <1>3 DEF Follows
    <3>2. f[n - 1] \in Nat
      BY <1>1, SMTT(40)
    <3> QED
      BY <3>1, <3>2
  <2> QED
    BY <1>3, <2>1 DEF Follows
<1> DEFINE g == [m \in 1 .. N + 1 |-> f[m - 1]]
<1>5. g = Counted(g)
  <2>1. ASSUME NEW m \in 1 .. N + 1 PROVE g[m] = IF m = 1 THEN 0 ELSE g[m - 1] + Size(s[m - 1])
    <3>1. CASE m = 1
      BY <1>1, <1>4, <3>1
    <3>2. CASE m # 1
      <4>1. m - 1 \in 1 .. N
        BY <1>1, <3>2
      <4>2. g[m] = f[m - 1] /\ g[m - 1] = f[(m - 1) - 1]
        BY <1>1, <4>1
      <4> QED
        BY <1>4, <3>2, <4>1, <4>2
    <3> QED
      BY <3>1, <3>2
  <2> HIDE DEF g
  <2>2. g = [m \in 1 .. N + 1 |-> g[m]]
    BY DEF g
  <2> QED
    BY <2>1, <2>2
<1>6. bytes = Counted(bytes)
  <2> HIDE DEF g
  <2> QED
    BY <1>5
<1>7. \A m \in 1 .. N + 1 : Offset(s, m) = bytes[m]
  BY DEF Offset
<1>8. /\ bytes[1] = 0
      /\ \A n \in 1 .. N : bytes[n + 1] = bytes[n] + Size(s[n])
  <2> HIDE DEF bytes
  <2>1. bytes[1] = 0
    BY <1>1, <1>6
  <2>2. ASSUME NEW n \in 1 .. N PROVE bytes[n + 1] = bytes[n] + Size(s[n])
    <3>1. n + 1 \in 1 .. N + 1 /\ n + 1 # 1 /\ (n + 1) - 1 = n
      BY <1>1
    <3> QED
      BY <1>6, <3>1
  <2> QED
    BY <2>1, <2>2
<1>9. \A n \in Nat : n \in 0 .. N => bytes[n + 1] \in Nat
  <2> DEFINE S == {n \in Nat : n \in 0 .. N => bytes[n + 1] \in Nat}
  <2> HIDE DEF bytes, N
  <2>1. 0 \in S
    BY <1>8
  <2>2. ASSUME NEW n \in Nat, n \in S PROVE n + 1 \in S
    <3> SUFFICES ASSUME n + 1 \in 0 .. N PROVE bytes[(n + 1) + 1] \in Nat
      OBVIOUS
    <3>1. bytes[n + 1] \in Nat /\ n + 1 \in 1 .. N
      BY <1>1, <2>2
    <3> QED
      BY <1>1, <1>8, <3>1
  <2>3. Nat \subseteq S
    <3> HIDE DEF S
    <3> QED
      BY <2>1, <2>2, Induction
  <2> QED
    BY <2>3
<1>10. ASSUME NEW n \in 1 .. N + 1 PROVE bytes[n] \in Nat
  <2> HIDE DEF bytes, N
  <2>1. n - 1 \in Nat /\ n - 1 \in 0 .. N /\ (n - 1) + 1 = n
    BY <1>1
  <2> QED
    BY <1>9, <2>1
<1> HIDE DEF bytes
<1>11. ASSUME NEW n \in 1 .. N PROVE Offset(s, n + 1) = Offset(s, n) + Size(s[n])
  <2>1. n \in 1 .. N + 1 /\ n + 1 \in 1 .. N + 1
    BY <1>1
  <2> QED
    BY <1>7, <1>8, <2>1
<1>12. 1 \in 1 .. N + 1
  BY <1>1
<1> QED
  BY <1>7, <1>8, <1>10, <1>11, <1>12

LEMMA OffsetGrows ==
  ASSUME NEW s, IsSource(s), NEW n \in 1 .. Len(s) + 1, NEW m \in 1 .. n
  PROVE  /\ Offset(s, m) <= Offset(s, n)
         /\ m < n => Offset(s, m) + Size(s[m]) <= Offset(s, n)
<1>1. Len(s) \in Nat /\ \A k \in 1 .. Len(s) : Size(s[k]) \in Nat
  BY SourceLength, StatementSize
<1>2. \A k \in 1 .. Len(s) + 1 : Offset(s, k) \in Nat
  BY OffsetStep
<1>3. \A k \in 1 .. Len(s) : Offset(s, k + 1) = Offset(s, k) + Size(s[k])
  BY OffsetStep
<1> DEFINE S == {d \in Nat : \A k \in 1 .. Len(s) + 1 : k + d <= Len(s) + 1 => Offset(s, k) <= Offset(s, k + d)}
<1>4. 0 \in S
  BY <1>1, <1>2
<1>5. ASSUME NEW d \in Nat, d \in S PROVE d + 1 \in S
  <2> SUFFICES ASSUME NEW k \in 1 .. Len(s) + 1, k + (d + 1) <= Len(s) + 1
               PROVE  Offset(s, k) <= Offset(s, k + (d + 1))
    OBVIOUS
  <2>1. k + d \in 1 .. Len(s) /\ k + (d + 1) = (k + d) + 1
    BY <1>1
  <2>2. Offset(s, k) <= Offset(s, k + d)
    BY <1>1, <1>5, <2>1
  <2>3. Offset(s, (k + d) + 1) = Offset(s, k + d) + Size(s[k + d])
    BY <1>3, <2>1
  <2>4. Offset(s, k + d) \in Nat /\ Offset(s, k) \in Nat /\ Size(s[k + d]) \in Nat
    BY <1>1, <1>2, <2>1
  <2> QED
    BY <2>1, <2>2, <2>3, <2>4
<1>6. Nat \subseteq S
  <2> HIDE DEF S
  <2> QED
    BY <1>4, <1>5, Induction
<1>7. \A i \in 1 .. Len(s) + 1 : \A j \in 1 .. i : Offset(s, j) <= Offset(s, i)
  <2> SUFFICES ASSUME NEW i \in 1 .. Len(s) + 1, NEW j \in 1 .. i PROVE Offset(s, j) <= Offset(s, i)
    OBVIOUS
  <2>1. i - j \in Nat /\ j + (i - j) = i /\ j \in 1 .. Len(s) + 1 /\ i <= Len(s) + 1
    BY <1>1
  <2>2. i - j \in S
    BY <1>6, <2>1
  <2> QED
    BY <2>1, <2>2
<1>8. ASSUME m < n PROVE Offset(s, m) + Size(s[m]) <= Offset(s, n)
  <2>1. m \in 1 .. Len(s) /\ m + 1 \in 1 .. n
    BY <1>1, <1>8
  <2> QED
    BY <1>3, <1>7, <2>1
<1> QED
  BY <1>7, <1>8
-----------------------------------------------------------------------------
(* The lists after the statements before n have been read *)

\* what f makes of the statements of some kinds
Listed(s, n, kinds, f) == [k \in 1 .. Count(s, n, kinds) |-> f[Nth(s, k, kinds)]]

InstructionAt(s) == [n \in Positions(s, {"instruction"}) |-> s[n].instruction]
DatumAt(s) ==
  [n \in Positions(s, {"data"}) |->
     [at |-> Offset(s, n), bytes |-> s[n].bytes, value |-> s[n].value, label |-> s[n].label]]

ReadInstructions(s, n) == Listed(s, n, {"instruction"}, InstructionAt(s))
ReadData(s, n) == Listed(s, n, {"data"}, DatumAt(s))
InstructionsOf(s) == {s[n].instruction : n \in Positions(s, {"instruction"})}
DataOf(s) == {DatumAt(s)[n] : n \in Positions(s, {"data"})}

LabelsRead(s, n, addresses) ==
  /\ addresses = [l \in DOMAIN addresses |-> addresses[l]]
  /\ DOMAIN addresses = {s[m].label : m \in Before(s, n, {"label"})}
  /\ \A m \in Before(s, n, {"label"}) : addresses[s[m].label] = Address(s, m)

LEMMA NothingRead ==
  ASSUME NEW s, IsSource(s)
  PROVE  ReadInstructions(s, 1) = << >> /\ ReadData(s, 1) = << >> /\ LabelsRead(s, 1, NoAddresses)
<1>1. \A kinds : Count(s, 1, kinds) = 0 /\ Before(s, 1, kinds) = {}
  BY CountStep, BeforeStep
<1>2. ReadInstructions(s, 1) = << >> /\ ReadData(s, 1) = << >>
  BY <1>1 DEF ReadInstructions, ReadData, Listed
<1>3. LabelsRead(s, 1, NoAddresses)
  BY <1>1 DEF LabelsRead, NoAddresses
<1> QED
  BY <1>2, <1>3

GrowsByStatements(s, kinds, X, f) ==
  /\ \A n \in 1 .. Len(s) + 1 :
       Listed(s, n, kinds, f) \in Seq(X) /\ Len(Listed(s, n, kinds, f)) = Count(s, n, kinds)
  /\ \A n \in 1 .. Len(s) :
       Listed(s, n + 1, kinds, f) =
         IF s[n].kind \in kinds THEN Append(Listed(s, n, kinds, f), f[n]) ELSE Listed(s, n, kinds, f)

LEMMA ListedStep ==
  ASSUME NEW s, IsSource(s), NEW kinds, NEW X, NEW f \in [Positions(s, kinds) -> X]
  PROVE  GrowsByStatements(s, kinds, X, f)
<1>1. Len(s) \in Nat
  BY SourceLength
<1>2. \A n \in 1 .. Len(s) + 1 : Count(s, n, kinds) \in Nat
  BY CountStep
<1>3. ASSUME NEW n \in 1 .. Len(s) + 1
      PROVE  Listed(s, n, kinds, f) \in Seq(X) /\ Len(Listed(s, n, kinds, f)) = Count(s, n, kinds)
  <2>1. ASSUME NEW k \in 1 .. Count(s, n, kinds) PROVE f[Nth(s, k, kinds)] \in X
    <3>1. Nth(s, k, kinds) \in Positions(s, kinds)
      BY NthStatement DEF Before
    <3> QED
      BY <3>1
  <2> QED
    BY <1>2, <2>1 DEF Listed
<1>4. ASSUME NEW n \in 1 .. Len(s), s[n].kind \notin kinds
      PROVE  Listed(s, n + 1, kinds, f) = Listed(s, n, kinds, f)
  <2>1. Count(s, n + 1, kinds) = Count(s, n, kinds) + 0
    BY <1>4, CountStep
  <2>2. n \in 1 .. Len(s) + 1
    BY <1>1
  <2>3. Count(s, n + 1, kinds) = Count(s, n, kinds)
    BY <1>2, <2>1, <2>2
  <2> QED
    BY <2>3 DEF Listed
<1>5. ASSUME NEW n \in 1 .. Len(s), s[n].kind \in kinds
      PROVE  Listed(s, n + 1, kinds, f) = Append(Listed(s, n, kinds, f), f[n])
  <2> DEFINE c == Count(s, n, kinds)
             list == Listed(s, n, kinds, f)
  <2>1. n \in 1 .. Len(s) + 1
    BY <1>1
  <2>2. c \in Nat
    BY <1>2, <2>1
  <2>3. Count(s, n + 1, kinds) = c + 1
    BY <1>5, CountStep
  <2>4. n \in Positions(s, kinds)
    BY <1>5, SourceLength DEF Positions
  <2>5. Nth(s, c + 1, kinds) = n
    BY <2>4, NthStatement
  <2>6. list \in Seq(X) /\ Len(list) = c /\ f[n] \in X
    BY <1>3, <2>1, <2>4
  <2>7. \A k \in 1 .. c : list[k] = f[Nth(s, k, kinds)]
    BY DEF Listed
  <2>8. Listed(s, n + 1, kinds, f) = [k \in 1 .. c + 1 |-> f[Nth(s, k, kinds)]]
    BY <2>3 DEF Listed
  <2> HIDE DEF c, list
  <2>9. Append(list, f[n]) = [k \in 1 .. c + 1 |-> IF k = c + 1 THEN f[n] ELSE list[k]]
    BY <2>2, <2>6
  <2>10. ASSUME NEW k \in 1 .. c + 1
         PROVE  f[Nth(s, k, kinds)] = IF k = c + 1 THEN f[n] ELSE list[k]
    <3>1. k # c + 1 => k \in 1 .. c
      BY <2>2
    <3> QED
      BY <2>5, <2>7, <3>1
  <2> QED
    BY <2>8, <2>9, <2>10 DEF list
<1> QED
  BY <1>3, <1>4, <1>5 DEF GrowsByStatements

LEMMA ReadStep ==
  ASSUME NEW s, IsSource(s)
  PROVE  /\ \A n \in 1 .. Len(s) + 1 :
              /\ ReadInstructions(s, n) \in Seq(InstructionsOf(s))
              /\ Len(ReadInstructions(s, n)) = InstructionNumber(s, n)
              /\ ReadData(s, n) \in Seq(DataOf(s))
              /\ Len(ReadData(s, n)) = Count(s, n, {"data"})
         /\ \A n \in 1 .. Len(s) :
              /\ ReadInstructions(s, n + 1) =
                   IF s[n].kind = "instruction" THEN Append(ReadInstructions(s, n), s[n].instruction)
                   ELSE ReadInstructions(s, n)
              /\ ReadData(s, n + 1) =
                   IF s[n].kind = "data"
                   THEN Append(ReadData(s, n), [at |-> Offset(s, n), bytes |-> s[n].bytes,
                                                value |-> s[n].value, label |-> s[n].label])
                   ELSE ReadData(s, n)
<1> DEFINE f == InstructionAt(s)
           g == DatumAt(s)
<1>1. f \in [Positions(s, {"instruction"}) -> InstructionsOf(s)]
  BY DEF InstructionAt, InstructionsOf
<1>2. g \in [Positions(s, {"data"}) -> DataOf(s)]
  BY DEF DatumAt, DataOf
<1>3. ASSUME NEW n \in 1 .. Len(s)
      PROVE  /\ s[n].kind = "instruction" => f[n] = s[n].instruction
             /\ s[n].kind = "data" => g[n] = [at |-> Offset(s, n), bytes |-> s[n].bytes,
                                             value |-> s[n].value, label |-> s[n].label]
  BY SourceLength DEF InstructionAt, DatumAt, Positions
<1> HIDE DEF f, g
<1>4. GrowsByStatements(s, {"instruction"}, InstructionsOf(s), f)
  BY <1>1, ListedStep
<1>5. GrowsByStatements(s, {"data"}, DataOf(s), g)
  BY <1>2, ListedStep
<1>6. \A n : ReadInstructions(s, n) = Listed(s, n, {"instruction"}, f) /\ ReadData(s, n) = Listed(s, n, {"data"}, g)
  BY DEF ReadInstructions, ReadData, f, g
<1> QED
  BY <1>3, <1>4, <1>5, <1>6, InstructionNumberCounts DEF GrowsByStatements

LEMMA LabelsReadStep ==
  ASSUME NEW s, IsSource(s), NEW n \in 1 .. Len(s), NEW addresses, LabelsRead(s, n, addresses)
  PROVE  /\ s[n].kind # "label" => LabelsRead(s, n + 1, addresses)
         /\ s[n].kind = "label" /\ s[n].label \notin DOMAIN addresses =>
              LabelsRead(s, n + 1, [l \in DOMAIN addresses \cup {s[n].label} |->
                                      IF l = s[n].label THEN Address(s, n) ELSE addresses[l]])
<1> DEFINE L == {"label"}
<1>1. Before(s, n + 1, L) = IF s[n].kind = "label" THEN Before(s, n, L) \cup {n} ELSE Before(s, n, L)
  BY BeforeStep, ZenonT(40)
<1>2. CASE s[n].kind # "label"
  BY <1>1, <1>2 DEF LabelsRead
<1>3. ASSUME s[n].kind = "label", s[n].label \notin DOMAIN addresses
      PROVE  LabelsRead(s, n + 1, [l \in DOMAIN addresses \cup {s[n].label} |->
                                     IF l = s[n].label THEN Address(s, n) ELSE addresses[l]])
  <2> DEFINE new == [l \in DOMAIN addresses \cup {s[n].label} |->
                       IF l = s[n].label THEN Address(s, n) ELSE addresses[l]]
  <2>1. Before(s, n + 1, L) = Before(s, n, L) \cup {n}
    BY <1>1, <1>3
  <2>2. DOMAIN new = {s[m].label : m \in Before(s, n + 1, L)}
    BY <2>1 DEF LabelsRead
  <2>3. ASSUME NEW m \in Before(s, n + 1, L) PROVE new[s[m].label] = Address(s, m)
    BY <1>3, <2>1 DEF LabelsRead
  <2>4. new = [l \in DOMAIN new |-> new[l]]
    OBVIOUS
  <2> QED
    BY <2>2, <2>3, <2>4 DEF LabelsRead
<1> QED
  BY <1>2, <1>3
-----------------------------------------------------------------------------
(* Reading a source *)

Given == target \in Targets /\ IsSource(source)

\* what has been read is acceptable, and counters and lists are what the
\* statements before the next one make of them
Reading ==
  /\ parsed \in 0 .. Len(source)
  /\ section = SectionAt(source, parsed + 1)
  /\ instrNo = InstructionNumber(source, parsed + 1)
  /\ dataNo = Offset(source, parsed + 1)
  /\ \A n \in 1 .. parsed : Acceptable(target, source, n)
  /\ instructions = ReadInstructions(source, parsed + 1)
  /\ data = ReadData(source, parsed + 1)
  /\ LabelsRead(source, parsed + 1, labels)

Rejected == phase \in {"failed", "undefined"} /\ ~Correct(target, source)

LEMMA ReadingInit ==
  ASSUME Init
  PROVE  Given /\ Reading
<1>1. Given
  BY AssemblerAssumption DEF Init, Given, IsSource
<1>2. Len(source) \in Nat /\ 1 \in 1 .. Len(source) + 1
  BY <1>1, SourceLength DEF Given
<1>3. InstructionNumber(source, 1) = 0
  BY <1>1, CountStep, InstructionNumberCounts DEF Given
<1> QED
  BY <1>1, <1>2, <1>3, SectionAtStep, OffsetStep, NothingRead DEF Init, Given, Reading

\* an unacceptable statement ends the reading
LEMMA RejectedByError ==
  ASSUME Given, NEW n \in 1 .. Len(source), ~Acceptable(target, source, n),
         NEW saved, YYError(saved)
  PROVE  Rejected'
<1>1. n \in DOMAIN source
  BY SourceLength DEF Given
<1>2. ~Correct(target, source)
  BY <1>1 DEF Correct
<1>3. target' = target /\ source' = source /\ phase' \in {"failed", "undefined"}
  BY DEF YYError, given, WalkedOff
<1> QED
  BY <1>2, <1>3 DEF Rejected

\* what every statement does to counters and lists, if it does it
LEMMA ReadingStep ==
  ASSUME Given, Reading, NEW kind, Reduce(kind),
         target' = target, source' = source,
         Acceptable(target, source, parsed + 1),
         section' = IF kind = "section" THEN Statement.section ELSE section,
         instrNo' = instrNo + IF kind = "instruction" THEN 1 ELSE 0,
         dataNo' = dataNo + Size(Statement),
         instructions' = IF kind = "instruction" THEN Append(instructions, Statement.instruction) ELSE instructions,
         data' = IF kind = "data"
                 THEN Append(data, [at |-> dataNo, bytes |-> Statement.bytes, value |-> Statement.value,
                                    label |-> Statement.label])
                 ELSE data,
         LabelsRead(source, parsed + 2, labels')
  PROVE  Reading'
<1> DEFINE n == parsed + 1
<1>1. /\ Len(source) \in Nat /\ n \in 1 .. Len(source) /\ n + 1 = parsed + 2 /\ parsed' = n
      /\ Statement = source[n] /\ source[n].kind = kind
  BY SourceLength DEF Given, Reading, Reduce, Statement
<1>2. n \in Positions(source, {kind})
  BY <1>1, SourceLength DEF Given, Positions
<1>3. /\ section = SectionAt(source, n) /\ instrNo = InstructionNumber(source, n) /\ dataNo = Offset(source, n)
      /\ instructions = ReadInstructions(source, n) /\ data = ReadData(source, n)
      /\ \A k \in 1 .. n : Acceptable(target, source, k)
  <2>1. \A k \in 1 .. n : k \in 1 .. parsed \/ k = n
    BY <1>1 DEF Reading
  <2> QED
    BY <2>1 DEF Reading
<1> HIDE DEF n
<1>4. InstructionNumber(source, n + 1) = instrNo'
  <2>1. InstructionNumber(source, n + 1) = InstructionNumber(source, n) + IF source[n].kind \in {"instruction"} THEN 1 ELSE 0
    BY <1>1, CountStep, InstructionNumberCounts DEF Given
  <2> QED
    BY <1>1, <1>3, <2>1
<1>5. Offset(source, n + 1) = dataNo' /\ SectionAt(source, n + 1) = section'
  BY <1>1, <1>3, OffsetStep, SectionAtStep DEF Given
<1>6. ReadInstructions(source, n + 1) = instructions'
  BY <1>1, <1>3, ReadStep DEF Given
<1>7. ReadData(source, n + 1) = data'
  BY <1>1, <1>3, ReadStep DEF Given
<1>8. n \in 0 .. Len(source)
  BY <1>1
<1> QED
  BY <1>1, <1>3, <1>4, <1>5, <1>6, <1>7, <1>8 DEF Reading

LEMMA StatementRead ==
  ASSUME Given, Reading, NEW kind, Reduce(kind)
  PROVE  /\ parsed + 1 \in 1 .. Len(source) /\ Len(source) \in Nat /\ (parsed + 1) + 1 = parsed + 2
         /\ Statement = source[parsed + 1] /\ Statement.kind = kind
         /\ IsStatement(Statement, Labels)
         /\ instrNo \in Nat /\ dataNo \in Nat
<1>1. Len(source) \in Nat /\ DOMAIN source = 1 .. Len(source)
  BY SourceLength DEF Given
<1>2. parsed + 1 \in 1 .. Len(source) + 1
  BY <1>1 DEF Reading
<1>3. instrNo \in Nat /\ dataNo \in Nat
  BY <1>2, CountStep, InstructionNumberCounts, OffsetStep DEF Reading, Given
<1> QED
  BY <1>1, <1>3 DEF Given, IsSource, Reading, Reduce, Statement

LEMMA ReadingStatement ==
  ASSUME Given, Reading, Parse, phase = "parsing"
  PROVE  (phase' = "parsing" /\ Given' /\ Reading') \/ Rejected'
<1> DEFINE n == parsed + 1
<1>1. target' = target /\ source' = source
  BY DEF Parse, SectionInfo, AlignInfo, BranchTargetDefinition, SaveData, Skip, SaveInstruction, given, YYError
<1>2. Given'
  BY <1>1 DEF Given
<1>3. CASE SectionInfo
  <2>1. n \in 1 .. Len(source) /\ Statement = source[n] /\ Statement.kind = "section" /\ n + 1 = parsed + 2
    BY <1>3, StatementRead DEF SectionInfo
  <2>2. Acceptable(target, source, parsed + 1)
    BY <2>1 DEF Acceptable
  <2>3. LabelsRead(source, parsed + 2, labels')
    BY <1>3, <2>1, LabelsReadStep DEF Reading, Given, SectionInfo, lists
  <2>4. instrNo \in Nat /\ dataNo \in Nat /\ Size(Statement) = 0
    BY <1>3, <2>1, StatementRead DEF SectionInfo, Size
  <2>5. Reading'
    BY <1>1, <1>3, <2>1, <2>2, <2>3, <2>4, ReadingStep DEF SectionInfo, lists
  <2> QED
    BY <1>2, <1>3, <2>5 DEF SectionInfo
<1>4. CASE AlignInfo
  <2>1. n \in 1 .. Len(source) /\ Statement = source[n] /\ Statement.kind = "align" /\ n + 1 = parsed + 2
    BY <1>4, StatementRead DEF AlignInfo
  <2>2. CASE Statement.bytes \in 0 .. 32
    <3>1. Acceptable(target, source, parsed + 1)
      BY <2>1, <2>2 DEF Acceptable
    <3>2. LabelsRead(source, parsed + 2, labels')
      BY <1>4, <2>1, <2>2, LabelsReadStep DEF Reading, Given, AlignInfo, lists
    <3>3. instrNo \in Nat /\ dataNo \in Nat /\ Size(Statement) = 0
      BY <1>4, <2>1, StatementRead DEF AlignInfo, Size
    <3>4. Reading'
      BY <1>1, <1>4, <2>1, <2>2, <3>1, <3>2, <3>3, ReadingStep DEF AlignInfo, lists
    <3> QED
      BY <1>2, <1>4, <2>2, <3>4 DEF AlignInfo
  <2>3. CASE Statement.bytes \notin 0 .. 32
    <3>1. ~Acceptable(target, source, n)
      BY <2>1, <2>3 DEF Acceptable
    <3>2. YYError(instructions)
      BY <1>4, <2>3 DEF AlignInfo
    <3> QED
      BY <2>1, <3>1, <3>2, RejectedByError
  <2> QED
    BY <2>2, <2>3
<1>5. CASE BranchTargetDefinition
  <2>1. n \in 1 .. Len(source) /\ Statement = source[n] /\ Statement.kind = "label" /\ n + 1 = parsed + 2
    BY <1>5, StatementRead DEF BranchTargetDefinition
  <2> DEFINE misplaced == section = "undef" \/ (section = "text" /\ instrNo = 0 /\ Statement.label # Main)
             address == IF section = "text" THEN instrNo ELSE dataNo
  <2>2. /\ section = SectionAt(source, n) /\ instrNo = InstructionNumber(source, n)
        /\ dataNo = Offset(source, n) /\ LabelsRead(source, n, labels)
    BY DEF Reading
  <2>3. Acceptable(target, source, n) <=> ~(misplaced \/ Statement.label \in DOMAIN labels)
    BY <2>1, <2>2 DEF Acceptable, LabelsRead
  <2>4. CASE misplaced \/ Statement.label \in DOMAIN labels
    <3>1. YYError(instructions)
      BY <1>5, <2>4 DEF BranchTargetDefinition
    <3> QED
      BY <2>1, <2>3, <2>4, <3>1, RejectedByError
  <2>5. CASE ~(misplaced \/ Statement.label \in DOMAIN labels)
    <3>1. /\ labels' = [l \in DOMAIN labels \cup {Statement.label} |->
                          IF l = Statement.label THEN address ELSE labels[l]]
          /\ UNCHANGED <<given, section, instrNo, dataNo, instructions, data, phase, output>>
      BY <1>5, <2>5 DEF BranchTargetDefinition
    <3>2. address = Address(source, n)
      BY <2>2 DEF Address
    <3>3. LabelsRead(source, parsed + 2, labels')
      <4> HIDE DEF n, address
      <4> QED
        BY <2>1, <2>2, <2>5, <3>1, <3>2, LabelsReadStep DEF Given
    <3>4. instrNo \in Nat /\ dataNo \in Nat /\ Size(Statement) = 0
      BY <1>5, <2>1, StatementRead DEF BranchTargetDefinition, Size
    <3>5. Reading'
      <4>1. Reduce("label") /\ Acceptable(target, source, parsed + 1)
        BY <1>5, <2>3, <2>5 DEF BranchTargetDefinition
      <4>2. /\ section' = section /\ instrNo' = instrNo /\ dataNo' = dataNo
            /\ instructions' = instructions /\ data' = data
        BY <3>1
      <4> QED
        BY <1>1, <3>3, <3>4, <4>1, <4>2, ReadingStep
    <3> QED
      BY <1>2, <3>1, <3>5
  <2> QED
    BY <2>4, <2>5
<1>6. CASE SaveData
  <2>1. n \in 1 .. Len(source) /\ Statement = source[n] /\ Statement.kind = "data" /\ n + 1 = parsed + 2
    BY <1>6, StatementRead DEF SaveData
  <2>2. Acceptable(target, source, parsed + 1)
    BY <2>1 DEF Acceptable
  <2>3. LabelsRead(source, parsed + 2, labels')
    BY <1>6, <2>1, LabelsReadStep DEF Reading, Given, SaveData
  <2>4. instrNo \in Nat /\ dataNo \in Nat /\ Size(Statement) = Statement.bytes
    BY <1>6, <2>1, StatementRead DEF SaveData, Size
  <2>5. Reading'
    BY <1>1, <1>6, <2>1, <2>2, <2>3, <2>4, ReadingStep DEF SaveData
  <2> QED
    BY <1>2, <1>6, <2>5 DEF SaveData
<1>7. CASE Skip
  <2>1. n \in 1 .. Len(source) /\ Statement = source[n] /\ Statement.kind = "skip" /\ n + 1 = parsed + 2
    BY <1>7, StatementRead DEF Skip
  <2>2. Acceptable(target, source, parsed + 1)
    BY <2>1 DEF Acceptable
  <2>3. LabelsRead(source, parsed + 2, labels')
    BY <1>7, <2>1, LabelsReadStep DEF Reading, Given, Skip, lists
  <2>4. instrNo \in Nat /\ dataNo \in Nat /\ Size(Statement) = Statement.bytes
    BY <1>7, <2>1, StatementRead DEF Skip, Size
  <2>5. Reading'
    BY <1>1, <1>7, <2>1, <2>2, <2>3, <2>4, ReadingStep DEF Skip, lists
  <2> QED
    BY <1>2, <1>7, <2>5 DEF Skip
<1>8. CASE SaveInstruction
  <2>1. n \in 1 .. Len(source) /\ Statement = source[n] /\ Statement.kind = "instruction" /\ n + 1 = parsed + 2
    BY <1>8, StatementRead DEF SaveInstruction
  <2> DEFINE accepted == InRange(Statement.instruction) /\ Supported(target, Statement.instruction, Statement.guard)
  <2>2. Acceptable(target, source, n) <=> accepted
    BY <2>1 DEF Acceptable
  <2>3. CASE ~accepted
    <3>1. \E saved : YYError(saved)
      BY <1>8, <2>3 DEF SaveInstruction
    <3> QED
      BY <2>1, <2>2, <2>3, <3>1, RejectedByError
  <2>4. CASE accepted
    <3>1. /\ instructions' = Append(instructions, Statement.instruction)
          /\ instrNo' = instrNo + 1
          /\ UNCHANGED <<given, section, dataNo, labels, data, phase, output>>
      BY <1>8, <2>4 DEF SaveInstruction
    <3>2. LabelsRead(source, parsed + 2, labels')
      BY <2>1, <3>1, LabelsReadStep DEF Reading, Given
    <3>3. instrNo \in Nat /\ dataNo \in Nat /\ Size(Statement) = 0
      BY <1>8, <2>1, StatementRead DEF SaveInstruction, Size
    <3>4. Reading'
      BY <1>1, <1>8, <2>1, <2>2, <2>4, <3>1, <3>2, <3>3, ReadingStep DEF SaveInstruction
    <3> QED
      BY <1>2, <3>1, <3>4
  <2> QED
    BY <2>3, <2>4
<1> QED
  BY <1>3, <1>4, <1>5, <1>6, <1>7, <1>8 DEF Parse
-----------------------------------------------------------------------------
(* Resolving the labels *)

MeantDatum(s, n) ==
  [at |-> Offset(s, n), bytes |-> s[n].bytes, value |-> NumberAt(s, n), label |-> NoLabel]
MeantData(s) == [k \in 1 .. Count(s, Len(s) + 1, {"data"}) |-> MeantDatum(s, Nth(s, k, {"data"}))]

(***************************************************************************)
(* An operand that is no label stays what it is.                           *)
(***************************************************************************)
LEMMA PlainOperands ==
  ASSUME NEW address
  PROVE  /\ \A o \in RegisterOperands \cup ConditionOperands \cup PredicateOperands :
              o.type \notin LabelTypes /\ ResolvedOperand(o, address) = o
         /\ \A type \in {"IMM22", "SIMM13", "SIMM11", "SIMM8"} : \A o \in Number(type) :
              o.type \notin LabelTypes /\ ResolvedOperand(o, address) = o
         /\ \A type \in {"REGISTER", "TF", "LOOP_REG"} : \A values : \A o \in OperandsOf(type, values) :
              o.type \notin LabelTypes /\ ResolvedOperand(o, address) = o
BY DEF RegisterOperands, ConditionOperands, PredicateOperands, Number, OperandsOf, LabelTypes, ResolvedOperand

\* what the operand list of an instruction is resolved to, and the labels it names
Replaced(o, address) == [k \in DOMAIN o |-> ResolvedOperand(o[k], address)]
Names(o) == {o[k].value : k \in {n \in DOMAIN o : o[n].type \in LabelTypes}}

LEMMA Pairs ==
  ASSUME NEW A, NEW B, NEW o \in A \X B, NEW address
  PROVE  /\ o[1] \in A /\ o[2] \in B
         /\ DOMAIN o = {1, 2}
         /\ Replaced(o, address) = <<ResolvedOperand(o[1], address), ResolvedOperand(o[2], address)>>
BY DEF Replaced

LEMMA Triples ==
  ASSUME NEW A, NEW B, NEW C, NEW o \in A \X B \X C, NEW address
  PROVE  /\ o[1] \in A /\ o[2] \in B /\ o[3] \in C
         /\ DOMAIN o = {1, 2, 3}
         /\ Replaced(o, address)
              = <<ResolvedOperand(o[1], address), ResolvedOperand(o[2], address), ResolvedOperand(o[3], address)>>
BY DEF Replaced

LEMMA Quadruples ==
  ASSUME NEW A, NEW B, NEW C, NEW D, NEW o \in A \X B \X C \X D, NEW address
  PROVE  /\ o[1] \in A /\ o[2] \in B /\ o[3] \in C /\ o[4] \in D
         /\ DOMAIN o = {1, 2, 3, 4}
         /\ Replaced(o, address)
              = <<ResolvedOperand(o[1], address), ResolvedOperand(o[2], address),
                  ResolvedOperand(o[3], address), ResolvedOperand(o[4], address)>>
BY DEF Replaced

LEMMA Singles ==
  ASSUME NEW A, NEW o \in [1 .. 1 -> A], NEW address
  PROVE  o[1] \in A /\ DOMAIN o = {1} /\ Replaced(o, address) = <<ResolvedOperand(o[1], address)>>
BY DEF Replaced

LEMMA LabelOperands ==
  ASSUME NEW labs, NEW address
  PROVE  /\ \A o \in OperandsOf("LABEL", labs) :
              /\ o.type \in LabelTypes /\ o.value \in labs
              /\ address[o.value] \in Int => ResolvedOperand(o, address) \in AddressOperands
         /\ \A o \in OperandsOf("HI_LABEL", labs) :
              /\ o.type \in LabelTypes /\ o.value \in labs
              /\ address[o.value] \in Int => ResolvedOperand(o, address) \in Number("IMM22")
         /\ \A o \in OperandsOf("LOW_LABEL", labs) :
              /\ o.type \in LabelTypes /\ o.value \in labs
              /\ address[o.value] \in Int => ResolvedOperand(o, address) \in Number("SIMM13")
<1>1. \A a \in Int : (a \div LowRange) % 2^22 \in Int /\ a % LowRange \in Int
  BY LowRangeAssumption
<1>2. \A o \in OperandsOf("LABEL", labs) :
        /\ o.type \in LabelTypes /\ o.value \in labs
        /\ address[o.value] \in Int => ResolvedOperand(o, address) \in AddressOperands
  BY DEF OperandsOf, LabelTypes, ResolvedOperand, AddressOperands, Number, Operand
<1>3. \A o \in OperandsOf("HI_LABEL", labs) :
        /\ o.type \in LabelTypes /\ o.value \in labs
        /\ address[o.value] \in Int => ResolvedOperand(o, address) \in Number("IMM22")
  BY <1>1 DEF OperandsOf, LabelTypes, ResolvedOperand, Number, Operand
<1>4. \A o \in OperandsOf("LOW_LABEL", labs) :
        /\ o.type \in LabelTypes /\ o.value \in labs
        /\ address[o.value] \in Int => ResolvedOperand(o, address) \in Number("SIMM13")
  BY <1>1 DEF OperandsOf, LabelTypes, ResolvedOperand, Number, Operand
<1> QED
  BY <1>2, <1>3, <1>4

LEMMA OperandsResolved ==
  ASSUME NEW op, NEW labs, NEW o \in OperandLists(op, OperandsOf("LABEL", labs), labs),
         NEW address, \A l \in Names(o) : address[l] \in Int
  PROVE  Names(o) \subseteq labs /\ Replaced(o, address) \in OperandLists(op, AddressOperands, {})
<1> DEFINE R == RegisterOperands
           C == ConditionOperands
           P == PredicateOperands
           T == OperandsOf("LABEL", labs)
           RO(x) == ResolvedOperand(x, address)
           Plain(x) == x.type \notin LabelTypes /\ RO(x) = x
<1>1. \A k \in DOMAIN o : o[k].type \in LabelTypes => address[o[k].value] \in Int
  BY DEF Names
<1>2. \A x \in R \cup C \cup P : Plain(x)
  BY PlainOperands
<1>3. \A type \in {"IMM22", "SIMM13", "SIMM11", "SIMM8"} : \A x \in Number(type) : Plain(x)
  BY PlainOperands
<1>4. \A type \in {"REGISTER", "TF", "LOOP_REG"} : \A values : \A x \in OperandsOf(type, values) : Plain(x)
  BY PlainOperands
<1>5. \A k \in DOMAIN o : o[k] \in T => o[k].value \in labs /\ RO(o[k]) \in AddressOperands
  BY <1>1, LabelOperands
<1>6. \A k \in DOMAIN o : o[k] \in OperandsOf("HI_LABEL", labs) => o[k].value \in labs /\ RO(o[k]) \in Number("IMM22")
  BY <1>1, LabelOperands
<1>7. \A k \in DOMAIN o : o[k] \in OperandsOf("LOW_LABEL", labs) => o[k].value \in labs /\ RO(o[k]) \in Number("SIMM13")
  BY <1>1, LabelOperands
<1> HIDE DEF RO
<1>8. CASE op = "CALL"
  <2>1. o \in [1 .. 1 -> T]
    BY <1>8 DEF OperandLists
  <2>2. o[1] \in T /\ DOMAIN o = {1} /\ Replaced(o, address) = <<RO(o[1])>>
    BY <2>1, Singles DEF RO
  <2>3. Names(o) \subseteq labs
    BY <1>5, <2>2 DEF Names
  <2>4. Replaced(o, address) \in [1 .. 1 -> AddressOperands]
    BY <1>5, <2>2
  <2> QED
    BY <1>8, <2>3, <2>4 DEF OperandLists
<1>9. CASE op = "BRANCH"
  <2>1. o \in T \X C
    BY <1>9 DEF OperandLists
  <2>2. o[1] \in T /\ o[2] \in C /\ DOMAIN o = {1, 2} /\ Replaced(o, address) = <<RO(o[1]), RO(o[2])>>
    BY <2>1, Pairs DEF RO
  <2>3. Names(o) \subseteq labs
    BY <1>2, <1>5, <2>2 DEF Names
  <2>4. Replaced(o, address) \in AddressOperands \X C
    BY <1>2, <1>5, <2>2
  <2> QED
    BY <1>9, <2>3, <2>4 DEF OperandLists
<1>10. CASE op = "SETHI"
  <2>1. o \in R \X (Number("IMM22") \cup OperandsOf("HI_LABEL", labs))
    BY <1>10 DEF OperandLists, Number
  <2>2. /\ o[1] \in R /\ o[2] \in Number("IMM22") \cup OperandsOf("HI_LABEL", labs)
        /\ DOMAIN o = {1, 2} /\ Replaced(o, address) = <<RO(o[1]), RO(o[2])>>
    BY <2>1, Pairs DEF RO
  <2>3. Names(o) \subseteq labs
    BY <1>2, <1>3, <1>6, <2>2 DEF Names
  <2>4. Replaced(o, address) \in R \X Number("IMM22")
    BY <1>2, <1>3, <1>6, <2>2
  <2> QED
    BY <1>10, <2>3, <2>4, NoLabels DEF OperandLists, Number
<1>11. CASE op = "RD"
  <2>1. o \in R \X OperandsOf("REGISTER", {0})
    BY <1>11 DEF OperandLists
  <2>2. /\ o[1] \in R /\ o[2] \in OperandsOf("REGISTER", {0})
        /\ DOMAIN o = {1, 2} /\ Replaced(o, address) = <<RO(o[1]), RO(o[2])>>
    BY <2>1, Pairs DEF RO
  <2>3. Names(o) \subseteq labs
    BY <1>2, <1>4, <2>2 DEF Names
  <2>4. Replaced(o, address) \in R \X OperandsOf("REGISTER", {0})
    BY <1>2, <1>4, <2>2
  <2> QED
    BY <1>11, <2>3, <2>4 DEF OperandLists
<1>12. CASE op = "MOV"
  <2>1. o \in R \X R \X C
    BY <1>12 DEF OperandLists
  <2>2. /\ o[1] \in R /\ o[2] \in R /\ o[3] \in C
        /\ DOMAIN o = {1, 2, 3} /\ Replaced(o, address) = <<RO(o[1]), RO(o[2]), RO(o[3])>>
    BY <2>1, Triples DEF RO
  <2>3. Names(o) \subseteq labs
    BY <1>2, <2>2 DEF Names
  <2>4. Replaced(o, address) \in R \X R \X C
    BY <1>2, <2>2
  <2> QED
    BY <1>12, <2>3, <2>4 DEF OperandLists
<1>13. CASE op = "SEL"
  <2>1. CASE o \in R \X R \X (R \cup Number("SIMM11")) \X C
    <3>1. /\ o[1] \in R /\ o[2] \in R /\ o[3] \in R \cup Number("SIMM11") /\ o[4] \in C
          /\ DOMAIN o = {1, 2, 3, 4} /\ Replaced(o, address) = <<RO(o[1]), RO(o[2]), RO(o[3]), RO(o[4])>>
      BY <2>1, Quadruples DEF RO
    <3>2. Names(o) \subseteq labs
      BY <1>2, <1>3, <3>1 DEF Names
    <3>3. Replaced(o, address) \in R \X R \X (R \cup Number("SIMM11")) \X C
      BY <1>2, <1>3, <3>1
    <3> QED
      BY <1>13, <3>2, <3>3 DEF OperandLists, Number
  <2>2. CASE o \in R \X Number("SIMM8") \X Number("SIMM8") \X C
    <3>1. /\ o[1] \in R /\ o[2] \in Number("SIMM8") /\ o[3] \in Number("SIMM8") /\ o[4] \in C
          /\ DOMAIN o = {1, 2, 3, 4} /\ Replaced(o, address) = <<RO(o[1]), RO(o[2]), RO(o[3]), RO(o[4])>>
      BY <2>2, Quadruples DEF RO
    <3>2. Names(o) \subseteq labs
      BY <1>2, <1>3, <3>1 DEF Names
    <3>3. Replaced(o, address) \in R \X Number("SIMM8") \X Number("SIMM8") \X C
      BY <1>2, <1>3, <3>1
    <3> QED
      BY <1>13, <3>2, <3>3 DEF OperandLists, Number
  <2> QED
    BY <1>13, <2>1, <2>2 DEF OperandLists, Number
<1>14. CASE op = "HWLOOP_INIT"
  <2>1. CASE o \in OperandsOf("LOOP_REG", {LoopS, LoopE}) \X T
    <3>1. /\ o[1] \in OperandsOf("LOOP_REG", {LoopS, LoopE}) /\ o[2] \in T
          /\ DOMAIN o = {1, 2} /\ Replaced(o, address) = <<RO(o[1]), RO(o[2])>>
      BY <2>1, Pairs DEF RO
    <3>2. Names(o) \subseteq labs
      BY <1>4, <1>5, <3>1 DEF Names
    <3>3. Replaced(o, address) \in OperandsOf("LOOP_REG", {LoopS, LoopE}) \X AddressOperands
      BY <1>4, <1>5, <3>1
    <3> QED
      BY <1>14, <3>2, <3>3 DEF OperandLists
  <2>2. CASE o \in OperandsOf("LOOP_REG", {LoopB}) \X (R \cup Number("IMM22"))
    <3>1. /\ o[1] \in OperandsOf("LOOP_REG", {LoopB}) /\ o[2] \in R \cup Number("IMM22")
          /\ DOMAIN o = {1, 2} /\ Replaced(o, address) = <<RO(o[1]), RO(o[2])>>
      BY <2>2, Pairs DEF RO
    <3>2. Names(o) \subseteq labs
      BY <1>2, <1>3, <1>4, <3>1 DEF Names
    <3>3. Replaced(o, address) \in OperandsOf("LOOP_REG", {LoopB}) \X (R \cup Number("IMM22"))
      BY <1>2, <1>3, <1>4, <3>1
    <3> QED
      BY <1>14, <3>2, <3>3 DEF OperandLists, Number
  <2> QED
    BY <1>14, <2>1, <2>2 DEF OperandLists, Number
<1>15. CASE op = "PREDBEGIN"
  <2>1. CASE o \in [1 .. 1 -> C]
    <3>1. o[1] \in C /\ DOMAIN o = {1} /\ Replaced(o, address) = <<RO(o[1])>>
      BY <2>1, Singles DEF RO
    <3>2. Names(o) \subseteq labs
      BY <1>2, <3>1 DEF Names
    <3>3. Replaced(o, address) \in [1 .. 1 -> C]
      BY <1>2, <3>1
    <3> QED
      BY <1>15, <3>2, <3>3 DEF OperandLists
  <2>2. CASE o \in P \X OperandsOf("TF", {0, 1})
    <3>1. /\ o[1] \in P /\ o[2] \in OperandsOf("TF", {0, 1})
          /\ DOMAIN o = {1, 2} /\ Replaced(o, address) = <<RO(o[1]), RO(o[2])>>
      BY <2>2, Pairs DEF RO
    <3>2. Names(o) \subseteq labs
      BY <1>2, <1>4, <3>1 DEF Names
    <3>3. Replaced(o, address) \in P \X OperandsOf("TF", {0, 1})
      BY <1>2, <1>4, <3>1
    <3> QED
      BY <1>15, <3>2, <3>3 DEF OperandLists
  <2> QED
    BY <1>15, <2>1, <2>2 DEF OperandLists
<1>16. CASE op \in {"PREDSET", "PREDCLEAR"}
  <2>1. CASE o \in [1 .. 1 -> P]
    <3>1. o[1] \in P /\ DOMAIN o = {1} /\ Replaced(o, address) = <<RO(o[1])>>
      BY <2>1, Singles DEF RO
    <3>2. Names(o) \subseteq labs
      BY <1>2, <3>1 DEF Names
    <3>3. Replaced(o, address) \in [1 .. 1 -> P]
      BY <1>2, <3>1
    <3> QED
      BY <1>16, <3>2, <3>3 DEF OperandLists
  <2>2. CASE op = "PREDSET" /\ o \in P \X C
    <3>1. o[1] \in P /\ o[2] \in C /\ DOMAIN o = {1, 2} /\ Replaced(o, address) = <<RO(o[1]), RO(o[2])>>
      BY <2>2, Pairs DEF RO
    <3>2. Names(o) \subseteq labs
      BY <1>2, <3>1 DEF Names
    <3>3. Replaced(o, address) \in P \X C
      BY <1>2, <3>1
    <3> QED
      BY <2>2, <3>2, <3>3 DEF OperandLists
  <2> QED
    BY <1>16, <2>1, <2>2 DEF OperandLists
<1>17. CASE op \in {"CYCLE_PRINT", "CYCLE_CLEAR", "HWLOOP_START", "PREDEND"}
  <2>1. o = << >>
    BY <1>17 DEF OperandLists
  <2>2. Names(o) = {} /\ Replaced(o, address) = << >>
    BY <2>1 DEF Names, Replaced
  <2> QED
    BY <1>17, <2>2 DEF OperandLists
<1>18. CASE op \notin {"CALL", "BRANCH", "SETHI", "RD"} \cup CycleOps \cup ExtensionOps
  <2>1. o \in R \X R \X (R \cup Number("SIMM13") \cup OperandsOf("LOW_LABEL", labs))
    BY <1>18 DEF OperandLists, CycleOps, ExtensionOps, Number
  <2>2. /\ o[1] \in R /\ o[2] \in R /\ o[3] \in R \cup Number("SIMM13") \cup OperandsOf("LOW_LABEL", labs)
        /\ DOMAIN o = {1, 2, 3} /\ Replaced(o, address) = <<RO(o[1]), RO(o[2]), RO(o[3])>>
    <3> DEFINE Third == R \cup Number("SIMM13") \cup OperandsOf("LOW_LABEL", labs)
    <3>1. o \in R \X R \X Third
      BY <2>1
    <3> HIDE DEF Third
    <3> QED
      BY <3>1, Triples DEF RO, Third
  <2>3. Names(o) \subseteq labs
    BY <1>2, <1>3, <1>7, <2>2 DEF Names
  <2>4. Replaced(o, address) \in R \X R \X (R \cup Number("SIMM13"))
    BY <1>2, <1>3, <1>7, <2>2
  <2> QED
    BY <1>18, <2>3, <2>4, NoLabels DEF OperandLists, CycleOps, ExtensionOps, Number
<1> QED
  BY <1>8, <1>9, <1>10, <1>11, <1>12, <1>13, <1>14, <1>15, <1>16, <1>17, <1>18 DEF CycleOps, ExtensionOps

LEMMA AllBefore ==
  ASSUME NEW s, IsSource(s), NEW kinds
  PROVE  /\ Before(s, Len(s) + 1, kinds) = Positions(s, kinds)
         /\ Count(s, Len(s) + 1, kinds) = Cardinality(Positions(s, kinds))
         /\ Positions(s, kinds) \subseteq 1 .. Len(s) /\ Len(s) \in Nat
<1>1. Len(s) \in Nat /\ DOMAIN s = 1 .. Len(s)
  BY SourceLength
<1>2. Before(s, Len(s) + 1, kinds) = Positions(s, kinds)
  BY <1>1 DEF Before, Positions
<1> QED
  BY <1>1, <1>2 DEF Count, Positions

\* the label list at the end of the source
LEMMA AddressesRead ==
  ASSUME NEW s, IsSource(s), NEW addresses, LabelsRead(s, Len(s) + 1, addresses)
  PROVE  addresses = AddressOf(s)
<1> DEFINE P == Positions(s, {"label"})
           at(l) == CHOOSE n \in P : s[n].label = l
<1>1. Before(s, Len(s) + 1, {"label"}) = P
  BY AllBefore
<1>2. DOMAIN addresses = Defined(s) /\ \A m \in P : addresses[s[m].label] = Address(s, m)
  BY <1>1 DEF LabelsRead, Defined
<1>3. ASSUME NEW l \in Defined(s)
      PROVE  addresses[l] = Address(s, at(l))
  <2>1. at(l) \in P /\ s[at(l)].label = l
    BY DEF Defined
  <2> QED
    BY <1>2, <2>1
<1>4. addresses = [l \in DOMAIN addresses |-> addresses[l]]
  BY DEF LabelsRead
<1> QED
  BY <1>2, <1>3, <1>4 DEF AddressOf

LEMMA AddressOfType ==
  ASSUME NEW s, IsSource(s)
  PROVE  AddressOf(s) \in [Defined(s) -> Nat]
<1> DEFINE P == Positions(s, {"label"})
           at(l) == CHOOSE n \in P : s[n].label = l
<1>1. ASSUME NEW n \in P
      PROVE  Address(s, n) \in Nat
  <2>1. n \in 1 .. Len(s) + 1
    BY AllBefore
  <2> QED
    BY <2>1, CountStep, InstructionNumberCounts, OffsetStep DEF Address
<1>2. ASSUME NEW l \in Defined(s)
      PROVE  at(l) \in P
  BY DEF Defined
<1> QED
  BY <1>1, <1>2 DEF AddressOf

\* the statements behind the elements of a list
Lists(list, s, kinds, f) ==
  /\ DOMAIN list = 1 .. Cardinality(Positions(s, kinds))
  /\ \A k \in DOMAIN list : Nth(s, k, kinds) \in Positions(s, kinds) /\ list[k] = f[Nth(s, k, kinds)]
  /\ \A n \in Positions(s, kinds) : \E k \in DOMAIN list : Nth(s, k, kinds) = n

LEMMA ElementsListed ==
  ASSUME NEW s, IsSource(s), NEW kinds, NEW f
  PROVE  Lists(Listed(s, Len(s) + 1, kinds, f), s, kinds, f)
<1>1. /\ Before(s, Len(s) + 1, kinds) = Positions(s, kinds)
      /\ Count(s, Len(s) + 1, kinds) = Cardinality(Positions(s, kinds))
      /\ Len(s) \in Nat /\ Positions(s, kinds) \subseteq 1 .. Len(s)
  BY AllBefore
<1>2. \A k \in 1 .. Count(s, Len(s) + 1, kinds) : Nth(s, k, kinds) \in Positions(s, kinds)
  BY <1>1, NthStatement
<1>3. ASSUME NEW n \in Positions(s, kinds)
      PROVE  \E k \in 1 .. Count(s, Len(s) + 1, kinds) : Nth(s, k, kinds) = n
  <2>1. n \in 1 .. Len(s) /\ s[n].kind \in kinds /\ n < Len(s) + 1
    BY <1>1 DEF Positions
  <2>2. n \in 1 .. Len(s) + 1 /\ Len(s) + 1 \in 1 .. Len(s) + 1
    BY <1>1, <2>1
  <2>3. /\ Count(s, n, kinds) \in Nat /\ Count(s, Len(s) + 1, kinds) \in Nat
        /\ Count(s, n, kinds) < Count(s, Len(s) + 1, kinds)
    BY <2>1, <2>2, CountStep, CountGrows
  <2>4. Nth(s, Count(s, n, kinds) + 1, kinds) = n
    BY NthStatement
  <2> QED
    BY <2>3, <2>4
<1> QED
  BY <1>1, <1>2, <1>3 DEF Listed, Lists

\* what checkLabels starts from
AllRead ==
  /\ labels = AddressOf(source)
  /\ instructions = ReadInstructions(source, Len(source) + 1)
  /\ data = ReadData(source, Len(source) + 1)
  /\ \A n \in DOMAIN source : Acceptable(target, source, n)

LEMMA InstructionStatements ==
  ASSUME NEW s, IsSource(s), NEW n \in Positions(s, {"instruction"})
  PROVE  IsInstruction(s[n].instruction, Labels) /\ s[n].kind = "instruction" /\ n \in DOMAIN s
<1>1. IsStatement(s[n], Labels) /\ s[n].kind = "instruction" /\ n \in DOMAIN s
  BY DEF IsSource, Positions
<1> QED
  BY <1>1 DEF IsStatement

LEMMA NamesOfInstruction ==
  ASSUME NEW i, IsInstruction(i, Labels)
  PROVE  ReferencesOf(i) = Names(i.operands) /\ ReferencesOf(i) \subseteq Labels
<1>1. ReferencesOf(i) = Names(i.operands)
  BY DEF ReferencesOf, Names
<1>2. i.operands \in OperandLists(i.op, OperandsOf("LABEL", Labels), Labels)
  BY DEF IsInstruction
<1> DEFINE zero == [l \in Names(i.operands) |-> 0]
<1>3. \A l \in Names(i.operands) : zero[l] \in Int
  OBVIOUS
<1> HIDE DEF zero
<1>4. Names(i.operands) \subseteq Labels
  BY <1>2, <1>3, OperandsResolved
<1> QED
  BY <1>1, <1>4

LEMMA AllListed ==
  ASSUME Given, AllRead
  PROVE  /\ Lists(instructions, source, {"instruction"}, InstructionAt(source))
         /\ Lists(data, source, {"data"}, DatumAt(source))
BY ElementsListed DEF Given, AllRead, ReadInstructions, ReadData

LEMMA ReferencesChecked ==
  ASSUME Given, AllRead
  PROVE  UnknownLabels = {} <=> Referenced(source) \subseteq Defined(source)
<1> DEFINE I == Positions(source, {"instruction"})
           D == Positions(source, {"data"})
<1>1. IsSource(source)
  BY DEF Given
<1>2. DOMAIN labels = Defined(source)
  BY <1>1, AddressOfType DEF AllRead
<1>3. /\ \A k \in DOMAIN instructions : \E n \in I : instructions[k] = source[n].instruction
      /\ \A n \in I : \E k \in DOMAIN instructions : instructions[k] = source[n].instruction
  <2>1. \A n \in I : InstructionAt(source)[n] = source[n].instruction
    BY DEF InstructionAt
  <2> HIDE DEF I
  <2> QED
    BY <2>1, AllListed DEF Lists, I
<1>4. /\ \A k \in DOMAIN data : \E n \in D : data[k].label = source[n].label
      /\ \A n \in D : \E k \in DOMAIN data : data[k].label = source[n].label
  <2>1. \A n \in D : DatumAt(source)[n].label = source[n].label
    BY DEF DatumAt
  <2> HIDE DEF D
  <2> QED
    BY <2>1, AllListed DEF Lists, D
<1>5. \A n \in I : NoLabel \notin ReferencesOf(source[n].instruction)
  BY <1>1, InstructionStatements, NamesOfInstruction, AssemblerAssumption
<1> HIDE DEF I, D
<1>6. Referenced(source) \subseteq Defined(source) <=>
        /\ \A n \in I : ReferencesOf(source[n].instruction) \subseteq Defined(source)
        /\ \A n \in D : source[n].label \in Defined(source) \cup {NoLabel}
  <2> DEFINE named == {ReferencesOf(source[n].instruction) : n \in I}
             used == {source[n].label : n \in D}
  <2>1. Referenced(source) = (used \ {NoLabel}) \cup UNION named
    BY DEF Referenced, I, D
  <2>2. UNION named \subseteq Defined(source) <=>
          \A n \in I : ReferencesOf(source[n].instruction) \subseteq Defined(source)
    OBVIOUS
  <2>3. used \subseteq Defined(source) \cup {NoLabel} <=>
          \A n \in D : source[n].label \in Defined(source) \cup {NoLabel}
    OBVIOUS
  <2> HIDE DEF named, used
  <2> QED
    BY <2>1, <2>2, <2>3
<1>7. UnknownLabels = {} <=>
        /\ \A k \in DOMAIN instructions : ReferencesOf(instructions[k]) \subseteq Defined(source) \cup {NoLabel}
        /\ \A k \in DOMAIN data : data[k].label \in Defined(source) \cup {NoLabel}
  <2>1. ASSUME NEW l
        PROVE  l \in UnknownLabels <=>
                 /\ \/ \E k \in DOMAIN instructions : l \in ReferencesOf(instructions[k])
                    \/ \E k \in DOMAIN data : l = data[k].label
                 /\ l \notin Defined(source) \cup {NoLabel}
    BY <1>2 DEF UnknownLabels
  <2>2. UnknownLabels = {} <=> \A l : l \notin UnknownLabels
    OBVIOUS
  <2> QED
    BY <2>1, <2>2
<1>8. (\A k \in DOMAIN instructions : ReferencesOf(instructions[k]) \subseteq Defined(source) \cup {NoLabel})
        <=> \A n \in I : ReferencesOf(source[n].instruction) \subseteq Defined(source)
  BY <1>3, <1>5
<1>9. (\A k \in DOMAIN data : data[k].label \in Defined(source) \cup {NoLabel})
        <=> \A n \in D : source[n].label \in Defined(source) \cup {NoLabel}
  BY <1>4
<1> QED
  BY <1>6, <1>7, <1>8, <1>9

LEMMA ListsMeant ==
  ASSUME Given, AllRead
  PROVE  /\ MeantInstructions(source) = [k \in DOMAIN instructions |-> Resolved(instructions[k], labels)]
         /\ MeantData(source) =
              [k \in DOMAIN data |->
                 IF data[k].label = NoLabel THEN data[k]
                 ELSE [data[k] EXCEPT !.value = labels[data[k].label], !.label = NoLabel]]
<1>1. IsSource(source) /\ labels = AddressOf(source)
  BY DEF Given, AllRead
<1>2. MeantInstructions(source) = [k \in DOMAIN instructions |-> Resolved(instructions[k], labels)]
  <2>1. DOMAIN instructions = 1 .. Cardinality(Positions(source, {"instruction"}))
    BY AllListed DEF Lists
  <2>2. ASSUME NEW k \in DOMAIN instructions
        PROVE  instructions[k] = source[InstructionStatement(source, k)].instruction
    <3>1. InstructionStatement(source, k) = Nth(source, k, {"instruction"})
      BY InstructionNumberCounts DEF InstructionStatement, Nth
    <3> QED
      BY <3>1, AllListed DEF Lists, InstructionAt
  <2> QED
    BY <1>1, <2>1, <2>2 DEF MeantInstructions
<1>3. DOMAIN data = 1 .. Count(source, Len(source) + 1, {"data"}) /\ DOMAIN data = DOMAIN MeantData(source)
  BY <1>1, AllListed, AllBefore DEF Lists, MeantData
<1>4. ASSUME NEW k \in DOMAIN data
      PROVE  MeantDatum(source, Nth(source, k, {"data"})) =
               IF data[k].label = NoLabel THEN data[k]
               ELSE [data[k] EXCEPT !.value = labels[data[k].label], !.label = NoLabel]
  <2> DEFINE n == Nth(source, k, {"data"})
             l == source[n].label
             d == [at |-> Offset(source, n), bytes |-> source[n].bytes, value |-> source[n].value, label |-> l]
  <2>1. data[k] = d
    BY AllListed DEF Lists, DatumAt
  <2>2. MeantDatum(source, n) = IF l = NoLabel THEN d ELSE [d EXCEPT !.value = AddressOf(source)[l], !.label = NoLabel]
    BY DEF MeantDatum, NumberAt
  <2>3. d.label = l
    OBVIOUS
  <2> HIDE DEF n, l, d
  <2>4. MeantDatum(source, n) =
          IF data[k].label = NoLabel THEN data[k]
          ELSE [data[k] EXCEPT !.value = labels[data[k].label], !.label = NoLabel]
    BY <1>1, <2>1, <2>2, <2>3
  <2> QED
    BY <2>4 DEF n
<1> QED
  BY <1>2, <1>3, <1>4 DEF MeantData

\* the lists stand for the source
Translating ==
  /\ Correct(target, source)
  /\ instructions = MeantInstructions(source)
  /\ data = MeantData(source)

LEMMA LabelsChecked ==
  ASSUME Given, Reading, CheckLabels
  PROVE  (phase' = "checked" /\ Given' /\ Translating') \/ Rejected'
<1>1. target' = target /\ source' = source /\ parsed = Len(source) /\ Given'
  BY DEF CheckLabels, given, Given
<1>2. AllRead
  BY <1>1, AddressesRead, SourceLength DEF Given, Reading, AllRead
<1>3. UnknownLabels = {} <=> Correct(target, source)
  BY <1>2, ReferencesChecked DEF AllRead, Correct
<1>4. CASE UnknownLabels = {}
  BY <1>1, <1>2, <1>3, <1>4, ListsMeant DEF CheckLabels, Translating
<1>5. CASE UnknownLabels # {}
  BY <1>1, <1>3, <1>5 DEF CheckLabels, Rejected, WalkedOff
<1> QED
  BY <1>4, <1>5

(***************************************************************************)
(* An instruction stays one its target supports when its labels become     *)
(* addresses.                                                              *)
(***************************************************************************)
LEMMA ResolvedType ==
  ASSUME NEW i, IsInstruction(i, Labels), NEW address, \A l \in ReferencesOf(i) : address[l] \in Int
  PROVE  IsResolved(Resolved(i, address))
<1>1. PICK op \in Opcodes : i \in [op : {op}, operands : OperandLists(op, OperandsOf("LABEL", Labels), Labels)]
  BY DEF IsInstruction
<1>2. i = [op |-> op, operands |-> i.operands]
      /\ i.operands \in OperandLists(op, OperandsOf("LABEL", Labels), Labels)
  BY <1>1
<1>3. Replaced(i.operands, address) \in OperandLists(op, AddressOperands, {})
  BY <1>2, OperandsResolved, NamesOfInstruction
<1>4. Resolved(i, address) = [op |-> op, operands |-> Replaced(i.operands, address)]
  BY <1>2 DEF Resolved, Replaced
<1> HIDE DEF Replaced
<1> QED
  BY <1>3, <1>4 DEF IsResolved, AddressOperands, Number
-----------------------------------------------------------------------------
(* The data image *)

Byte == 0 .. 255
DatumType == [at : Nat, bytes : {1, 2, 4}, value : Int, label : {NoLabel}]

LEMMA MeantDataInOrder ==
  ASSUME NEW s, IsSource(s), Referenced(s) \subseteq Defined(s)
  PROVE  /\ MeantData(s) \in Seq(DatumType)
         /\ \A k \in 1 .. Len(MeantData(s)) : \A j \in 1 .. k - 1 :
              MeantData(s)[j].at + MeantData(s)[j].bytes <= MeantData(s)[k].at
<1> DEFINE D == Positions(s, {"data"})
           N == Count(s, Len(s) + 1, {"data"})
           At(k) == Nth(s, k, {"data"})
<1>1. Len(s) \in Nat /\ Len(s) + 1 \in 1 .. Len(s) + 1
  BY SourceLength
<1>2. N \in Nat
  BY <1>1, CountStep
<1>3. \A k \in 1 .. N : At(k) \in D /\ At(k) \in 1 .. Len(s) /\ Count(s, At(k), {"data"}) = k - 1
  BY <1>1, NthStatement, AllBefore
<1>4. ASSUME NEW n \in D
      PROVE  MeantDatum(s, n) \in DatumType /\ Size(s[n]) = s[n].bytes
  <2>1. n \in 1 .. Len(s) /\ n \in 1 .. Len(s) + 1 /\ s[n].kind = "data" /\ IsStatement(s[n], Labels)
    BY AllBefore DEF IsSource, Positions
  <2>2. Offset(s, n) \in Nat /\ s[n].bytes \in {1, 2, 4} /\ s[n].value \in Int /\ Size(s[n]) = s[n].bytes
    BY <2>1, OffsetStep, StatementSize DEF IsStatement
  <2>3. NumberAt(s, n) \in Int
    <3>1. s[n].label # NoLabel => s[n].label \in Defined(s)
      BY DEF Referenced
    <3> QED
      BY <2>2, <3>1, AddressOfType DEF NumberAt
  <2> QED
    BY <2>2, <2>3 DEF MeantDatum, DatumType
<1>5. \A k \in 1 .. N : MeantDatum(s, At(k)) \in DatumType
  BY <1>3, <1>4
<1>6. MeantData(s) \in [1 .. N -> DatumType]
  BY <1>5 DEF MeantData
<1>7. MeantData(s) \in Seq(DatumType) /\ Len(MeantData(s)) = N
  <2> HIDE DEF N
  <2> QED
    BY <1>2, <1>6
<1>8. ASSUME NEW k \in 1 .. N, NEW j \in 1 .. k - 1
      PROVE  MeantData(s)[j].at + MeantData(s)[j].bytes <= MeantData(s)[k].at
  <2>1. j \in 1 .. N /\ j < k
    BY <1>2
  <2>2. /\ At(j) \in D /\ At(j) \in 1 .. Len(s) /\ Count(s, At(j), {"data"}) = j - 1
        /\ At(k) \in D /\ At(k) \in 1 .. Len(s) /\ Count(s, At(k), {"data"}) = k - 1
    BY <1>3, <2>1
  <2> HIDE DEF At, D
  <2>3. At(j) < At(k)
    <3>1. At(k) <= At(j) => At(k) \in 1 .. At(j) /\ At(j) \in 1 .. Len(s) + 1
      BY <1>1, <2>2
    <3>2. At(k) <= At(j) => k - 1 <= j - 1
      BY <2>2, <3>1, CountGrows
    <3>3. At(k) \in Int /\ At(j) \in Int
      BY <2>2
    <3> QED
      BY <1>2, <2>1, <3>2, <3>3
  <2>4. Offset(s, At(j)) + Size(s[At(j)]) <= Offset(s, At(k))
    <3>1. At(j) \in 1 .. At(k) /\ At(k) \in 1 .. Len(s) + 1
      BY <1>1, <2>2, <2>3
    <3> QED
      BY <2>3, <3>1, OffsetGrows
  <2>5. MeantData(s)[j] = MeantDatum(s, At(j)) /\ MeantData(s)[k] = MeantDatum(s, At(k))
    BY <2>1 DEF MeantData, At
  <2>6. Size(s[At(j)]) = s[At(j)].bytes
    BY <1>4, <2>2
  <2> QED
    BY <2>4, <2>5, <2>6 DEF MeantDatum
<1> QED
  BY <1>7, <1>8

\* a sequence made of three others
InThreeParts(s, X, p, q, r) ==
  /\ s \in Seq(X)
  /\ Len(s) = Len(p) + Len(q) + Len(r)
  /\ \A a \in 1 .. Len(p) : s[a] = p[a]
  /\ \A a \in 1 .. Len(q) : s[Len(p) + a] = q[a]
  /\ \A a \in 1 .. Len(r) : s[Len(p) + Len(q) + a] = r[a]

LEMMA ThreeParts ==
  ASSUME NEW X, NEW p \in Seq(X), NEW q \in Seq(X), NEW r \in Seq(X)
  PROVE  InThreeParts(p \o q \o r, X, p, q, r)
BY DEF InThreeParts

LEMMA DatumPrintedBytes ==
  ASSUME NEW image \in Seq(Byte), NEW d \in DatumType
  PROVE  LET printed == DatumPrinted(image, d) IN
         /\ printed \in Seq(Byte)
         /\ Len(image) <= d.at =>
              /\ Len(printed) = d.at + d.bytes
              /\ \A a \in 0 .. d.at + d.bytes - 1 :
                   printed[a + 1] = IF a < Len(image) THEN image[a + 1]
                                    ELSE IF a < d.at THEN 0 ELSE ByteIn(d, a)
<1> DEFINE gap == d.at - Len(image)
           word == BigEndian(d.value, d.bytes)
           printed == image \o Zeros(gap) \o word
<1>1. d.at \in Nat /\ d.bytes \in {1, 2, 4} /\ d.bytes \in Nat /\ d.value \in Int /\ Len(image) \in Nat
  BY DEF DatumType
<1>2. gap \in Int
  BY <1>1
<1>3. Zeros(gap) \in Seq(Byte) /\ (gap \in Nat => Len(Zeros(gap)) = gap)
  <2> HIDE DEF gap
  <2>1. CASE gap \in Nat
    <3>1. Zeros(gap) \in [1 .. gap -> Byte]
      BY DEF Zeros, Byte
    <3> QED
      BY <2>1, <3>1
  <2>2. CASE gap \notin Nat
    <3>1. 1 .. gap = 1 .. 0
      BY <1>2, <2>2
    <3>2. Zeros(gap) \in [1 .. 0 -> Byte]
      BY <3>1 DEF Zeros
    <3> QED
      BY <2>2, <3>2
  <2> QED
    BY <2>1, <2>2
<1>4. word \in Seq(Byte) /\ Len(word) = d.bytes
  <2>1. word \in [1 .. d.bytes -> Byte]
    BY <1>1, BigEndianType, ZenonT(40) DEF Byte
  <2> HIDE DEF word
  <2> QED
    BY <1>1, <2>1
<1>5. DatumPrinted(image, d) = printed
  BY DEF DatumPrinted
<1> DEFINE zeros == Zeros(gap)
<1> HIDE DEF zeros, word
<1>6. /\ printed \in Seq(Byte)
      /\ Len(printed) = Len(image) + Len(zeros) + Len(word)
      /\ \A a \in 1 .. Len(image) : printed[a] = image[a]
      /\ \A a \in 1 .. Len(zeros) : printed[Len(image) + a] = zeros[a]
      /\ \A a \in 1 .. Len(word) : printed[Len(image) + Len(zeros) + a] = word[a]
  <2>1. zeros \in Seq(Byte) /\ word \in Seq(Byte)
    BY <1>3, <1>4 DEF zeros
  <2>2. printed = image \o zeros \o word
    BY DEF zeros
  <2> HIDE DEF printed, gap
  <2>3. InThreeParts(image \o zeros \o word, Byte, image, zeros, word)
    BY <2>1, ThreeParts
  <2> QED
    BY <2>2, <2>3 DEF InThreeParts
<1> HIDE DEF printed
<1>7. ASSUME Len(image) <= d.at
      PROVE  /\ Len(printed) = d.at + d.bytes
             /\ \A a \in 0 .. d.at + d.bytes - 1 :
                  printed[a + 1] = IF a < Len(image) THEN image[a + 1]
                                   ELSE IF a < d.at THEN 0 ELSE ByteIn(d, a)
  <2>1. Len(zeros) = gap /\ gap \in Nat
    BY <1>1, <1>3, <1>7 DEF zeros
  <2>2. Len(printed) = d.at + d.bytes
    BY <1>1, <1>4, <1>6, <2>1
  <2>3. ASSUME NEW a \in 0 .. d.at + d.bytes - 1
        PROVE  printed[a + 1] = IF a < Len(image) THEN image[a + 1]
                                ELSE IF a < d.at THEN 0 ELSE ByteIn(d, a)
    <3> a \in Int /\ a <= d.at + d.bytes - 1 /\ 0 <= a
      BY <1>1
    <3>1. CASE a < Len(image)
      BY <1>1, <1>6, <3>1
    <3>2. CASE Len(image) <= a /\ a < d.at
      <4> DEFINE b == a + 1 - Len(image)
      <4>1. b \in 1 .. gap /\ Len(image) + b = a + 1
        BY <1>1, <3>2
      <4>2. \A k \in 1 .. gap : Zeros(gap)[k] = 0
        <5> HIDE DEF gap
        <5> QED
          BY DEF Zeros
      <4>3. zeros[b] = 0
        BY <4>1, <4>2 DEF zeros
      <4> HIDE DEF b
      <4> QED
        <5>1. printed[a + 1] = 0
          BY <1>6, <2>1, <4>1, <4>3
        <5> QED
          BY <1>1, <3>2, <5>1
    <3>3. CASE d.at <= a
      <4> DEFINE b == a + 1 - d.at
      <4>1. b \in 1 .. d.bytes /\ d.at + b = a + 1 /\ d.bytes - b = LastOf(d) - a
        <5>1. LastOf(d) = d.at + d.bytes - 1
          BY DEF LastOf
        <5>2. b \in Int /\ d.at + b = a + 1 /\ d.bytes - b = LastOf(d) - a
          BY <1>1, <5>1, SMTT(40)
        <5>3. 1 <= b /\ b <= d.bytes
          BY <1>1, <3>3
        <5> QED
          BY <1>1, <5>2, <5>3
      <4>2. word[b] = (d.value \div 256^(d.bytes - b)) % 256
        BY <4>1 DEF BigEndian, word
      <4>3. word[b] = ByteIn(d, a)
        <5> HIDE DEF b
        <5> QED
          BY <4>1, <4>2 DEF ByteIn
      <4>4. Len(image) + Len(zeros) + b = a + 1
        BY <1>1, <2>1
      <4> HIDE DEF b
      <4>5. printed[a + 1] = word[b]
        BY <1>4, <1>6, <4>1, <4>4
      <4>6. ~(a < Len(image)) /\ ~(a < d.at)
        BY <1>1, <1>7, <3>3
      <4> QED
        BY <4>3, <4>5, <4>6
    <3> QED
      BY <1>1, <3>1, <3>2, <3>3
  <2> QED
    BY <2>2, <2>3
<1> QED
  BY <1>5, <1>6, <1>7

LEMMA PrintedSteps ==
  ASSUME data \in Seq(DatumType)
  PROVE  /\ Printed[0] = << >>
         /\ \A n \in 0 .. Len(data) : Printed[n] \in Seq(Byte)
         /\ \A n \in 1 .. Len(data) : Printed[n] = DatumPrinted(Printed[n - 1], data[n])
<1> DEFINE N == Len(data)
           X == Seq(Byte)
           step == [p \in X \X (1 .. N) |-> DatumPrinted(p[1], data[p[2]])]
           Shaped(f) == [n \in 0 .. N |-> IF n = 0 THEN << >> ELSE DatumPrinted(f[n - 1], data[n])]
<1>1. N \in Nat /\ \A n \in 1 .. N : data[n] \in DatumType
  OBVIOUS
<1>2. step \in [X \X (1 .. N) -> X]
  <2>1. ASSUME NEW p \in X \X (1 .. N) PROVE DatumPrinted(p[1], data[p[2]]) \in X
    <3>1. p[1] \in Seq(Byte) /\ data[p[2]] \in DatumType
      BY <1>1
    <3> QED
      BY <3>1, DatumPrintedBytes
  <2> HIDE DEF X
  <2> QED
    BY <2>1
<1>3. << >> \in X
  OBVIOUS
<1>4. PICK f \in [0 .. N -> X] : Follows(f, N, << >>, step)
  <2> HIDE DEF step, N, X
  <2> QED
    BY <1>1, <1>2, <1>3, RecursionExists
<1>5. f[0] = << >> /\ \A n \in 1 .. N : f[n] = DatumPrinted(f[n - 1], data[n])
  <2>1. ASSUME NEW n \in 1 .. N PROVE f[n] = DatumPrinted(f[n - 1], data[n])
    <3>1. f[n] = step[<<f[n - 1], n>>]
      BY <1>4 DEF Follows
    <3>2. n - 1 \in 0 .. N
      BY <1>1
    <3>3. <<f[n - 1], n>> \in X \X (1 .. N)
      <4> HIDE DEF X
      <4> QED
        BY <3>2
    <3> HIDE DEF X
    <3> QED
      BY <3>1, <3>3
  <2> QED
    BY <1>4, <2>1 DEF Follows
<1>6. f = Shaped(f)
  <2> HIDE DEF X
  <2>1. f = [n \in 0 .. N |-> f[n]]
    OBVIOUS
  <2>2. ASSUME NEW n \in 0 .. N PROVE f[n] = IF n = 0 THEN << >> ELSE DatumPrinted(f[n - 1], data[n])
    <3>1. n = 0 \/ n \in 1 .. N
      BY <1>1
    <3> QED
      BY <1>5, <3>1
  <2> QED
    BY <2>1, <2>2
<1>7. Printed = CHOOSE g : g = Shaped(g)
  BY DEF Printed
<1>8. Printed = Shaped(Printed)
  <2> HIDE DEF Shaped
  <2> QED
    BY <1>6, <1>7
<1>9. /\ Printed[0] = << >>
      /\ \A n \in 1 .. N : Printed[n] = DatumPrinted(Printed[n - 1], data[n])
  <2>1. 0 \in 0 .. N /\ \A n \in 1 .. N : n \in 0 .. N /\ n # 0
    BY <1>1
  <2> HIDE DEF N
  <2>2. \A n \in 0 .. N : Printed[n] = IF n = 0 THEN << >> ELSE DatumPrinted(Printed[n - 1], data[n])
    BY <1>8
  <2> QED
    BY <2>1, <2>2
<1>10. \A n \in Nat : n \in 0 .. N => Printed[n] \in X
  <2> DEFINE S == {n \in Nat : n \in 0 .. N => Printed[n] \in X}
  <2>1. 0 \in S
    BY <1>3, <1>9
  <2>2. ASSUME NEW n \in Nat, n \in S
        PROVE  n + 1 \in S
    <3>1. CASE n + 1 \in 0 .. N
      <4>1. n \in 0 .. N /\ n + 1 \in 1 .. N /\ (n + 1) - 1 = n
        BY <1>1, <3>1
      <4>2. Printed[n] \in Seq(Byte) /\ data[n + 1] \in DatumType
        BY <1>1, <2>2, <4>1
      <4>3. Printed[n + 1] = DatumPrinted(Printed[n], data[n + 1])
        BY <1>9, <4>1
      <4>4. DatumPrinted(Printed[n], data[n + 1]) \in X
        BY <4>2, DatumPrintedBytes
      <4> HIDE DEF X
      <4> QED
        BY <4>3, <4>4
    <3>2. CASE n + 1 \notin 0 .. N
      BY <3>2
    <3> QED
      BY <3>1, <3>2
  <2> HIDE DEF S
  <2>3. Nat \subseteq S
    BY <2>1, <2>2, Induction
  <2> QED
    BY <2>3 DEF S
<1> QED
  BY <1>9, <1>10

Covers(d, a) == a \in d.at .. LastOf(d)
InOrder == \A k \in 1 .. Len(data) : \A j \in 1 .. k - 1 : data[j].at + data[j].bytes <= data[k].at
EndOf(n) == IF n = 0 THEN 0 ELSE data[n].at + data[n].bytes

\* the image after the first n data
PrintedRight(n) ==
  /\ Len(Printed[n]) = EndOf(n)
  /\ \A a \in 0 .. EndOf(n) - 1 :
       /\ \A k \in 1 .. n : Covers(data[k], a) => Printed[n][a + 1] = ByteIn(data[k], a)
       /\ (\A k \in 1 .. n : ~Covers(data[k], a)) => Printed[n][a + 1] = 0

LEMMA EndsInOrder ==
  ASSUME data \in Seq(DatumType), InOrder, NEW n \in 0 .. Len(data)
  PROVE  /\ EndOf(n) \in Nat
         /\ \A k \in 1 .. n : \A a \in Int : Covers(data[k], a) => a < EndOf(n) /\ 0 <= a
         /\ \A k \in n + 1 .. Len(data) : EndOf(n) <= data[k].at
<1>1. \A k \in 1 .. Len(data) : /\ data[k].at \in Nat /\ data[k].bytes \in Nat /\ data[k].bytes > 0
                                /\ LastOf(data[k]) = data[k].at + data[k].bytes - 1
  <2>1. \A k \in 1 .. Len(data) : data[k] \in DatumType
    OBVIOUS
  <2> QED
    BY <2>1, SMTT(40) DEF DatumType, LastOf
<1>2. Len(data) \in Nat
  OBVIOUS
<1>3. EndOf(n) \in Nat
  BY <1>1, <1>2 DEF EndOf
<1>4. ASSUME NEW k \in 1 .. n, NEW a \in Int, Covers(data[k], a)
      PROVE  a < EndOf(n) /\ 0 <= a
  <2>1. k \in 1 .. Len(data) /\ n \in 1 .. Len(data) /\ n # 0
    BY <1>2
  <2>2. k = n \/ data[k].at + data[k].bytes <= data[n].at
    BY <1>2, <2>1 DEF InOrder
  <2>3. data[k].at <= a /\ a <= data[k].at + data[k].bytes - 1
    BY <1>1, <1>4, <2>1 DEF Covers
  <2>4. EndOf(n) = data[n].at + data[n].bytes
    BY <2>1 DEF EndOf
  <2>5. data[k].at \in Nat /\ data[k].bytes \in Nat /\ data[n].at \in Nat /\ data[n].bytes \in Nat
    BY <1>1, <2>1
  <2>6. data[k].at + data[k].bytes <= data[n].at + data[n].bytes
    <3>1. CASE k = n
      BY <2>5, <3>1
    <3>2. CASE k # n
      BY <2>2, <2>5, <3>2
    <3> QED
      BY <3>1, <3>2
  <2> QED
    BY <2>3, <2>4, <2>5, <2>6, SMTT(40)
<1>5. ASSUME NEW k \in n + 1 .. Len(data)
      PROVE  EndOf(n) <= data[k].at
  <2>1. k \in 1 .. Len(data)
    BY <1>2
  <2>2. n # 0 => n \in 1 .. k - 1
    BY <1>2
  <2> QED
    BY <1>1, <2>1, <2>2 DEF EndOf, InOrder
<1> QED
  BY <1>3, <1>4, <1>5

LEMMA PrintedRightStep ==
  ASSUME data \in Seq(DatumType), InOrder, NEW n \in 0 .. Len(data), n + 1 \in 0 .. Len(data), PrintedRight(n)
  PROVE  PrintedRight(n + 1)
<1> DEFINE d == data[n + 1]
           new == Printed[n + 1]
           old == Printed[n]
<1>1. n \in Nat /\ n + 1 \in 1 .. Len(data) /\ (n + 1) - 1 = n /\ n + 1 # 0 /\ n + 1 \in n + 1 .. Len(data)
  OBVIOUS
<1>2. d \in DatumType
  BY <1>1
<1>3. d.at \in Nat /\ d.bytes \in Nat /\ d.bytes > 0 /\ LastOf(d) = d.at + d.bytes - 1
  BY <1>2 DEF DatumType, LastOf
<1>4. old \in Seq(Byte) /\ new = DatumPrinted(old, d)
  BY <1>1, PrintedSteps
<1>5. EndOf(n) \in Nat /\ EndOf(n) <= d.at /\ EndOf(n + 1) = d.at + d.bytes
      /\ \A k \in 1 .. n : \A a \in Int : Covers(data[k], a) => a < EndOf(n)
  BY <1>1, EndsInOrder DEF EndOf
<1>6. Len(old) = EndOf(n)
  BY DEF PrintedRight
<1> HIDE DEF d, old, new
<1>7. /\ Len(new) = d.at + d.bytes
      /\ \A a \in 0 .. d.at + d.bytes - 1 :
           new[a + 1] = IF a < Len(old) THEN old[a + 1] ELSE IF a < d.at THEN 0 ELSE ByteIn(d, a)
  BY <1>2, <1>4, <1>5, <1>6, DatumPrintedBytes
<1>8. ASSUME NEW a \in 0 .. EndOf(n + 1) - 1
      PROVE  /\ \A k \in 1 .. n + 1 : Covers(data[k], a) => new[a + 1] = ByteIn(data[k], a)
             /\ (\A k \in 1 .. n + 1 : ~Covers(data[k], a)) => new[a + 1] = 0
  <2>1. a \in Int /\ 0 <= a /\ a <= d.at + d.bytes - 1 /\ a \in 0 .. d.at + d.bytes - 1
    BY <1>3, <1>5
  <2>2. \A k \in 1 .. n + 1 : k \in 1 .. n \/ k = n + 1
    BY <1>1
  <2>3. 1 .. n \subseteq 1 .. n + 1 /\ n + 1 \in 1 .. n + 1
    BY <1>1
  <2>4. Covers(d, a) <=> d.at <= a
    BY <1>3, <2>1 DEF Covers
  <2>5. CASE a < EndOf(n)
    <3>1. new[a + 1] = old[a + 1] /\ ~Covers(d, a)
      BY <1>3, <1>5, <1>6, <1>7, <2>1, <2>4, <2>5
    <3>2. /\ \A k \in 1 .. n : Covers(data[k], a) => old[a + 1] = ByteIn(data[k], a)
          /\ (\A k \in 1 .. n : ~Covers(data[k], a)) => old[a + 1] = 0
      <4>1. a \in 0 .. EndOf(n) - 1
        BY <1>5, <2>1, <2>5
      <4> QED
        BY <4>1 DEF PrintedRight, old
    <3> QED
      BY <2>2, <2>3, <3>1, <3>2 DEF d
  <2>6. CASE EndOf(n) <= a
    <3>1. \A k \in 1 .. n : ~Covers(data[k], a)
      BY <1>5, <2>1, <2>6
    <3>2. new[a + 1] = IF a < d.at THEN 0 ELSE ByteIn(d, a)
      BY <1>5, <1>6, <1>7, <2>1, <2>6
    <3>3. a < d.at \/ d.at <= a
      BY <1>3, <2>1
    <3>4. a < d.at => ~(d.at <= a)
      BY <1>3, <2>1
    <3>5. (Covers(d, a) => new[a + 1] = ByteIn(d, a)) /\ (~Covers(d, a) => new[a + 1] = 0)
      BY <2>4, <3>2, <3>3, <3>4
    <3> QED
      BY <2>2, <2>3, <3>1, <3>5 DEF d
  <2> QED
    BY <1>5, <2>1, <2>5, <2>6
<1> QED
  BY <1>5, <1>7, <1>8 DEF PrintedRight, new

LEMMA ImageBytes ==
  ASSUME data \in Seq(DatumType), InOrder
  PROVE  Image \in Seq(Byte) /\ Image = Printed[Len(data)] /\ PrintedRight(Len(data))
<1> DEFINE S == {n \in Nat : n \in 0 .. Len(data) => PrintedRight(n)}
<1>1. Len(data) \in Nat
  OBVIOUS
<1>2. 0 \in S
  BY PrintedSteps DEF PrintedRight, EndOf
<1>3. ASSUME NEW n \in Nat, n \in S
      PROVE  n + 1 \in S
  <2>1. n + 1 \in 0 .. Len(data) => n \in 0 .. Len(data)
    BY <1>1
  <2> QED
    BY <1>3, <2>1, PrintedRightStep
<1> HIDE DEF S
<1>4. Nat \subseteq S
  BY <1>2, <1>3, Induction
<1>5. PrintedRight(Len(data))
  <2>1. Len(data) \in 0 .. Len(data) /\ Len(data) \in S
    BY <1>1, <1>4
  <2> QED
    BY <2>1 DEF S
<1> QED
  BY <1>1, <1>5, PrintedSteps DEF Image

LEMMA PlacedData ==
  ASSUME Given, data = MeantData(source)
  PROVE  Placed(source) = {[at |-> data[k].at, bytes |-> data[k].bytes, value |-> data[k].value] : k \in 1 .. Len(data)}
<1> DEFINE D == Positions(source, {"data"})
           placed(n) == [at |-> Offset(source, n), bytes |-> source[n].bytes, value |-> NumberAt(source, n)]
           At(k) == Nth(source, k, {"data"})
           N == Count(source, Len(source) + 1, {"data"})
<1>1. IsSource(source) /\ Len(source) \in Nat
  BY SourceLength DEF Given
<1>2. Lists(Listed(source, Len(source) + 1, {"data"}, DatumAt(source)), source, {"data"}, DatumAt(source))
  BY <1>1, ElementsListed
<1>3. N = Cardinality(D) /\ N \in Nat
  <2>1. Len(source) + 1 \in 1 .. Len(source) + 1
    BY <1>1
  <2> QED
    BY <1>1, <2>1, AllBefore, CountStep
<1>4. /\ \A k \in 1 .. N : At(k) \in D
      /\ \A n \in D : \E k \in 1 .. N : At(k) = n
  BY <1>2, <1>3 DEF Lists
<1>5. Len(data) = N
  BY <1>3 DEF MeantData
<1>6. \A k \in 1 .. N : [at |-> data[k].at, bytes |-> data[k].bytes, value |-> data[k].value] = placed(At(k))
  BY DEF MeantData, MeantDatum
<1>7. Placed(source) = {placed(n) : n \in D}
  BY DEF Placed
<1> HIDE DEF D, placed, At, N
<1> QED
  BY <1>4, <1>5, <1>6, <1>7

(***************************************************************************)
(* printData writes the memory the source means.                           *)
(***************************************************************************)
LEMMA ImageMeant ==
  ASSUME Given, Correct(target, source), data = MeantData(source)
  PROVE  Image \in Seq(Byte) /\ Image = MeantMemory(source)
<1> DEFINE N == Len(data)
           P(k) == [at |-> data[k].at, bytes |-> data[k].bytes, value |-> data[k].value]
           placed == Placed(source)
<1>1. data \in Seq(DatumType) /\ InOrder
  BY MeantDataInOrder DEF Given, Correct, InOrder
<1>2. N \in Nat /\ N \in 0 .. N /\ \A k \in 1 .. N : data[k] \in DatumType
  BY <1>1
<1>3. \A k \in 1 .. N : /\ data[k].at \in Nat /\ data[k].bytes \in Nat /\ data[k].bytes > 0
                        /\ LastOf(data[k]) = data[k].at + data[k].bytes - 1
  BY <1>2 DEF DatumType, LastOf
<1>4. Image \in Seq(Byte) /\ PrintedRight(N) /\ Len(Image) = EndOf(N) /\ Image = Printed[N]
  BY <1>1, ImageBytes DEF PrintedRight
<1>5. placed = {P(k) : k \in 1 .. N}
  BY PlacedData
<1>6. \A k \in 1 .. N : LastOf(P(k)) = LastOf(data[k]) /\ P(k).at = data[k].at
                        /\ \A a : ByteIn(P(k), a) = ByteIn(data[k], a)
  BY DEF LastOf, ByteIn
<1>7. /\ EndOf(N) \in Nat
      /\ \A k \in 1 .. N : \A a \in Int : Covers(data[k], a) => a < EndOf(N) /\ 0 <= a
  BY <1>1, <1>2, EndsInOrder
<1> HIDE DEF P, placed, N
<1>8. MemoryEnd(source) = EndOf(N)
  <2> DEFINE ends == {0} \cup {LastOf(d) + 1 : d \in placed}
  <2>1. ends = {0} \cup {LastOf(data[k]) + 1 : k \in 1 .. N}
    BY <1>5, <1>6
  <2>2. \A k \in 1 .. N : LastOf(data[k]) + 1 = data[k].at + data[k].bytes
    BY <1>3
  <2>3. \A k \in 1 .. N : data[k].at + data[k].bytes <= EndOf(N) /\ data[k].at + data[k].bytes \in Int
    <3>1. ASSUME NEW k \in 1 .. N
          PROVE  data[k].at + data[k].bytes <= EndOf(N)
      <4>1. LastOf(data[k]) \in Int /\ Covers(data[k], LastOf(data[k]))
        BY <1>3 DEF Covers
      <4>2. LastOf(data[k]) < EndOf(N)
        BY <1>7, <4>1
      <4> QED
        BY <1>3, <1>7, <4>2
    <3> QED
      BY <1>3, <3>1
  <2>4. EndOf(N) \in ends
    <3>1. N = 0 \/ N \in 1 .. N
      BY <1>2
    <3> QED
      BY <2>1, <2>2, <3>1 DEF EndOf
  <2>5. ends \subseteq Int /\ \A e \in ends : e <= EndOf(N)
    BY <1>7, <2>1, <2>2, <2>3
  <2>6. MemoryEnd(source) = Greatest(ends)
    BY DEF MemoryEnd, placed
  <2> HIDE DEF ends
  <2> QED
    BY <2>4, <2>5, <2>6, GreatestIs
<1> DEFINE covering(a) == {d \in placed : a \in d.at .. LastOf(d)}
           byteAt(a) == IF covering(a) = {} THEN 0 ELSE ByteIn(CHOOSE d \in covering(a) : TRUE, a)
<1>9. ASSUME NEW a \in 0 .. EndOf(N) - 1
      PROVE  Image[a + 1] = byteAt(a)
  <2>1. \A k \in 1 .. N : P(k) \in covering(a) <=> Covers(data[k], a)
    BY <1>5, <1>6 DEF Covers
  <2>2. \A d \in covering(a) : \E k \in 1 .. N : d = P(k)
    BY <1>5
  <2>3. /\ \A k \in 1 .. N : Covers(data[k], a) => Image[a + 1] = ByteIn(data[k], a)
        /\ (\A k \in 1 .. N : ~Covers(data[k], a)) => Image[a + 1] = 0
    BY <1>4 DEF PrintedRight
  <2>4. CASE covering(a) = {}
    <3>1. \A k \in 1 .. N : ~Covers(data[k], a)
      BY <2>1, <2>4
    <3> QED
      BY <2>3, <2>4, <3>1
  <2>5. CASE covering(a) # {}
    <3> DEFINE d == CHOOSE d \in covering(a) : TRUE
    <3>1. d \in covering(a)
      BY <2>5
    <3> HIDE DEF d, covering
    <3>2. PICK k \in 1 .. N : d = P(k)
      BY <2>2, <3>1
    <3>3. Image[a + 1] = ByteIn(d, a)
      BY <1>6, <2>1, <2>3, <3>1, <3>2
    <3> QED
      BY <2>5, <3>3 DEF d
  <2> QED
    BY <2>4, <2>5
<1>10. MeantMemory(source) = [a \in 1 .. EndOf(N) |-> byteAt(a - 1)]
  BY <1>8 DEF MeantMemory, placed
<1> HIDE DEF byteAt
<1>11. Image = [b \in 1 .. EndOf(N) |-> Image[b]]
  BY <1>4, <1>7
<1>12. ASSUME NEW b \in 1 .. EndOf(N)
       PROVE  Image[b] = byteAt(b - 1)
  <2>1. b - 1 \in 0 .. EndOf(N) - 1 /\ (b - 1) + 1 = b
    BY <1>7
  <2> QED
    BY <1>9, <2>1
<1> QED
  BY <1>4, <1>10, <1>11, <1>12
-----------------------------------------------------------------------------
(* The words *)

LEMMA SupportedResolved ==
  ASSUME NEW t \in Targets, NEW i, IsInstruction(i, Labels), NEW guard, Supported(t, i, guard), NEW address
  PROVE  Supported(t, Resolved(i, address), guard)
<1>1. PICK op \in Opcodes : i \in [op : {op}, operands : OperandLists(op, OperandsOf("LABEL", Labels), Labels)]
  BY DEF IsInstruction
<1>2. i = [op |-> op, operands |-> i.operands]
      /\ i.operands \in OperandLists(op, OperandsOf("LABEL", Labels), Labels)
  BY <1>1
<1> DEFINE o == Replaced(i.operands, address)
<1>3. Resolved(i, address) = [op |-> i.op, operands |-> o]
  BY <1>2 DEF Resolved, Replaced
<1>4. guard = "none"
  BY DEF Supported, HasPredInstrs, HasPredInstrsCC, HasPredInstrsReg
<1>5. i.op = "PREDBEGIN" => o[1] = i.operands[1]
  <2> SUFFICES ASSUME op = "PREDBEGIN" PROVE o[1] = i.operands[1]
    BY <1>2
  <2>1. i.operands \in [1 .. 1 -> ConditionOperands] \cup (PredicateOperands \X OperandsOf("TF", {0, 1}))
    BY <1>2 DEF OperandLists
  <2>2. CASE i.operands \in [1 .. 1 -> ConditionOperands]
    <3>1. i.operands[1] \in ConditionOperands /\ o = <<ResolvedOperand(i.operands[1], address)>>
      BY <2>2, Singles
    <3> HIDE DEF o
    <3> QED
      BY <3>1, PlainOperands
  <2>3. CASE i.operands \in PredicateOperands \X OperandsOf("TF", {0, 1})
    <3>1. /\ i.operands[1] \in PredicateOperands
          /\ o = <<ResolvedOperand(i.operands[1], address), ResolvedOperand(i.operands[2], address)>>
      BY <2>3, Pairs
    <3> HIDE DEF o
    <3> QED
      BY <3>1, PlainOperands
  <2> QED
    BY <2>1, <2>2, <2>3
<1> HIDE DEF o
<1>6. Resolved(i, address).op = i.op /\ Resolved(i, address).operands = o
  BY <1>3
<1> QED
  BY <1>4, <1>5, <1>6 DEF Supported

\* the k-th instruction a source means is one of its statements with addresses for labels
MeantStatement(s, t, i) ==
  \E n \in Positions(s, {"instruction"}) :
    /\ i = Resolved(s[n].instruction, AddressOf(s))
    /\ IsInstruction(s[n].instruction, Labels)
    /\ InRange(s[n].instruction) /\ Supported(t, s[n].instruction, s[n].guard)
    /\ \A l \in ReferencesOf(s[n].instruction) : AddressOf(s)[l] \in Int

LEMMA InstructionsMeant ==
  ASSUME NEW s, IsSource(s), NEW t, Correct(t, s)
  PROVE  /\ Len(MeantInstructions(s)) \in Nat
         /\ DOMAIN MeantInstructions(s) = 1 .. Len(MeantInstructions(s))
         /\ \A k \in 1 .. Len(MeantInstructions(s)) : MeantStatement(s, t, MeantInstructions(s)[k])
<1> DEFINE I == Positions(s, {"instruction"})
           N == Cardinality(I)
           At(k) == InstructionStatement(s, k)
           address == AddressOf(s)
           meant == MeantInstructions(s)
<1>1. Len(s) \in Nat
  BY SourceLength
<1>2. N \in Nat /\ \A k \in 1 .. N : At(k) \in I
  <2>1. Len(s) + 1 \in 1 .. Len(s) + 1
    BY <1>1
  <2>2. \A k : At(k) = Nth(s, k, {"instruction"})
    BY InstructionNumberCounts DEF InstructionStatement, Nth
  <2>3. N = Count(s, Len(s) + 1, {"instruction"}) /\ N \in Nat
    <3>1. Count(s, Len(s) + 1, {"instruction"}) = N
      BY AllBefore
    <3>2. Count(s, Len(s) + 1, {"instruction"}) \in Nat
      BY <2>1, CountStep
    <3> QED
      BY <3>1, <3>2
  <2>4. Before(s, Len(s) + 1, {"instruction"}) = I
    BY AllBefore
  <2>5. \A k \in 1 .. Count(s, Len(s) + 1, {"instruction"}) :
          Nth(s, k, {"instruction"}) \in Before(s, Len(s) + 1, {"instruction"})
    BY <2>1, NthStatement
  <2> HIDE DEF At, I, N
  <2> QED
    BY <2>2, <2>3, <2>4, <2>5
<1>3. meant = [k \in 1 .. N |-> Resolved(s[At(k)].instruction, address)]
  BY DEF MeantInstructions
<1>4. ASSUME NEW n \in I
      PROVE  MeantStatement(s, t, Resolved(s[n].instruction, address))
  <2>1. IsInstruction(s[n].instruction, Labels) /\ s[n].kind = "instruction" /\ n \in DOMAIN s
    BY InstructionStatements
  <2>2. InRange(s[n].instruction) /\ Supported(t, s[n].instruction, s[n].guard)
    BY <2>1 DEF Correct, Acceptable
  <2>3. \A l \in ReferencesOf(s[n].instruction) : address[l] \in Int
    <3>1. ReferencesOf(s[n].instruction) \subseteq Referenced(s)
      BY DEF Referenced
    <3> QED
      BY <3>1, AddressOfType DEF Correct
  <2> QED
    BY <2>1, <2>2, <2>3 DEF MeantStatement
<1>5. Len(meant) = N
  <2> HIDE DEF N, At, address, meant
  <2> QED
    BY <1>2, <1>3
<1> HIDE DEF N, At, I, address, meant
<1>6. Len(meant) \in Nat /\ DOMAIN meant = 1 .. Len(meant)
  BY <1>2, <1>3, <1>5
<1>7. ASSUME NEW k \in 1 .. Len(meant)
      PROVE  MeantStatement(s, t, meant[k])
  BY <1>2, <1>3, <1>4, <1>5
<1> QED
  BY <1>6, <1>7 DEF meant

LEMMA InstructionsTranslated ==
  ASSUME Given, Translating
  PROVE  /\ Len(instructions) \in Nat /\ DOMAIN instructions = 1 .. Len(instructions)
         /\ \A k \in 1 .. Len(instructions) :
              /\ IsResolved(instructions[k])
              /\ \E guard : Supported(target, instructions[k], guard)
<1>1. /\ Len(instructions) \in Nat /\ DOMAIN instructions = 1 .. Len(instructions)
      /\ \A k \in 1 .. Len(instructions) : MeantStatement(source, target, instructions[k])
  BY InstructionsMeant DEF Given, Translating
<1>2. ASSUME NEW i, MeantStatement(source, target, i)
      PROVE  IsResolved(i) /\ \E guard : Supported(target, i, guard)
  BY <1>2, ResolvedType, SupportedResolved DEF Given, MeantStatement
<1> QED
  BY <1>1, <1>2

\* the words of the instructions before the first that printInstructions does not survive
LEMMA WordsOfType ==
  ASSUME Given, Translating, NEW n \in 0 .. Len(instructions),
         \A k \in 1 .. n : Encodable(target, instructions[k])
  PROVE  WordsOf(n) \in Seq(Byte) /\ Len(WordsOf(n)) = 4 * n
<1> DEFINE words == [k \in 1 .. n |-> Encoded(target, instructions[k], k - 1)]
<1>1. Len(instructions) \in Nat /\ n \in Nat
  BY InstructionsTranslated
<1>2. ASSUME NEW k \in 1 .. n
      PROVE  Encoded(target, instructions[k], k - 1) \in WordType
  <2>1. k \in 1 .. Len(instructions) /\ k - 1 \in Int
    BY <1>1
  <2>2. IsResolved(instructions[k]) /\ \E guard : Supported(target, instructions[k], guard)
    BY <2>1, InstructionsTranslated
  <2> QED
    BY <2>1, <2>2, EncodedType DEF Given
<1>3. words \in Seq(WordType) /\ Len(words) = n
  BY <1>1, <1>2
<1> HIDE DEF words
<1>4. BytesOf(words) \in Seq(0 .. 255) /\ Len(BytesOf(words)) = 4 * n
  BY <1>3, BytesOfType
<1> QED
  BY <1>4 DEF WordsOf, words, Byte

LEMMA WordsMeant ==
  ASSUME Given, Translating, \A k \in DOMAIN instructions : Encodable(target, instructions[k])
  PROVE  /\ Words \in Seq(Byte) /\ Len(Words) = 4 * Len(instructions)
         /\ Words = LET meant == MeantInstructions(source)
                    IN  BytesOf([k \in DOMAIN meant |-> Encoded(target, meant[k], k - 1)])
<1>1. Len(instructions) \in Nat /\ DOMAIN instructions = 1 .. Len(instructions)
  BY InstructionsTranslated
<1>2. Len(instructions) \in 0 .. Len(instructions)
  BY <1>1
<1>3. Words \in Seq(Byte) /\ Len(Words) = 4 * Len(instructions)
  BY <1>1, <1>2, WordsOfType DEF Words
<1>4. instructions = MeantInstructions(source)
  BY DEF Translating
<1> QED
  BY <1>1, <1>3, <1>4 DEF Words, WordsOf
-----------------------------------------------------------------------------
(* The file *)

\* a field of the header, or the part of the file from first on
Holds(bytes, first, field) ==
  \A k \in 1 .. Len(field) : bytes[first + k - 1] = field[k]
Spaces(n) == [k \in 1 .. n |-> 32]
Blank(bytes, first, n) == Holds(bytes, first, Spaces(n))

LEMMA PrefixType ==
  ASSUME NEW X, NEW s \in Seq(X), NEW p \in Prefixes(s)
  PROVE  p \in Seq(X) /\ Len(p) <= Len(s) /\ \A k \in 1 .. Len(p) : p[k] = s[k]
<1>1. PICK n \in 0 .. Len(s) : p = SubSeq(s, 1, n)
  BY DEF Prefixes
<1> QED
  BY <1>1

LEMMA WholePrefix ==
  ASSUME NEW X, NEW s \in Seq(X), NEW p \in Prefixes(s), Len(s) <= Len(p)
  PROVE  p = s
<1>1. p \in Seq(X) /\ Len(p) = Len(s) /\ \A k \in 1 .. Len(p) : p[k] = s[k]
  BY PrefixType
<1> QED
  BY <1>1

LEMMA OverwrittenBytes ==
  ASSUME NEW bytes \in Seq(Byte), NEW first \in Nat \ {0}, NEW field \in Seq(Byte)
  PROVE  LET new == Overwritten(bytes, first, field) IN
         /\ new \in Seq(Byte) /\ Len(new) = Len(bytes)
         /\ \A k \in 1 .. Len(bytes) :
              new[k] = IF k \in first .. first + Len(field) - 1 THEN field[k - first + 1] ELSE bytes[k]
<1>1. DOMAIN bytes = 1 .. Len(bytes) /\ Len(bytes) \in Nat /\ Len(field) \in Nat
  OBVIOUS
<1>2. ASSUME NEW k \in 1 .. Len(bytes)
      PROVE  (IF k \in first .. first + Len(field) - 1 THEN field[k - first + 1] ELSE bytes[k]) \in Byte
  <2>1. CASE k \in first .. first + Len(field) - 1
    <3>1. k - first + 1 \in 1 .. Len(field)
      BY <1>1, <2>1
    <3> QED
      BY <2>1, <3>1
  <2> QED
    BY <2>1
<1>3. Overwritten(bytes, first, field) \in [1 .. Len(bytes) -> Byte]
  BY <1>1, <1>2 DEF Overwritten
<1> QED
  BY <1>1, <1>3 DEF Overwritten

LEMMA BigEndianBytes ==
  ASSUME NEW value \in Int, NEW n \in {1, 2, 4}
  PROVE  BigEndian(value, n) \in Seq(Byte) /\ Len(BigEndian(value, n)) = n
         /\ BigEndian(value, n) = Field(value, n)
<1>1. BigEndian(value, n) \in [1 .. n -> Byte]
  BY BigEndianType, ZenonT(40) DEF Byte
<1>2. BigEndian(value, n) = Field(value, n)
  BY DEF BigEndian, Field
<1> HIDE DEF BigEndian
<1> QED
  BY <1>1, <1>2

LEMMA TargetIDs ==
  /\ \A t \in Targets : TargetID(t) \in 0 .. 3
  /\ \A t, u \in Targets : TargetID(t) = TargetID(u) => t = u
<1>1. /\ TargetID("v8") = 0 /\ TargetID("v8-blockicc-movcc") = 1
      /\ TargetID("v8-blockpreg-selcc") = 2 /\ TargetID("v8-blockicc-selcc") = 3
  BY DEF TargetID
<1> QED
  BY <1>1 DEF Targets

\* the layout of a whole file
Laid(bytes, id, memoryBytes, words) ==
  /\ Len(bytes) = 10 + Len(memoryBytes) + Len(words)
  /\ Holds(bytes, 1, Field(id, 2))
  /\ Holds(bytes, 3, Field(Len(memoryBytes), 4))
  /\ Holds(bytes, 7, Field(Len(words), 4))
  /\ Holds(bytes, 11, memoryBytes)
  /\ Holds(bytes, 11 + Len(memoryBytes), words)

LEMMA FieldBytes ==
  ASSUME NEW value \in Int, NEW n \in {1, 2, 4}
  PROVE  Field(value, n) \in Seq(Byte) /\ Len(Field(value, n)) = n
BY BigEndianBytes

LEMMA ThreeHeld ==
  ASSUME NEW p \in Seq(Byte), NEW q \in Seq(Byte), NEW r \in Seq(Byte)
  PROVE  /\ p \o q \o r \in Seq(Byte) /\ Len(p \o q \o r) = Len(p) + Len(q) + Len(r)
         /\ Holds(p \o q \o r, 1, p) /\ Holds(p \o q \o r, Len(p) + 1, q)
         /\ Holds(p \o q \o r, Len(p) + Len(q) + 1, r)
<1> DEFINE s == p \o q \o r
<1>1. /\ s \in Seq(Byte) /\ Len(s) = Len(p) + Len(q) + Len(r)
      /\ \A a \in 1 .. Len(p) : s[a] = p[a]
      /\ \A a \in 1 .. Len(q) : s[Len(p) + a] = q[a]
      /\ \A a \in 1 .. Len(r) : s[Len(p) + Len(q) + a] = r[a]
  <2>1. InThreeParts(p \o q \o r, Byte, p, q, r)
    BY ThreeParts
  <2> QED
    BY <2>1 DEF InThreeParts
<1>2. Len(p) \in Nat /\ Len(q) \in Nat /\ Len(r) \in Nat
  OBVIOUS
<1> HIDE DEF s
<1>3. Holds(s, 1, p)
  <2>1. \A k \in 1 .. Len(p) : 1 + k - 1 = k
    BY <1>2
  <2> QED
    BY <1>1, <2>1 DEF Holds
<1>4. Holds(s, Len(p) + 1, q)
  <2>1. \A k \in 1 .. Len(q) : Len(p) + 1 + k - 1 = Len(p) + k
    BY <1>2
  <2> QED
    BY <1>1, <2>1 DEF Holds
<1>5. Holds(s, Len(p) + Len(q) + 1, r)
  <2>1. \A k \in 1 .. Len(r) : Len(p) + Len(q) + 1 + k - 1 = Len(p) + Len(q) + k
    BY <1>2
  <2> QED
    BY <1>1, <2>1 DEF Holds
<1> QED
  BY <1>1, <1>3, <1>4, <1>5 DEF s

\* what the front of a sequence holds, the sequence holds
LEMMA HeldInFront ==
  ASSUME NEW p \in Seq(Byte), NEW q \in Seq(Byte), NEW first \in Nat \ {0}, NEW f \in Seq(Byte),
         Holds(p, first, f), first + Len(f) - 1 <= Len(p)
  PROVE  Holds(p \o q, first, f)
<1>1. Len(p) \in Nat /\ Len(f) \in Nat
  OBVIOUS
<1>2. ASSUME NEW k \in 1 .. Len(f)
      PROVE  (p \o q)[first + k - 1] = f[k]
  <2>1. first + k - 1 \in 1 .. Len(p)
    BY <1>1
  <2>2. (p \o q)[first + k - 1] = p[first + k - 1]
    BY <2>1
  <2> QED
    BY <2>2 DEF Holds
<1> QED
  BY <1>2 DEF Holds

LEMMA LaidOut ==
  ASSUME NEW id \in Int, NEW m \in Seq(Byte), NEW w \in Seq(Byte)
  PROVE  LET bytes == Field(id, 2) \o Field(Len(m), 4) \o Field(Len(w), 4) \o m \o w IN
         bytes \in Seq(Byte) /\ Laid(bytes, id, m, w)
<1> DEFINE i == Field(id, 2)
           l == Field(Len(m), 4)
           n == Field(Len(w), 4)
           head == i \o l \o n
           bytes == head \o m \o w
<1>1. Len(m) \in Nat /\ Len(w) \in Nat
  OBVIOUS
<1>2. /\ i \in Seq(Byte) /\ l \in Seq(Byte) /\ n \in Seq(Byte)
      /\ Len(i) = 2 /\ Len(l) = 4 /\ Len(n) = 4
  BY <1>1, FieldBytes
<1> HIDE DEF i, l, n
<1>3. head \in Seq(Byte) /\ Len(head) = 10 /\ Holds(head, 1, i) /\ Holds(head, 3, l) /\ Holds(head, 7, n)
  <2>1. /\ head \in Seq(Byte) /\ Len(head) = Len(i) + Len(l) + Len(n) /\ Holds(head, 1, i)
        /\ Holds(head, Len(i) + 1, l) /\ Holds(head, Len(i) + Len(l) + 1, n)
    BY <1>2, ThreeHeld, ZenonT(40)
  <2>2. Len(i) + Len(l) + Len(n) = 10 /\ Len(i) + 1 = 3 /\ Len(i) + Len(l) + 1 = 7
    BY <1>2
  <2> HIDE DEF head
  <2> QED
    BY <2>1, <2>2
<1> HIDE DEF head
<1>4. /\ bytes \in Seq(Byte) /\ Len(bytes) = 10 + Len(m) + Len(w)
      /\ Holds(bytes, 11, m) /\ Holds(bytes, 10 + Len(m) + 1, w)
  <2>1. /\ bytes \in Seq(Byte) /\ Len(bytes) = Len(head) + Len(m) + Len(w)
        /\ Holds(bytes, Len(head) + 1, m) /\ Holds(bytes, Len(head) + Len(m) + 1, w)
    BY <1>3, ThreeHeld
  <2>2. Len(head) + 1 = 11
    BY <1>3
  <2> HIDE DEF bytes
  <2> QED
    BY <1>3, <2>1, <2>2
<1>5. m \o w \in Seq(Byte) /\ bytes = head \o (m \o w)
  BY <1>3, SMTT(40)
<1> DEFINE rest == m \o w
<1> HIDE DEF bytes, rest
<1>6. Holds(bytes, 1, i) /\ Holds(bytes, 3, l) /\ Holds(bytes, 7, n)
  <2>1. rest \in Seq(Byte) /\ bytes = head \o rest
    BY <1>5 DEF rest
  <2>2. \A first \in Nat \ {0} : \A f \in Seq(Byte) :
          Holds(head, first, f) /\ first + Len(f) - 1 <= 10 => Holds(bytes, first, f)
    BY <1>3, <2>1, HeldInFront
  <2>3. 1 + Len(i) - 1 <= 10 /\ 3 + Len(l) - 1 <= 10 /\ 7 + Len(n) - 1 <= 10
    BY <1>2
  <2> QED
    BY <1>2, <1>3, <2>2, <2>3, 1 \in Nat \ {0}, 3 \in Nat \ {0}, 7 \in Nat \ {0}
<1>7. 10 + Len(m) + 1 = 11 + Len(m)
  BY <1>1
<1> QED
  BY <1>4, <1>6, <1>7 DEF Laid, bytes, head, i, l, n

LEMMA LaidOnce ==
  ASSUME NEW id \in Int, NEW m \in Seq(Byte), NEW w \in Seq(Byte),
         NEW b \in Seq(Byte), Laid(b, id, m, w), NEW c \in Seq(Byte), Laid(c, id, m, w)
  PROVE  b = c
<1>1. Len(m) \in Nat /\ Len(w) \in Nat
  OBVIOUS
<1>2. Len(Field(id, 2)) = 2 /\ Len(Field(Len(m), 4)) = 4 /\ Len(Field(Len(w), 4)) = 4
  BY <1>1, FieldBytes
<1>3. Len(b) = 10 + Len(m) + Len(w) /\ Len(c) = Len(b)
  BY DEF Laid
<1>4. ASSUME NEW k \in 1 .. Len(b)
      PROVE  b[k] = c[k]
  <2> DEFINE Part(first, f) == k \in first .. first + Len(f) - 1
  <2>1. ASSUME NEW first \in Nat, NEW f, Len(f) \in Nat, Holds(b, first, f), Holds(c, first, f), Part(first, f)
        PROVE  b[k] = c[k]
    <3>1. k - first + 1 \in 1 .. Len(f) /\ first + (k - first + 1) - 1 = k
      BY <2>1
    <3> QED
      BY <2>1, <3>1 DEF Holds
  <2>2. \/ Part(1, Field(id, 2)) \/ Part(3, Field(Len(m), 4)) \/ Part(7, Field(Len(w), 4))
        \/ Part(11, m) \/ Part(11 + Len(m), w)
    <3>1. k \in Int /\ 1 <= k /\ k <= 10 + Len(m) + Len(w)
      BY <1>1, <1>3
    <3>2. \/ k \in 1 .. 2 \/ k \in 3 .. 6 \/ k \in 7 .. 10 \/ k \in 11 .. 11 + Len(m) - 1
          \/ k \in 11 + Len(m) .. 11 + Len(m) + Len(w) - 1
      BY <1>1, <3>1
    <3>3. 1 + 2 - 1 = 2 /\ 3 + 4 - 1 = 6 /\ 7 + 4 - 1 = 10
      OBVIOUS
    <3> QED
      BY <1>2, <3>2, <3>3
  <2>3. 11 + Len(m) \in Nat
    BY <1>1
  <2> HIDE DEF Part
  <2>4. Part(1, Field(id, 2)) => b[k] = c[k]
    BY <1>2, <2>1 DEF Laid
  <2>5. Part(3, Field(Len(m), 4)) => b[k] = c[k]
    BY <1>2, <2>1 DEF Laid
  <2>6. Part(7, Field(Len(w), 4)) => b[k] = c[k]
    BY <1>2, <2>1 DEF Laid
  <2>7. Part(11, m) => b[k] = c[k]
    BY <1>1, <2>1 DEF Laid
  <2>8. Part(11 + Len(m), w) => b[k] = c[k]
    BY <1>1, <2>1, <2>3 DEF Laid
  <2> QED
    BY <2>2, <2>4, <2>5, <2>6, <2>7, <2>8
<1> QED
  BY <1>3, <1>4

MeantWords ==
  LET meant == MeantInstructions(source)
  IN  BytesOf([k \in DOMAIN meant |-> Encoded(target, meant[k], k - 1)])

LEMMA BinaryLaid ==
  ASSUME Given, MeantMemory(source) \in Seq(Byte), MeantWords \in Seq(Byte),
         Len(MeantWords) = 4 * Len(MeantInstructions(source))
  PROVE  /\ Binary(target, source) \in Seq(Byte)
         /\ Laid(Binary(target, source), TargetID(target), MeantMemory(source), MeantWords)
<1> DEFINE m == MeantMemory(source)
           w == MeantWords
<1>1. TargetID(target) \in Int
  BY TargetIDs DEF Given
<1>2. Binary(target, source) = Field(TargetID(target), 2) \o Field(Len(m), 4) \o Field(Len(w), 4) \o m \o w
  BY DEF Binary, MeantWords
<1> HIDE DEF m, w
<1> QED
  BY <1>1, <1>2, LaidOut DEF m, w

LEMMA SpacesBytes ==
  ASSUME NEW n \in Nat
  PROVE  Spaces(n) \in Seq(Byte) /\ Len(Spaces(n)) = n /\ \A k \in 1 .. n : Spaces(n)[k] = 32
BY DEF Spaces, Byte

\* what the overwritten file holds elsewhere
Keeps(bytes, new, first, n) ==
  \A at \in Nat \ {0} : \A g \in Seq(Byte) :
    /\ Holds(bytes, at, g) /\ at + Len(g) - 1 <= Len(bytes)
    /\ at + Len(g) <= first \/ first + n <= at
    => Holds(new, at, g)

LEMMA OverwrittenHeld ==
  ASSUME NEW bytes \in Seq(Byte), NEW first \in Nat \ {0}, NEW field \in Seq(Byte),
         first + Len(field) - 1 <= Len(bytes)
  PROVE  /\ Overwritten(bytes, first, field) \in Seq(Byte)
         /\ Len(Overwritten(bytes, first, field)) = Len(bytes)
         /\ Holds(Overwritten(bytes, first, field), first, field)
         /\ Keeps(bytes, Overwritten(bytes, first, field), first, Len(field))
<1> DEFINE new == Overwritten(bytes, first, field)
<1>1. /\ new \in Seq(Byte) /\ Len(new) = Len(bytes)
      /\ \A k \in 1 .. Len(bytes) :
           new[k] = IF k \in first .. first + Len(field) - 1 THEN field[k - first + 1] ELSE bytes[k]
  BY OverwrittenBytes
<1>2. Len(bytes) \in Nat /\ Len(field) \in Nat
  OBVIOUS
<1> HIDE DEF new
<1>3. Holds(new, first, field)
  <2>1. ASSUME NEW k \in 1 .. Len(field)
        PROVE  new[first + k - 1] = field[k]
    <3>1. first + k - 1 \in 1 .. Len(bytes) /\ first + k - 1 \in first .. first + Len(field) - 1
          /\ (first + k - 1) - first + 1 = k
      BY <1>2
    <3> QED
      BY <1>1, <3>1
  <2> QED
    BY <2>1 DEF Holds
<1>4. ASSUME NEW at \in Nat \ {0}, NEW g \in Seq(Byte),
             Holds(bytes, at, g), at + Len(g) - 1 <= Len(bytes),
             at + Len(g) <= first \/ first + Len(field) <= at
      PROVE  Holds(new, at, g)
  <2>1. ASSUME NEW k \in 1 .. Len(g)
        PROVE  new[at + k - 1] = g[k]
    <3> Len(g) \in Nat
      OBVIOUS
    <3>1. at + k - 1 \in 1 .. Len(bytes) /\ at + k - 1 \notin first .. first + Len(field) - 1
      BY <1>2, <1>4
    <3>2. bytes[at + k - 1] = g[k]
      BY <1>4 DEF Holds
    <3> QED
      BY <1>1, <3>1, <3>2
  <2> QED
    BY <2>1 DEF Holds
<1> QED
  BY <1>1, <1>3, <1>4 DEF new, Keeps

LEMMA StaysBlank ==
  ASSUME NEW bytes \in Seq(Byte), NEW new, NEW first \in Nat, NEW n \in Nat, Keeps(bytes, new, first, n),
         NEW at \in Nat \ {0}, NEW length \in Nat, Blank(bytes, at, length), at + length - 1 <= Len(bytes),
         at + length <= first \/ first + n <= at
  PROVE  Blank(new, at, length)
<1>1. PICK g \in Seq(Byte) : g = Spaces(length) /\ Len(g) = length
  BY SpacesBytes
<1>2. Holds(bytes, at, g)
  BY <1>1 DEF Blank
<1>3. Holds(new, at, g)
  BY <1>1, <1>2 DEF Keeps
<1> QED
  BY <1>1, <1>3 DEF Blank

(* What printData and printInstructions leave in the file *)
DataWritten ==
  /\ file \in Seq(Byte) /\ 10 <= Len(file)
  /\ Blank(file, 1, 2) /\ Blank(file, 7, 4)
  /\ writeError => Blank(file, 3, 4)
  /\ ~writeError =>
       /\ Len(file) = 10 + Len(MeantMemory(source))
       /\ Holds(file, 3, Field(Len(MeantMemory(source)), 4))
       /\ Holds(file, 11, MeantMemory(source))

FileWritten ==
  /\ file \in Seq(Byte) /\ 10 <= Len(file)
  /\ writeError => Blank(file, 1, 2) \/ Blank(file, 3, 4) \/ Blank(file, 7, 4)
  /\ ~writeError =>
       /\ MeantMemory(source) \in Seq(Byte) /\ MeantWords \in Seq(Byte)
       /\ Correct(target, source)
       /\ \A k \in DOMAIN MeantInstructions(source) : Encodable(target, MeantInstructions(source)[k])
       /\ file = Binary(target, source)
       /\ Laid(file, TargetID(target), MeantMemory(source), MeantWords)

Joins(s, p, q) ==
  /\ Len(s) = Len(p) + Len(q)
  /\ \A a \in 1 .. Len(p) : s[a] = p[a]
  /\ \A a \in 1 .. Len(q) : s[Len(p) + a] = q[a]

LEMMA TwoParts ==
  ASSUME NEW X, NEW p \in Seq(X), NEW q \in Seq(X)
  PROVE  p \o q \in Seq(X) /\ Joins(p \o q, p, q)
BY DEF Joins

LEMMA BlanksHeld ==
  ASSUME NEW s \in Seq(Byte)
  PROVE  /\ Blanks \o s \in Seq(Byte) /\ Len(Blanks \o s) = 10 + Len(s)
         /\ Blank(Blanks \o s, 1, 2) /\ Blank(Blanks \o s, 3, 4) /\ Blank(Blanks \o s, 7, 4)
         /\ Holds(Blanks \o s, 11, s)
<1> DEFINE p == Blanks
           b == p \o s
<1>1. p \in Seq(Byte) /\ Len(p) = 10 /\ \A k \in 1 .. 10 : p[k] = 32
  BY DEF Blanks, Byte
<1> HIDE DEF p
<1>2. /\ b \in Seq(Byte) /\ Len(b) = 10 + Len(s)
      /\ \A k \in 1 .. 10 : b[k] = 32
      /\ \A k \in 1 .. Len(s) : b[10 + k] = s[k]
  <2>1. b \in Seq(Byte) /\ Joins(b, p, s)
    BY <1>1, TwoParts
  <2>2. Len(p) = 10 /\ \A k \in 1 .. 10 : p[k] = 32
    BY <1>1
  <2> HIDE DEF b
  <2> QED
    BY <2>1, <2>2 DEF Joins
<1>3. Len(s) \in Nat
  OBVIOUS
<1> HIDE DEF b
<1>4. \A k \in 1 .. Len(s) : 11 + k - 1 = 10 + k
  BY <1>3
<1>5. Holds(b, 11, s)
  BY <1>2, <1>4 DEF Holds
<1>6. ASSUME NEW first \in 1 .. 10, NEW n \in Nat, first + n <= 11
      PROVE  Blank(b, first, n)
  <2>1. ASSUME NEW k \in 1 .. n PROVE b[first + k - 1] = 32
    <3>1. first + k - 1 \in 1 .. 10
      BY <1>6
    <3> QED
      BY <1>2, <3>1
  <2> QED
    BY <2>1, SpacesBytes DEF Blank, Holds
<1> QED
  BY <1>2, <1>5, <1>6 DEF b, p

LEMMA DataPrinted ==
  ASSUME Given, Translating, ~writeError, PrintData
  PROVE  DataWritten' /\ Given' /\ Translating'
<1>1. target' = target /\ source' = source /\ instructions' = instructions /\ data' = data
  BY DEF PrintData, given, lists
<1>2. Given' /\ Translating'
  BY <1>1 DEF Given, Translating
<1>3. Image \in Seq(Byte) /\ Image = MeantMemory(source)
  BY ImageMeant DEF Translating
<1>4. PICK written \in Prefixes(Image), length \in BOOLEAN :
        /\ length => written = Image
        /\ file' = IF length THEN Overwritten(Blanks \o written, 3, BigEndian(Len(Image), 4)) ELSE Blanks \o written
        /\ writeError' = (writeError \/ ~length)
  BY DEF PrintData, Report
<1> DEFINE b == Blanks \o written
           field == Field(Len(Image), 4)
<1>5. written \in Seq(Byte) /\ Len(written) \in Nat /\ Len(Image) \in Nat
  BY <1>3, PrefixType
<1>6. /\ b \in Seq(Byte) /\ Len(b) = 10 + Len(written)
      /\ Blank(b, 1, 2) /\ Blank(b, 3, 4) /\ Blank(b, 7, 4)
      /\ Holds(b, 11, written)
  BY <1>5, BlanksHeld
<1>7. field \in Seq(Byte) /\ Len(field) = 4 /\ BigEndian(Len(Image), 4) = field
  BY <1>5, FieldBytes, BigEndianBytes
<1> HIDE DEF b, field
<1>8. CASE ~length
  <2>1. file' = b /\ writeError'
    BY <1>4, <1>8 DEF b
  <2>2. 10 <= Len(b)
    BY <1>5, <1>6
  <2> QED
    BY <1>2, <1>6, <2>1, <2>2 DEF DataWritten, Blank
<1>9. CASE length
  <2> DEFINE new == Overwritten(b, 3, field)
  <2>1. file' = new /\ ~writeError' /\ written = Image
    BY <1>4, <1>7, <1>9 DEF b
  <2>2. 3 + Len(field) - 1 <= Len(b) /\ Len(b) = 10 + Len(Image)
    BY <1>5, <1>6, <1>7, <2>1
  <2>3. new \in Seq(Byte) /\ Len(new) = Len(b) /\ Holds(new, 3, field) /\ Keeps(b, new, 3, 4)
    <3>1. new \in Seq(Byte) /\ Len(new) = Len(b) /\ Holds(new, 3, field) /\ Keeps(b, new, 3, Len(field))
      <4>1. 3 \in Nat \ {0} /\ 3 + Len(field) - 1 <= Len(b)
        BY <2>2
      <4> QED
        BY <1>6, <1>7, <4>1, OverwrittenHeld
    <3> HIDE DEF new
    <3> QED
      BY <1>7, <3>1
  <2> HIDE DEF new
  <2>4. Blank(new, 1, 2) /\ Blank(new, 7, 4)
    <3>1. Len(b) \in Nat /\ 10 <= Len(b)
      BY <1>5, <2>2
    <3>2. 1 + 2 - 1 <= Len(b) /\ 1 + 2 <= 3 /\ 7 + 4 - 1 <= Len(b) /\ 3 + 4 <= 7
      BY <3>1
    <3>3. Blank(new, 1, 2)
      BY <1>6, <2>3, <3>2, StaysBlank
    <3>4. Blank(new, 7, 4)
      BY <1>6, <2>3, <3>2, StaysBlank
    <3> QED
      BY <3>3, <3>4
  <2>5. Holds(new, 11, Image)
    <3>1. 11 + Len(Image) - 1 <= Len(b) /\ 3 + 4 <= 11
      BY <1>5, <2>2
    <3> QED
      BY <1>3, <1>6, <2>1, <2>3, <3>1, 11 \in Nat \ {0} DEF Keeps
  <2>6. 10 <= Len(new) /\ Len(new) = 10 + Len(Image)
    BY <1>5, <2>2, <2>3
  <2> QED
    BY <1>1, <1>2, <1>3, <2>1, <2>3, <2>4, <2>5, <2>6 DEF DataWritten, Blank, field
<1> QED
  BY <1>8, <1>9

LEMMA FrontBlank ==
  ASSUME NEW p \in Seq(Byte), NEW q \in Seq(Byte), NEW first \in Nat \ {0}, NEW n \in Nat,
         Blank(p, first, n), first + n - 1 <= Len(p)
  PROVE  Blank(p \o q, first, n)
<1>1. PICK g \in Seq(Byte) : g = Spaces(n) /\ Len(g) = n
  BY SpacesBytes
<1>2. Holds(p, first, g)
  BY <1>1 DEF Blank
<1>3. Holds(p \o q, first, g)
  BY <1>1, <1>2, HeldInFront
<1> QED
  BY <1>1, <1>3 DEF Blank

IsBytes(f, n) == f \in Seq(Byte) /\ Len(f) = n

LEMMA FrontField ==
  ASSUME NEW p \in Seq(Byte), NEW q \in Seq(Byte), NEW first \in Nat \ {0},
         NEW f, NEW n \in Nat, IsBytes(f, n), Holds(p, first, f), first + n - 1 <= Len(p)
  PROVE  Holds(p \o q, first, f)
BY HeldInFront DEF IsBytes

LEMMA StaysField ==
  ASSUME NEW bytes \in Seq(Byte), NEW new, NEW first \in Nat, NEW n \in Nat, Keeps(bytes, new, first, n),
         NEW at \in Nat \ {0}, NEW f, NEW length \in Nat, IsBytes(f, length),
         Holds(bytes, at, f), at + length - 1 <= Len(bytes),
         at + length <= first \/ first + n <= at
  PROVE  Holds(new, at, f)
BY DEF Keeps, IsBytes

LEMMA InstructionsPrinted ==
  ASSUME Given, Translating, DataWritten, PrintInstructions
  PROVE  FileWritten' /\ Given'
<1>1. target' = target /\ source' = source
  BY DEF PrintInstructions, given
<1>2. Given'
  BY <1>1 DEF Given
<1> DEFINE m == MeantMemory(source)
           idField == BigEndian(TargetID(target), 2)
           sizeField == BigEndian(Len(Words), 4)
<1>3. /\ Words \in Seq(Byte) /\ Len(Words) = 4 * Len(instructions) /\ Words = MeantWords
      /\ Len(instructions) \in Nat
  BY WordsMeant, InstructionsTranslated DEF PrintInstructions, MeantWords
<1>4. m \in Seq(Byte)
  BY ImageMeant DEF Translating
<1>5. PICK written \in Prefixes(Words), id \in BOOLEAN, length \in BOOLEAN :
        LET bytes == file \o written
            named == IF id THEN Overwritten(bytes, 1, idField) ELSE bytes IN
        /\ id => written = Words
        /\ length => id
        /\ file' = IF length THEN Overwritten(named, 7, sizeField) ELSE named
        /\ writeError' = (writeError \/ ~length)
  BY DEF PrintInstructions, Report
<1> DEFINE b == file \o written
           named == Overwritten(b, 1, idField)
           new == Overwritten(named, 7, sizeField)
<1>6. written \in Seq(Byte) /\ file \in Seq(Byte) /\ Len(file) \in Nat /\ 10 <= Len(file)
  BY <1>3, PrefixType DEF DataWritten
<1>7. b \in Seq(Byte) /\ Joins(b, file, written) /\ Len(b) \in Nat /\ 10 <= Len(b)
  <2>1. b \in Seq(Byte) /\ Joins(b, file, written)
    BY <1>6, TwoParts
  <2>2. Len(written) \in Nat
    BY <1>6
  <2>3. Len(b) = Len(file) + Len(written)
    BY <2>1 DEF Joins
  <2> HIDE DEF b
  <2> QED
    BY <1>6, <2>1, <2>2, <2>3
<1>8. Blank(b, 1, 2) /\ Blank(b, 7, 4) /\ (writeError => Blank(b, 3, 4))
  <2>1. 1 + 2 - 1 <= Len(file) /\ 7 + 4 - 1 <= Len(file) /\ 3 + 4 - 1 <= Len(file)
    BY <1>6
  <2> QED
    BY <1>6, <2>1, FrontBlank DEF DataWritten
<1>9. /\ idField \in Seq(Byte) /\ Len(idField) = 2 /\ idField = Field(TargetID(target), 2)
      /\ sizeField \in Seq(Byte) /\ Len(sizeField) = 4 /\ sizeField = Field(Len(Words), 4)
  <2>1. TargetID(target) \in Int /\ Len(Words) \in Int
    BY <1>3, TargetIDs DEF Given
  <2> QED
    BY <2>1, BigEndianBytes
<1> HIDE DEF b, idField, sizeField
<1>10. named \in Seq(Byte) /\ Len(named) = Len(b) /\ Holds(named, 1, idField) /\ Keeps(b, named, 1, 2)
  <2>1. 1 \in Nat \ {0} /\ 1 + Len(idField) - 1 <= Len(b)
    BY <1>7, <1>9
  <2>2. named \in Seq(Byte) /\ Len(named) = Len(b) /\ Holds(named, 1, idField) /\ Keeps(b, named, 1, Len(idField))
    BY <1>7, <1>9, <2>1, OverwrittenHeld
  <2> HIDE DEF named
  <2> QED
    BY <1>9, <2>2
<1> HIDE DEF named
<1>11. new \in Seq(Byte) /\ Len(new) = Len(b) /\ Holds(new, 7, sizeField) /\ Keeps(named, new, 7, 4)
  <2>1. 7 \in Nat \ {0} /\ 7 + Len(sizeField) - 1 <= Len(named)
    BY <1>7, <1>9, <1>10
  <2>2. new \in Seq(Byte) /\ Len(new) = Len(named) /\ Holds(new, 7, sizeField) /\ Keeps(named, new, 7, Len(sizeField))
    BY <1>9, <1>10, <2>1, OverwrittenHeld
  <2> HIDE DEF new
  <2> QED
    BY <1>9, <1>10, <2>2
<1> HIDE DEF new
<1>12. CASE ~id
  <2>1. file' = b /\ writeError'
    BY <1>5, <1>12 DEF b
  <2>2. file' \in Seq(Byte) /\ 10 <= Len(file') /\ Blank(file', 1, 2)
    BY <1>7, <1>8, <2>1
  <2> QED
    BY <1>2, <2>1, <2>2 DEF FileWritten, Blank
<1>13. CASE id /\ ~length
  <2>1. file' = named /\ writeError'
    BY <1>5, <1>13 DEF b, named
  <2>2. Blank(named, 7, 4)
    <3>1. 7 + 4 - 1 <= Len(b) /\ 1 + 2 <= 7
      BY <1>7
    <3> QED
      BY <1>7, <1>8, <1>10, <3>1, StaysBlank
  <2>3. file' \in Seq(Byte) /\ 10 <= Len(file') /\ Blank(file', 7, 4)
    BY <1>7, <1>10, <2>1, <2>2
  <2> QED
    BY <1>2, <2>1, <2>3 DEF FileWritten, Blank
<1>14. CASE id /\ length /\ writeError
  <2>1. file' = new /\ writeError'
    BY <1>5, <1>14 DEF b, named, new
  <2>2. Blank(named, 3, 4)
    <3>1. 3 + 4 - 1 <= Len(b) /\ 1 + 2 <= 3
      BY <1>7
    <3> QED
      BY <1>7, <1>8, <1>10, <1>14, <3>1, StaysBlank
  <2>3. Blank(new, 3, 4)
    <3>1. 3 + 4 - 1 <= Len(named) /\ 3 + 4 <= 7
      BY <1>7, <1>10
    <3> QED
      BY <1>10, <1>11, <2>2, <3>1, StaysBlank
  <2>4. file' \in Seq(Byte) /\ 10 <= Len(file') /\ Blank(file', 3, 4)
    BY <1>7, <1>11, <2>1, <2>3
  <2> QED
    BY <1>2, <2>1, <2>4 DEF FileWritten, Blank
<1>15. CASE id /\ length /\ ~writeError
  <2>1. file' = new /\ ~writeError' /\ written = Words
    BY <1>5, <1>15 DEF b, named, new
  <2>2. /\ Len(file) = 10 + Len(m) /\ Holds(file, 3, Field(Len(m), 4)) /\ Holds(file, 11, m)
        /\ Len(m) \in Nat /\ Len(Words) \in Nat
    BY <1>3, <1>4, <1>15 DEF DataWritten
  <2>3. Field(Len(m), 4) \in Seq(Byte) /\ Len(Field(Len(m), 4)) = 4
    BY <2>2, FieldBytes
  <2> DEFINE f == Field(Len(m), 4)
  <2>4. IsBytes(f, 4) /\ f = Field(Len(m), 4)
    BY <2>3 DEF IsBytes
  <2> HIDE DEF f
  <2>16. PICK lm \in Nat, lw \in Nat : lm = Len(m) /\ lw = Len(Words)
                                       /\ IsBytes(m, lm) /\ IsBytes(Words, lw) /\ IsBytes(idField, 2)
    BY <1>3, <1>4, <1>9, <2>2 DEF IsBytes
  <2> HIDE DEF m
  <2>17. Len(file) = 10 + lm /\ 11 + lm \in Nat \ {0}
    BY <2>2, <2>16
  <2>5. Holds(b, 3, f) /\ Holds(b, 11, m)
    <3>1. 3 + 4 - 1 <= Len(file) /\ 11 + lm - 1 <= Len(file)
      BY <2>17
    <3>2. Holds(file, 3, f) /\ Holds(file, 11, m)
      BY <2>2, <2>4
    <3>3. Holds(b, 3, f)
      BY <1>6, <2>4, <3>1, <3>2, FrontField DEF b
    <3>4. Holds(b, 11, m)
      BY <1>6, <2>16, <3>1, <3>2, FrontField DEF b
    <3> QED
      BY <3>3, <3>4
  <2>6. Len(b) = 10 + lm + lw /\ Holds(b, 11 + lm, Words)
    <3>1. Len(b) = Len(file) + Len(Words) /\ \A a \in 1 .. Len(Words) : b[Len(file) + a] = Words[a]
      BY <1>7, <2>1 DEF Joins
    <3>2. \A a \in 1 .. lw : (11 + lm) + a - 1 = (10 + lm) + a
      OBVIOUS
    <3> QED
      BY <2>16, <2>17, <3>1, <3>2 DEF Holds
  <2>7. /\ Holds(named, 3, f) /\ Holds(named, 11, m) /\ Holds(named, 11 + lm, Words)
    <3>1. /\ 3 + 4 - 1 <= Len(b) /\ 11 + lm - 1 <= Len(b) /\ (11 + lm) + lw - 1 <= Len(b)
          /\ 1 + 2 <= 3 /\ 1 + 2 <= 11 /\ 1 + 2 <= 11 + lm
      BY <2>6
    <3>2. Holds(named, 3, f)
      BY <1>7, <1>10, <2>4, <2>5, <3>1, StaysField
    <3>3. Holds(named, 11, m)
      BY <1>7, <1>10, <2>5, <2>16, <3>1, StaysField
    <3>4. Holds(named, 11 + lm, Words)
      BY <1>7, <1>10, <2>6, <2>16, <2>17, <3>1, StaysField
    <3> QED
      BY <3>2, <3>3, <3>4
  <2>8. /\ Holds(new, 1, idField) /\ Holds(new, 3, f) /\ Holds(new, 11, m) /\ Holds(new, 11 + lm, Words)
    <3>1. /\ 1 + 2 - 1 <= Len(named) /\ 1 + 2 <= 7
          /\ 3 + 4 - 1 <= Len(named) /\ 3 + 4 <= 7
          /\ 11 + lm - 1 <= Len(named) /\ 7 + 4 <= 11
          /\ (11 + lm) + lw - 1 <= Len(named) /\ 7 + 4 <= 11 + lm
      BY <1>10, <2>6
    <3>2. Holds(new, 1, idField)
      BY <1>10, <1>11, <2>16, <3>1, StaysField
    <3>3. Holds(new, 3, f)
      BY <1>10, <1>11, <2>4, <2>7, <3>1, StaysField
    <3>4. Holds(new, 11, m)
      BY <1>10, <1>11, <2>7, <2>16, <3>1, StaysField
    <3>5. Holds(new, 11 + lm, Words)
      BY <1>10, <1>11, <2>7, <2>16, <2>17, <3>1, StaysField
    <3> QED
      BY <3>2, <3>3, <3>4, <3>5
  <2>9. Laid(new, TargetID(target), m, Words)
    BY <1>9, <1>11, <2>4, <2>6, <2>8, <2>16 DEF Laid
  <2>10. Len(MeantWords) = 4 * Len(MeantInstructions(source))
    BY <1>3 DEF Translating
  <2>11. Binary(target, source) \in Seq(Byte) /\ Laid(Binary(target, source), TargetID(target), m, Words)
    BY <1>3, <1>4, <2>10, BinaryLaid DEF m
  <2>12. new = Binary(target, source)
    <3>1. TargetID(target) \in Int
      BY TargetIDs DEF Given
    <3> QED
      BY <1>3, <1>4, <1>11, <2>9, <2>11, <3>1, LaidOnce DEF m
  <2>13. file' \in Seq(Byte) /\ 10 <= Len(file') /\ ~writeError'
    BY <1>7, <1>11, <2>1
  <2>14. MeantMemory(source)' = m /\ MeantWords' = Words
    BY <1>1, <1>3 DEF m, MeantWords
  <2>15. file' = Binary(target', source') /\ Laid(file', TargetID(target'), m, Words)
    BY <1>1, <2>1, <2>9, <2>12
  <2>18. /\ Correct(target', source')
         /\ \A k \in DOMAIN MeantInstructions(source') : Encodable(target', MeantInstructions(source')[k])
    BY <1>1 DEF Translating, PrintInstructions
  <2> QED
    BY <1>2, <1>3, <1>4, <2>13, <2>14, <2>15, <2>18 DEF FileWritten, m
<1> QED
  BY <1>12, <1>13, <1>14, <1>15
-----------------------------------------------------------------------------
(***************************************************************************)
(* The inductive invariant of the assembler: what the lists and the file   *)
(* hold in each phase.                                                     *)
(***************************************************************************)
Assembling ==
  /\ Given
  /\ phase \in {"parsing", "checked", "dataPrinted", "printed", "done", "failed", "crashed", "undefined"}
  /\ phase = "parsing" => Reading
  /\ phase \in {"parsing", "checked"} => file = << >> /\ ~writeError
  /\ phase \in {"checked", "dataPrinted"} => Translating
  /\ phase = "dataPrinted" => DataWritten
  /\ phase \in {"printed", "done"} => FileWritten
  /\ phase \in {"failed", "undefined"} => file = << >>
  /\ phase = "crashed" => file \in Seq(Byte) /\ (10 <= Len(file) => Blank(file, 1, 2))

\* a step of the assembler is a step of the abstract one, or none
Translates == AsTranslation!Next \/ UNCHANGED AsTranslation!translation

StaysOpen == Outcome = "open" /\ Outcome' = "open"
Loses == Outcome = "open" /\ Outcome' = "lost"
Rejects == Outcome = "open" /\ Outcome' = "rejected" /\ ~Correct(target, source)
TranslatesTo == Outcome = "open" /\ Outcome' = "translated" /\ Correct(target, source) /\ file' = Binary(target, source)

LEMMA OutcomeOfPhase ==
  /\ phase \in {"parsing", "checked", "dataPrinted"} => Outcome = "open"
  /\ phase = "failed" => Outcome = "rejected"
  /\ phase \in {"undefined", "crashed"} => Outcome = "lost"
  /\ phase \in {"printed", "done"} => Outcome = IF writeError THEN "lost" ELSE "translated"
BY DEF Outcome

LEMMA OutcomeOfNextPhase ==
  /\ phase' \in {"parsing", "checked", "dataPrinted"} => Outcome' = "open"
  /\ phase' = "failed" => Outcome' = "rejected"
  /\ phase' \in {"undefined", "crashed"} => Outcome' = "lost"
  /\ phase' \in {"printed", "done"} => Outcome' = IF writeError' THEN "lost" ELSE "translated"
BY DEF Outcome

LEMMA StepsOfTranslation ==
  ASSUME target' = target, source' = source, StaysOpen \/ Loses \/ Rejects \/ TranslatesTo
  PROVE  Translates
<1>1. CASE StaysOpen
  BY <1>1 DEF StaysOpen, Translates, AsTranslation!translation
<1>2. CASE Loses
  BY <1>2 DEF Loses, Translates, AsTranslation!Next, AsTranslation!Lose
<1>3. CASE Rejects
  BY <1>3 DEF Rejects, Translates, AsTranslation!Next, AsTranslation!Reject
<1>4. CASE TranslatesTo
  BY <1>4 DEF TranslatesTo, Translates, AsTranslation!Next, AsTranslation!Translate
<1> QED
  BY <1>1, <1>2, <1>3, <1>4

LEMMA RejectedStep ==
  ASSUME Given', target' = target, source' = source, Rejected', file = << >>, file' = file,
         phase = "parsing"
  PROVE  Assembling' /\ Translates
<1>1. phase' \in {"failed", "undefined"} /\ ~Correct(target, source)
  BY DEF Rejected
<1>2. Assembling'
  BY <1>1 DEF Assembling
<1>3. Rejects \/ Loses
  BY <1>1, OutcomeOfPhase, OutcomeOfNextPhase DEF Rejects, Loses
<1> QED
  BY <1>2, <1>3, StepsOfTranslation

LEMMA AssemblingStep ==
  ASSUME Assembling, Next
  PROVE  Assembling' /\ Translates
<1>1. Given /\ target' = target /\ source' = source /\ Given'
  BY DEF Assembling, Next, Parse, SectionInfo, AlignInfo, BranchTargetDefinition, SaveData, Skip,
         SaveInstruction, YYError, CheckLabels, WalkPastTheEnd, PrintData, PrintInstructions,
         PrintNullOperands, ExitAssembler, given, Given
<1>2. CASE Parse
  <2>1. phase = "parsing" /\ file' = file /\ writeError' = writeError
    BY <1>2 DEF Parse, SectionInfo, AlignInfo, BranchTargetDefinition, SaveData, Skip, SaveInstruction,
                Reduce, YYError, output
  <2>2. file = << >> /\ ~writeError /\ Reading
    BY <2>1 DEF Assembling
  <2>3. (phase' = "parsing" /\ Given' /\ Reading') \/ Rejected'
    BY <1>1, <1>2, <2>1, <2>2, ReadingStatement
  <2>4. CASE phase' = "parsing" /\ Given' /\ Reading'
    <3>1. Assembling'
      BY <2>1, <2>2, <2>4 DEF Assembling
    <3>2. StaysOpen
      BY <2>1, <2>4, OutcomeOfPhase, OutcomeOfNextPhase DEF StaysOpen
    <3> QED
      BY <1>1, <3>1, <3>2, StepsOfTranslation
  <2>5. CASE Rejected'
    BY <1>1, <2>1, <2>2, <2>5, RejectedStep
  <2> QED
    BY <2>3, <2>4, <2>5
<1>3. CASE CheckLabels
  <2>1. phase = "parsing" /\ file' = file /\ writeError' = writeError
    BY <1>3 DEF CheckLabels, output
  <2>2. file = << >> /\ ~writeError /\ Reading
    BY <2>1 DEF Assembling
  <2>3. (phase' = "checked" /\ Given' /\ Translating') \/ Rejected'
    BY <1>1, <1>3, <2>2, LabelsChecked
  <2>4. CASE phase' = "checked" /\ Given' /\ Translating'
    <3>1. Assembling'
      BY <2>1, <2>2, <2>4 DEF Assembling
    <3>2. StaysOpen
      BY <2>1, <2>4, OutcomeOfPhase, OutcomeOfNextPhase DEF StaysOpen
    <3> QED
      BY <1>1, <3>1, <3>2, StepsOfTranslation
  <2>5. CASE Rejected'
    BY <1>1, <2>1, <2>2, <2>5, RejectedStep
  <2> QED
    BY <2>3, <2>4, <2>5
<1>4. CASE WalkPastTheEnd
  <2>1. phase = "parsing" /\ phase' = "undefined" /\ file' = file
    BY <1>4 DEF WalkPastTheEnd, WalkedOff, output
  <2>2. Assembling'
    BY <1>1, <2>1 DEF Assembling
  <2>3. Loses
    BY <2>1, OutcomeOfPhase, OutcomeOfNextPhase DEF Loses
  <2> QED
    BY <1>1, <2>2, <2>3, StepsOfTranslation
<1>5. CASE PrintData
  <2>1. phase = "checked" /\ phase' = "dataPrinted"
    BY <1>5 DEF PrintData
  <2>2. DataWritten' /\ Given' /\ Translating'
    BY <1>1, <1>5, <2>1, DataPrinted DEF Assembling
  <2>3. Assembling'
    BY <2>1, <2>2 DEF Assembling
  <2>4. StaysOpen
    BY <2>1, OutcomeOfPhase, OutcomeOfNextPhase DEF StaysOpen
  <2> QED
    BY <1>1, <2>3, <2>4, StepsOfTranslation
<1>6. CASE PrintInstructions
  <2>1. phase = "dataPrinted" /\ phase' = "printed"
    BY <1>6 DEF PrintInstructions
  <2>2. FileWritten' /\ Given' /\ Translating
    BY <1>1, <1>6, <2>1, InstructionsPrinted DEF Assembling
  <2>3. Assembling'
    BY <2>1, <2>2 DEF Assembling
  <2>4. ~writeError' => file' = Binary(target, source)
    BY <1>1, <2>2 DEF FileWritten
  <2>5. Loses \/ TranslatesTo
    BY <2>1, <2>2, <2>4, OutcomeOfPhase, OutcomeOfNextPhase DEF Loses, TranslatesTo, Translating
  <2> QED
    BY <1>1, <2>3, <2>5, StepsOfTranslation
<1>7. CASE PrintNullOperands
  <2>1. phase = "dataPrinted" /\ phase' = "crashed"
    BY <1>7 DEF PrintNullOperands
  <2>2. PICK k \in DOMAIN instructions :
          /\ \A n \in 1 .. k - 1 : Encodable(target, instructions[n])
          /\ file' \in Prefixes(file \o WordsOf(k - 1))
    BY <1>7 DEF PrintNullOperands
  <2>3. Translating /\ DataWritten
    BY <2>1 DEF Assembling
  <2>4. k - 1 \in 0 .. Len(instructions)
    BY <1>1, <2>3, InstructionsTranslated
  <2>5. WordsOf(k - 1) \in Seq(Byte)
    BY <1>1, <2>2, <2>3, <2>4, WordsOfType
  <2> DEFINE b == file \o WordsOf(k - 1)
  <2>6. b \in Seq(Byte) /\ Blank(b, 1, 2)
    <3>1. file \in Seq(Byte) /\ Len(file) \in Nat /\ 10 <= Len(file) /\ Blank(file, 1, 2)
      BY <2>3 DEF DataWritten
    <3>2. 1 + 2 - 1 <= Len(file)
      BY <3>1
    <3> QED
      BY <2>5, <3>1, <3>2, TwoParts, FrontBlank
  <2> HIDE DEF b
  <2>7. file' \in Seq(Byte) /\ (10 <= Len(file') => Blank(file', 1, 2))
    <3>1. PICK p \in Seq(Byte) : p = file' /\ \A a \in 1 .. Len(p) : p[a] = b[a]
      BY <2>2, <2>6, PrefixType DEF b
    <3>2. ASSUME 10 <= Len(p)
          PROVE  Blank(p, 1, 2)
      <4>1. PICK g \in Seq(Byte) : g = Spaces(2) /\ Len(g) = 2
        BY SpacesBytes
      <4>2. \A a \in 1 .. 2 : 1 + a - 1 = a /\ a \in 1 .. Len(p)
        BY <3>2
      <4>3. \A a \in 1 .. 2 : b[a] = g[a]
        BY <2>6, <4>1, <4>2 DEF Blank, Holds
      <4> QED
        BY <3>1, <4>1, <4>2, <4>3 DEF Blank, Holds
    <3> QED
      BY <3>1, <3>2
  <2>8. Assembling'
    BY <1>1, <2>1, <2>7 DEF Assembling, Blank
  <2>9. Loses
    BY <2>1, OutcomeOfPhase, OutcomeOfNextPhase DEF Loses
  <2> QED
    BY <1>1, <2>8, <2>9, StepsOfTranslation
<1>8. CASE ExitAssembler
  <2>1. phase = "printed" /\ phase' = "done" /\ file' = file /\ writeError' = writeError
    BY <1>8 DEF ExitAssembler, output
  <2>2. FileWritten'
    BY <1>1, <2>1 DEF Assembling, FileWritten, MeantWords
  <2>3. Assembling'
    BY <1>1, <2>1, <2>2 DEF Assembling
  <2>4. Outcome' = Outcome
    BY <2>1, OutcomeOfPhase, OutcomeOfNextPhase
  <2> QED
    BY <1>1, <2>1, <2>3, <2>4 DEF Translates, AsTranslation!translation
<1> QED
  BY <1>2, <1>3, <1>4, <1>5, <1>6, <1>7, <1>8 DEF Next

(***************************************************************************)
(* The whole tool chain.  The simulator leaves the assembler alone.        *)
(***************************************************************************)
LEMMA AssemblingAlways ==
  ASSUME Assembling, [ToolchainNext]_toolchain
  PROVE  Assembling' /\ Translates
<1>1. CASE Assemble
  BY <1>1, AssemblingStep DEF Assemble
<1>2. CASE UNCHANGED vars
  <2>1. /\ target' = target /\ source' = source /\ parsed' = parsed /\ section' = section
        /\ instrNo' = instrNo /\ dataNo' = dataNo /\ labels' = labels /\ instructions' = instructions
        /\ data' = data /\ phase' = phase /\ file' = file /\ writeError' = writeError
    BY <1>2 DEF vars, given, parser, lists, output
  <2>2. Assembling'
    BY <2>1 DEF Assembling, Given, Reading, Translating, DataWritten, FileWritten, MeantWords, Blank
  <2>3. Outcome' = Outcome
    BY <2>1 DEF Outcome
  <2> QED
    BY <2>1, <2>2, <2>3 DEF Translates, AsTranslation!translation
<1> QED
  BY <1>1, <1>2 DEF ToolchainNext, HandOver, Simulate, toolchain

LEMMA AssemblingInit ==
  ASSUME ToolchainInit
  PROVE  Assembling /\ AsTranslation!Init
<1>1. Init /\ Given /\ Reading
  BY ReadingInit DEF ToolchainInit
<1>2. phase = "parsing" /\ file = << >> /\ writeError = FALSE /\ target \in Targets
  BY <1>1 DEF Init
<1>3. Assembling
  BY <1>1, <1>2 DEF Assembling
<1>4. Outcome = "open"
  BY <1>2, OutcomeOfPhase
<1> QED
  BY <1>2, <1>3, <1>4 DEF AsTranslation!Init

(***************************************************************************)
(* The assembler keeps its promise: a source that breaks a rule is         *)
(* rejected, any other is translated to the one binary it means, or lost.  *)
(* Stated for every source, every target and every write that fails.       *)
(***************************************************************************)
THEOREM TranslationImplemented == ToolchainSpec => ImplementsTranslation
<1>1. ToolchainInit => Assembling /\ AsTranslation!Init
  BY AssemblingInit
<1>2. Assembling /\ [ToolchainNext]_toolchain => Assembling' /\ [AsTranslation!Next]_(AsTranslation!translation)
  BY AssemblingAlways DEF Translates
<1> QED
  BY <1>1, <1>2, PTL DEF ToolchainSpec, ImplementsTranslation, AsTranslation!SpecTranslation
-----------------------------------------------------------------------------
(* The counters in every phase *)

\* every datum takes a byte at least
LEMMA DataFit ==
  ASSUME NEW s, IsSource(s), NEW n \in 1 .. Len(s) + 1
  PROVE  Count(s, n, {"data"}) <= Offset(s, n)
<1>1. Len(s) \in Nat /\ \A k \in 1 .. Len(s) : Size(s[k]) \in Nat /\ (s[k].kind = "data" => 1 <= Size(s[k]))
  BY SourceLength, StatementSize
<1>2. \A k \in 1 .. Len(s) + 1 : Count(s, k, {"data"}) \in Nat /\ Offset(s, k) \in Nat
  BY CountStep, OffsetStep
<1> DEFINE S == {d \in Nat : d + 1 <= Len(s) + 1 => Count(s, d + 1, {"data"}) <= Offset(s, d + 1)}
<1>3. 0 \in S
  BY CountStep, OffsetStep
<1>4. ASSUME NEW d \in Nat, d \in S PROVE d + 1 \in S
  <2> SUFFICES ASSUME (d + 1) + 1 <= Len(s) + 1
               PROVE  Count(s, (d + 1) + 1, {"data"}) <= Offset(s, (d + 1) + 1)
    OBVIOUS
  <2>1. d + 1 \in 1 .. Len(s) /\ d + 1 \in 1 .. Len(s) + 1
    BY <1>1
  <2>2. Count(s, d + 1, {"data"}) <= Offset(s, d + 1)
    BY <1>4, <2>1
  <2>3. Count(s, (d + 1) + 1, {"data"}) = Count(s, d + 1, {"data"}) + IF s[d + 1].kind \in {"data"} THEN 1 ELSE 0
    BY <2>1, CountStep
  <2>4. Offset(s, (d + 1) + 1) = Offset(s, d + 1) + Size(s[d + 1])
    BY <2>1, OffsetStep
  <2>5. Size(s[d + 1]) \in Nat /\ (s[d + 1].kind = "data" => 1 <= Size(s[d + 1]))
    BY <1>1, <2>1
  <2>6. Count(s, d + 1, {"data"}) \in Nat /\ Offset(s, d + 1) \in Nat
    BY <1>2, <2>1
  <2> QED
    BY <2>2, <2>3, <2>4, <2>5, <2>6
<1>5. Nat \subseteq S
  <2> HIDE DEF S
  <2> QED
    BY <1>3, <1>4, Induction
<1>6. n - 1 \in Nat /\ (n - 1) + 1 = n
  BY <1>1
<1>7. n - 1 \in S
  BY <1>5, <1>6
<1> QED
  BY <1>1, <1>6, <1>7

Counters ==
  /\ parsed \in 0 .. Len(source)
  /\ instrNo \in Nat /\ dataNo \in Nat

LEMMA CountersStep ==
  ASSUME Given, Counters, [ToolchainNext]_toolchain
  PROVE  Counters'
<1>1. Len(source) \in Nat
  BY SourceLength DEF Given
<1>2. CASE Parse
  <2>1. source' = source /\ parsed' = parsed + 1 /\ parsed < Len(source)
    BY <1>2 DEF Parse, SectionInfo, AlignInfo, BranchTargetDefinition, SaveData, Skip, SaveInstruction,
                Reduce, YYError, given
  <2>2. parsed + 1 \in 1 .. Len(source)
    BY <1>1, <2>1 DEF Counters
  <2>3. IsStatement(Statement, Labels)
    BY <2>2, SourceLength DEF Given, IsSource, Statement
  <2>4. Statement.kind \in {"data", "skip"} => Statement.bytes \in Nat
    BY <2>3 DEF IsStatement
  <2>5. instrNo' \in {instrNo, instrNo + 1}
    BY <1>2 DEF Parse, SectionInfo, AlignInfo, BranchTargetDefinition, SaveData, Skip, SaveInstruction,
                YYError
  <2>6. dataNo' = dataNo \/ (dataNo' = dataNo + Statement.bytes /\ Statement.kind \in {"data", "skip"})
    BY <1>2 DEF Parse, SectionInfo, AlignInfo, BranchTargetDefinition, SaveData, Skip, SaveInstruction,
                Reduce, YYError
  <2> QED
    BY <1>1, <2>1, <2>2, <2>4, <2>5, <2>6 DEF Counters
<1>3. ASSUME UNCHANGED <<given, parser>>
      PROVE  Counters'
  BY <1>3 DEF given, parser, Counters
<1>4. Next /\ ~Parse => UNCHANGED <<given, parser>>
  BY DEF Next, CheckLabels, WalkPastTheEnd, PrintData, PrintInstructions, PrintNullOperands, ExitAssembler
<1>5. UNCHANGED vars => UNCHANGED <<given, parser>>
  BY DEF vars
<1> QED
  BY <1>2, <1>3, <1>4, <1>5 DEF ToolchainNext, Assemble, HandOver, Simulate, toolchain

LEMMA ListsCounted ==
  ASSUME Given, Reading
  PROVE  Len(instructions) = instrNo /\ Len(data) <= dataNo
<1>1. parsed + 1 \in 1 .. Len(source) + 1
  BY SourceLength DEF Given, Reading
<1> QED
  BY <1>1, ReadStep, DataFit DEF Given, Reading
-----------------------------------------------------------------------------
(* The simulator: what has been handed over, and what main has found in it *)

Stages == {"off", "start", "header", "checked", "memory", "instructions", "running",
           "failed", "finished", "undefined"}
AfterHeader == {"header", "checked", "memory", "instructions", "running", "finished"}
AfterCheck == AfterHeader \ {"header"}
AfterMemory == AfterCheck \ {"checked"}

HandedOver ==
  binary # << >> =>
    /\ phase \in Ended
    /\ \E bytes \in Seq(Byte) : binary = <<bytes>>
    /\ binary[1] \in Prefixes(file)
    /\ writeError => binary[1] = file

\* the header is that of the file, its target the simulator's own, and so much
\* of the file is there
Loading(bytes) ==
  /\ stage \in AfterHeader =>
       /\ 10 <= Len(bytes)
       /\ header.target = UInt16(Bytes(bytes, 1, 2))
       /\ header.memory = UInt32(Bytes(bytes, 3, 4))
       /\ header.instructions = UInt32(Bytes(bytes, 7, 4))
  /\ stage \in AfterCheck => simTarget \in Targets /\ header.target = TargetID(simTarget)
  /\ stage \in AfterMemory => 10 + header.memory <= Len(bytes)
  /\ stage = "instructions" =>
       /\ header.instructions = 4 * numInstructions
       /\ 10 + header.memory + 4 * Len(program) <= Len(bytes)
  /\ stage \in {"running", "finished"} => 10 + header.memory + header.instructions <= Len(bytes)

LoaderTyped ==
  /\ stage \in Stages
  /\ stage # "off" => simTarget \in Targets
  /\ header.memory \in Nat /\ header.instructions \in Nat
  /\ memorySize \in Nat /\ memorySize % 4 = 0
  /\ numInstructions \in Nat
  /\ stage \in {"off", "start", "header", "checked", "memory", "failed", "finished", "undefined"} => program = << >>
  /\ \E S : program \in Seq(S)
  /\ Len(program) <= numInstructions

LoaderOK ==
  /\ HandedOver
  /\ LoaderTyped
  /\ binary = << >> => stage = "off"
  /\ \A bytes \in Seq(Byte) : binary = <<bytes>> => Loading(bytes)

LEMMA FourByteNumber ==
  ASSUME NEW c, NEW w \in Byte, NEW x \in Byte, NEW y \in Byte, NEW z \in Byte,
         c[1] = w, c[2] = x, c[3] = y, c[4] = z
  PROVE  UInt32(c) \in Nat /\ UInt32(c) = w * 16777216 + x * 65536 + y * 256 + z
<1>1. w \in Nat /\ x \in Nat /\ y \in Nat /\ z \in Nat
  BY DEF Byte
<1> QED
  BY <1>1, SMT DEF UInt32

LEMMA FieldNumbers ==
  ASSUME NEW b \in Seq(Byte), 10 <= Len(b)
  PROVE  /\ UInt16(Bytes(b, 1, 2)) = b[1] * 256 + b[2]
         /\ UInt32(Bytes(b, 3, 4)) \in Nat
         /\ UInt32(Bytes(b, 3, 4)) = b[3] * 16777216 + b[4] * 65536 + b[5] * 256 + b[6]
         /\ UInt32(Bytes(b, 7, 4)) \in Nat
         /\ UInt32(Bytes(b, 7, 4)) = b[7] * 16777216 + b[8] * 65536 + b[9] * 256 + b[10]
<1>1. Len(b) \in Nat
  OBVIOUS
<1>2. \A k \in 1 .. 10 : k \in 1 .. Len(b)
  BY <1>1
<1>3. \A k \in 1 .. 10 : b[k] \in Byte
  BY <1>2
<1>4. /\ b[3] \in Byte /\ b[4] \in Byte /\ b[5] \in Byte /\ b[6] \in Byte
      /\ b[7] \in Byte /\ b[8] \in Byte /\ b[9] \in Byte /\ b[10] \in Byte
  BY <1>3
<1>5. /\ Bytes(b, 1, 2)[1] = b[1] /\ Bytes(b, 1, 2)[2] = b[2]
      /\ Bytes(b, 3, 4)[1] = b[3] /\ Bytes(b, 3, 4)[2] = b[4] /\ Bytes(b, 3, 4)[3] = b[5] /\ Bytes(b, 3, 4)[4] = b[6]
      /\ Bytes(b, 7, 4)[1] = b[7] /\ Bytes(b, 7, 4)[2] = b[8] /\ Bytes(b, 7, 4)[3] = b[9] /\ Bytes(b, 7, 4)[4] = b[10]
  BY DEF Bytes
<1>6. UInt16(Bytes(b, 1, 2)) = b[1] * 256 + b[2]
  BY <1>5 DEF UInt16
<1>7. /\ UInt32(Bytes(b, 3, 4)) \in Nat
      /\ UInt32(Bytes(b, 3, 4)) = b[3] * 16777216 + b[4] * 65536 + b[5] * 256 + b[6]
  BY <1>4, <1>5, FourByteNumber, SMTT(40)
<1>8. /\ UInt32(Bytes(b, 7, 4)) \in Nat
      /\ UInt32(Bytes(b, 7, 4)) = b[7] * 16777216 + b[8] * 65536 + b[9] * 256 + b[10]
  BY <1>4, <1>5, FourByteNumber, SMTT(40)
<1> QED
  BY <1>6, <1>7, <1>8, SMT
-----------------------------------------------------------------------------
(* The steps of the simulator *)

\* the file is as long as it is, and freeing what there is only empties
LEMMA CleanUpStep ==
  ASSUME LoaderTyped, NEW end \in {"failed", "finished"}, CleanUpTo(end), stage # "off"
  PROVE  /\ LoaderTyped'
         /\ stage' \in {end, "undefined"} /\ simTarget' = simTarget /\ header' = header
         /\ numInstructions' = numInstructions
<1>1. /\ simTarget' = simTarget /\ header' = header /\ memorySize' = memorySize
      /\ numInstructions' = numInstructions /\ program' = << >> /\ stage' \in {end, "undefined"}
  BY DEF CleanUpTo
<1>2. << >> \in Seq({}) /\ Len(<< >>) = 0
  OBVIOUS
<1>3. \E S : program' \in Seq(S)
  BY <1>1, <1>2
<1>4. Len(program') <= numInstructions'
  BY <1>1, <1>2 DEF LoaderTyped
<1> QED
  BY <1>1, <1>3, <1>4 DEF LoaderTyped, Stages

LEMMA LoaderStep ==
  ASSUME LoaderTyped, NEW bytes \in Seq(Byte), Loading(bytes), LoaderNext(bytes)
  PROVE  LoaderTyped' /\ Loading(bytes)'
<1>0. Len(bytes) \in Nat
  OBVIOUS
<1>1. ASSUME CleanUpTo("failed"), stage # "off"
      PROVE  LoaderTyped' /\ Loading(bytes)'
  BY <1>1, CleanUpStep DEF Loading, AfterHeader, AfterCheck, AfterMemory
<1>2. CASE StartSimulator
  <2>1. LoaderTyped'
    BY <1>2 DEF StartSimulator, LoaderTyped, Stages
  <2>2. Loading(bytes)'
    BY <1>2 DEF StartSimulator, Loading, AfterHeader, AfterCheck, AfterMemory
  <2> QED
    BY <2>1, <2>2
<1>3. CASE ReadFileHeader(bytes)
  <2>1. CASE Readable(bytes, 10)
    <3>1. 10 <= Len(bytes)
      BY <2>1 DEF Readable
    <3>2. /\ stage = "start" /\ stage' = "header" /\ simTarget' = simTarget /\ memorySize' = memorySize
          /\ program' = program /\ numInstructions' = numInstructions
          /\ header' = [target |-> UInt16(Bytes(bytes, 1, 2)), memory |-> UInt32(Bytes(bytes, 3, 4)),
                        instructions |-> UInt32(Bytes(bytes, 7, 4))]
      BY <1>3, <2>1 DEF ReadFileHeader
    <3>3. UInt32(Bytes(bytes, 3, 4)) \in Nat /\ UInt32(Bytes(bytes, 7, 4)) \in Nat
      BY <3>1, FieldNumbers
    <3>4. LoaderTyped'
      BY <3>2, <3>3 DEF LoaderTyped, Stages
    <3>5. Loading(bytes)'
      BY <3>1, <3>2 DEF Loading, AfterHeader, AfterCheck, AfterMemory
    <3> QED
      BY <3>4, <3>5
  <2> QED
    BY <1>1, <1>3, <2>1 DEF ReadFileHeader
<1>4. CASE CheckTargetID
  <2>1. CASE header.target = TargetID(simTarget)
    <3>1. /\ stage = "header" /\ stage' = "checked" /\ simTarget' = simTarget /\ header' = header
          /\ memorySize' = memorySize /\ program' = program /\ numInstructions' = numInstructions
      BY <1>4, <2>1 DEF CheckTargetID
    <3>2. LoaderTyped'
      BY <3>1 DEF LoaderTyped, Stages
    <3>3. Loading(bytes)'
      BY <2>1, <3>1 DEF LoaderTyped, Loading, AfterHeader, AfterCheck, AfterMemory
    <3> QED
      BY <3>2, <3>3
  <2> QED
    BY <1>1, <1>4, <2>1 DEF CheckTargetID
<1>5. CASE ReadMemory(bytes)
  <2>1. CASE Readable(bytes, 10 + header.memory)
    <3>1. /\ stage = "checked" /\ stage' = "memory" /\ simTarget' = simTarget /\ header' = header
          /\ memorySize' = 4 * ((header.memory + FreeMemory) \div 4)
          /\ program' = program /\ numInstructions' = numInstructions
      BY <1>5, <2>1 DEF ReadMemory
    <3>2. memorySize' \in Nat /\ memorySize' % 4 = 0
      <4>1. header.memory + FreeMemory \in Nat
        BY LoaderAssumption DEF LoaderTyped
      <4>2. \A n \in Nat : n \div 4 \in Nat /\ 4 * (n \div 4) \in Nat /\ (4 * (n \div 4)) % 4 = 0
        OBVIOUS
      <4> QED
        BY <3>1, <4>1, <4>2
    <3>3. LoaderTyped'
      BY <3>1, <3>2 DEF LoaderTyped, Stages
    <3>4. Loading(bytes)'
      BY <2>1, <3>1 DEF Readable, LoaderTyped, Loading, AfterHeader, AfterCheck, AfterMemory
    <3> QED
      BY <3>3, <3>4
  <2> QED
    BY <1>1, <1>5, <2>1 DEF ReadMemory
<1>6. CASE AllocateInstructions
  <2>1. CASE header.instructions % 4 = 0
    <3>1. /\ stage = "memory" /\ stage' = "instructions" /\ simTarget' = simTarget /\ header' = header
          /\ memorySize' = memorySize /\ program' = program
          /\ numInstructions' = header.instructions \div 4
      BY <1>6, <2>1 DEF AllocateInstructions
    <3>2. header.instructions \in Nat /\ header.memory \in Nat
      BY DEF LoaderTyped
    <3>3. numInstructions' \in Nat /\ header.instructions = 4 * numInstructions'
      BY <2>1, <3>1, <3>2
    <3>4. program = << >> /\ Len(<< >>) = 0
      BY <3>1 DEF LoaderTyped
    <3>5. LoaderTyped'
      <4>1. Len(program') <= numInstructions'
        BY <3>1, <3>3, <3>4
      <4>2. \E S : program' \in Seq(S)
        BY <3>1 DEF LoaderTyped
      <4> QED
        BY <3>1, <3>3, <4>1, <4>2 DEF LoaderTyped, Stages
    <3>6. 10 + header.memory + 4 * Len(program) <= Len(bytes)
      BY <3>1, <3>2, <3>4 DEF Loading, AfterMemory, AfterCheck, AfterHeader
    <3>7. Loading(bytes)'
      BY <3>1, <3>3, <3>6 DEF Loading, AfterHeader, AfterCheck, AfterMemory
    <3> QED
      BY <3>5, <3>7
  <2> QED
    BY <1>1, <1>6, <2>1 DEF AllocateInstructions
<1>7. CASE ReadInstruction(bytes)
  <2> DEFINE first == 11 + header.memory + 4 * Len(program)
             next == Decoded(simTarget, WordOf(Bytes(bytes, first, 4)), Len(program))
  <2>1. CASE Readable(bytes, first + 3) /\ next.op # "UNKNOWN"
    <3> HIDE DEF next
    <3>1. /\ stage = "instructions" /\ stage' = "instructions" /\ simTarget' = simTarget /\ header' = header
          /\ memorySize' = memorySize /\ program' = Append(program, next)
          /\ numInstructions' = numInstructions
          /\ Len(program) < numInstructions
      BY <1>7, <2>1 DEF ReadInstruction, next
    <3>2. PICK S : program \in Seq(S)
      BY DEF LoaderTyped
    <3>3. program \in Seq(S \cup {next})
      BY <3>2
    <3>4. program' \in Seq(S \cup {next}) /\ Len(program) \in Nat /\ Len(program') = Len(program) + 1
      BY <3>1, <3>3
    <3>5. LoaderTyped'
      <4>1. Len(program') <= numInstructions'
        BY <3>1, <3>4 DEF LoaderTyped
      <4>2. \E T : program' \in Seq(T)
        BY <3>4
      <4> QED
        BY <3>1, <4>1, <4>2 DEF LoaderTyped, Stages
    <3>6. 10 + header.memory + 4 * (Len(program) + 1) <= Len(bytes)
      BY <1>0, <2>1, <3>4 DEF Readable, LoaderTyped
    <3>7. Loading(bytes)'
      BY <3>1, <3>4, <3>6 DEF Loading, AfterHeader, AfterCheck, AfterMemory
    <3> QED
      BY <3>5, <3>7
  <2>2. CASE ~(Readable(bytes, first + 3) /\ next.op # "UNKNOWN")
    <3>1. CleanUpTo("failed") /\ stage # "off"
      BY <1>7, <2>2 DEF ReadInstruction
    <3> QED
      BY <1>1, <3>1
  <2> QED
    BY <2>1, <2>2
<1>8. CASE StartSimulation
  <2>1. /\ stage = "instructions" /\ stage' = "running" /\ simTarget' = simTarget /\ header' = header
        /\ memorySize' = memorySize /\ program' = program /\ numInstructions' = numInstructions
        /\ Len(program) = numInstructions
    BY <1>8 DEF StartSimulation
  <2>2. LoaderTyped'
    BY <2>1 DEF LoaderTyped, Stages
  <2>3. Loading(bytes)'
    BY <2>1 DEF Loading, AfterHeader, AfterCheck, AfterMemory
  <2> QED
    BY <2>2, <2>3
<1>9. CASE FinishSimulation
  <2>1. /\ LoaderTyped' /\ simTarget' = simTarget /\ header' = header
        /\ stage = "running" /\ stage' \in {"finished", "undefined"}
    BY <1>9, CleanUpStep DEF FinishSimulation
  <2>2. Loading(bytes)'
    BY <2>1 DEF Loading, AfterHeader, AfterCheck, AfterMemory
  <2> QED
    BY <2>1, <2>2
<1> QED
  BY <1>2, <1>3, <1>4, <1>5, <1>6, <1>7, <1>8, <1>9 DEF LoaderNext
-----------------------------------------------------------------------------
(* The tool chain as a whole *)

ToolchainOK == Assembling /\ Counters /\ LoaderOK

LEMMA WrittenFile ==
  ASSUME Assembling, phase \in Ended
  PROVE  file \in Seq(Byte)
<1>1. << >> \in Seq(Byte)
  OBVIOUS
<1> QED
  BY <1>1 DEF Assembling, FileWritten, Ended

\* once main has ended, the assembler takes no step
LEMMA EndedStays == phase \in Ended => ~Next
BY DEF Ended, Next, Parse, SectionInfo, AlignInfo, BranchTargetDefinition, SaveData, Skip,
       SaveInstruction, Reduce, CheckLabels, WalkPastTheEnd, PrintData, PrintInstructions,
       PrintNullOperands, ExitAssembler

LEMMA LoaderOKInit ==
  ASSUME ToolchainInit
  PROVE  LoaderOK
<1>1. /\ simTarget = "none" /\ stage = "off" /\ header = [target |-> 0, memory |-> 0, instructions |-> 0]
      /\ memorySize = 0 /\ program = << >> /\ numInstructions = 0 /\ binary = << >>
  BY DEF ToolchainInit, LoaderInit, NoHeader
<1>2. << >> \in Seq({}) /\ Len(<< >>) = 0
  OBVIOUS
<1>3. \E S : program \in Seq(S)
  BY <1>1, <1>2
<1>4. 0 % 4 = 0
  OBVIOUS
<1>5. LoaderTyped
  BY <1>1, <1>2, <1>3, <1>4 DEF LoaderTyped, Stages
<1> QED
  BY <1>1, <1>5 DEF LoaderOK, HandedOver

LEMMA LoaderOKStep ==
  ASSUME Assembling, LoaderOK, [ToolchainNext]_toolchain
  PROVE  LoaderOK'
<1>1. ASSUME UNCHANGED <<loader, binary>>, binary = << >> \/ UNCHANGED vars
      PROVE  LoaderOK'
  <2>1. /\ simTarget' = simTarget /\ stage' = stage /\ header' = header /\ memorySize' = memorySize
        /\ program' = program /\ numInstructions' = numInstructions /\ binary' = binary
    BY <1>1 DEF loader
  <2>2. LoaderTyped'
    BY <2>1 DEF LoaderOK, LoaderTyped
  <2>3. HandedOver'
    BY <1>1, <2>1 DEF LoaderOK, HandedOver, vars, output
  <2>4. ASSUME NEW bytes \in Seq(Byte), binary' = <<bytes>>
        PROVE  Loading(bytes)'
    BY <2>1, <2>4 DEF LoaderOK, Loading
  <2> QED
    BY <2>1, <2>2, <2>3, <2>4 DEF LoaderOK
<1>2. CASE Assemble
  <2>1. binary = << >>
    BY <1>2, EndedStays DEF Assemble, LoaderOK, HandedOver
  <2> QED
    BY <1>1, <1>2, <2>1 DEF Assemble
<1>3. CASE HandOver
  <2>1. /\ phase \in Ended /\ binary = << >> /\ stage = "off"
        /\ file' = file /\ writeError' = writeError /\ phase' = phase
        /\ simTarget' = simTarget /\ stage' = stage /\ header' = header /\ memorySize' = memorySize
        /\ program' = program /\ numInstructions' = numInstructions
    BY <1>3 DEF HandOver, LoaderOK, vars, output, loader
  <2>2. file \in Seq(Byte)
    BY <2>1, WrittenFile
  <2>3. file \in Prefixes(file)
    <3>1. file = SubSeq(file, 1, Len(file)) /\ Len(file) \in 0 .. Len(file)
      BY <2>2
    <3> QED
      BY <3>1 DEF Prefixes
  <2>4. PICK bytes \in Prefixes(file) : binary' = <<bytes>> /\ (writeError => bytes = file)
    BY <1>3, <2>3 DEF HandOver
  <2>5. bytes \in Seq(Byte)
    BY <2>2, PrefixType
  <2>6. binary' # << >> /\ binary'[1] = bytes
    BY <2>4
  <2>7. HandedOver'
    BY <2>1, <2>4, <2>5, <2>6 DEF HandedOver
  <2>8. LoaderTyped'
    BY <2>1 DEF LoaderOK, LoaderTyped
  <2>9. ASSUME NEW b PROVE Loading(b)'
    BY <2>1 DEF Loading, AfterHeader, AfterCheck, AfterMemory
  <2> QED
    BY <2>6, <2>7, <2>8, <2>9 DEF LoaderOK
<1>4. CASE Simulate
  <2>1. /\ binary # << >> /\ LoaderNext(binary[1]) /\ UNCHANGED <<vars, binary>>
    BY <1>4 DEF Simulate
  <2>2. PICK bytes \in Seq(Byte) : binary = <<bytes>> /\ binary[1] = bytes
    BY <2>1 DEF LoaderOK, HandedOver
  <2>3. LoaderTyped' /\ Loading(bytes)'
    BY <2>1, <2>2, LoaderStep DEF LoaderOK
  <2>4. HandedOver'
    BY <2>1 DEF LoaderOK, HandedOver, vars, output
  <2>5. ASSUME NEW b \in Seq(Byte), binary' = <<b>>
        PROVE  b = bytes
    BY <2>1, <2>2, <2>5
  <2> QED
    BY <2>1, <2>3, <2>4, <2>5 DEF LoaderOK
<1>5. CASE UNCHANGED toolchain
  BY <1>1, <1>5 DEF toolchain
<1> QED
  BY <1>2, <1>3, <1>4, <1>5 DEF ToolchainNext

LEMMA ToolchainOKInit ==
  ASSUME ToolchainInit
  PROVE  ToolchainOK
<1>1. Init
  BY DEF ToolchainInit
<1>2. Assembling
  BY AssemblingInit
<1>3. Counters
  BY <1>1, <1>2, SourceLength DEF Init, Assembling, Given, Counters
<1> QED
  BY <1>2, <1>3, LoaderOKInit DEF ToolchainOK

LEMMA ToolchainOKStep ==
  ASSUME ToolchainOK, [ToolchainNext]_toolchain
  PROVE  ToolchainOK'
BY AssemblingAlways, CountersStep, LoaderOKStep DEF ToolchainOK, Assembling

LEMMA ToolchainOKTyped ==
  ASSUME ToolchainOK
  PROVE  ToolchainTypeOK
<1>1. phase = "parsing" => Len(instructions) = instrNo /\ Len(data) <= dataNo
  BY ListsCounted DEF ToolchainOK, Assembling
<1>2. file \in Seq(Byte)
  <2>1. << >> \in Seq(Byte)
    OBVIOUS
  <2> QED
    BY <2>1 DEF ToolchainOK, Assembling, DataWritten, FileWritten
<1>3. \A k \in DOMAIN file : file[k] \in 0 .. 255
  <2>1. \A k \in DOMAIN file : file[k] \in Byte
    BY <1>2
  <2> QED
    BY <2>1 DEF Byte
<1>4. phase \in {"printed", "done"} => Len(file) >= 10
  <2>1. Len(file) \in Nat
    BY <1>2
  <2> QED
    BY <2>1 DEF ToolchainOK, Assembling, FileWritten
<1>5. memorySize % 4 = 0 /\ Len(program) <= numInstructions
  BY DEF ToolchainOK, LoaderOK, LoaderTyped
<1>6. phase \in {"parsing", "checked", "dataPrinted", "printed"} \cup Ended \cup {"undefined"}
  BY DEF ToolchainOK, Assembling, Ended
<1>7. parsed \in 0 .. Len(source) /\ instrNo \in Nat /\ dataNo \in Nat
  BY DEF ToolchainOK, Counters
<1> QED
  BY <1>1, <1>3, <1>4, <1>5, <1>6, <1>7 DEF ToolchainTypeOK

(***************************************************************************)
(* The counters of the grammar agree with the lists, the file is made of   *)
(* bytes, and the simulator has no more instructions than it has room for. *)
(***************************************************************************)
THEOREM ToolchainTyped == ToolchainSpec => []ToolchainTypeOK
<1>1. ToolchainInit => ToolchainOK
  BY ToolchainOKInit
<1>2. ToolchainOK /\ [ToolchainNext]_toolchain => ToolchainOK'
  BY ToolchainOKStep
<1>3. ToolchainOK => ToolchainTypeOK
  BY ToolchainOKTyped
<1> QED
  BY <1>1, <1>2, <1>3, PTL DEF ToolchainSpec
-----------------------------------------------------------------------------
(* What the loader reads from a header field *)

LEMMA HeldField ==
  ASSUME NEW b, NEW first \in Nat, NEW f, NEW n \in Nat, IsBytes(f, n), Holds(b, first, f)
  PROVE  \A k \in 1 .. n : b[first + k - 1] = f[k]
BY DEF IsBytes, Holds

LEMMA BlankField ==
  ASSUME NEW b, NEW first \in Nat, NEW n \in Nat, Blank(b, first, n)
  PROVE  \A k \in 1 .. n : b[first + k - 1] = 32
<1>1. PICK f : f = Spaces(n) /\ IsBytes(f, n) /\ \A k \in 1 .. n : f[k] = 32
  BY SpacesBytes DEF IsBytes
<1>2. Holds(b, first, f)
  BY <1>1 DEF Blank
<1> QED
  BY <1>1, <1>2, HeldField

LEMMA BlankNumbers ==
  ASSUME NEW b \in Seq(Byte), 10 <= Len(b)
  PROVE  /\ Blank(b, 1, 2) => UInt16(Bytes(b, 1, 2)) = 8224
         /\ Blank(b, 3, 4) => UInt32(Bytes(b, 3, 4)) = 538976288
         /\ Blank(b, 7, 4) => UInt32(Bytes(b, 7, 4)) = 538976288
<1>1. ASSUME Blank(b, 1, 2)
      PROVE  UInt16(Bytes(b, 1, 2)) = 8224
  <2>1. \A k \in 1 .. 2 : b[1 + k - 1] = 32
    BY <1>1, BlankField, ZenonT(40)
  <2>2. b[1 + 1 - 1] = 32 /\ b[1 + 2 - 1] = 32
    BY <2>1
  <2>3. b[1] = 32 /\ b[2] = 32
    BY <2>2
  <2> QED
    BY <2>3, FieldNumbers, SMT
<1>2. ASSUME Blank(b, 3, 4)
      PROVE  UInt32(Bytes(b, 3, 4)) = 538976288
  <2>1. \A k \in 1 .. 4 : b[3 + k - 1] = 32
    BY <1>2, BlankField
  <2>2. b[3 + 1 - 1] = 32 /\ b[3 + 2 - 1] = 32 /\ b[3 + 3 - 1] = 32 /\ b[3 + 4 - 1] = 32
    BY <2>1
  <2>3. b[3] = 32 /\ b[4] = 32 /\ b[5] = 32 /\ b[6] = 32
    BY <2>2
  <2>4. UInt32(Bytes(b, 3, 4)) = b[3] * 16777216 + b[4] * 65536 + b[5] * 256 + b[6]
    BY FieldNumbers, SMT
  <2> QED
    BY <2>3, <2>4, SMT
<1>3. ASSUME Blank(b, 7, 4)
      PROVE  UInt32(Bytes(b, 7, 4)) = 538976288
  <2>1. \A k \in 1 .. 4 : b[7 + k - 1] = 32
    BY <1>3, BlankField
  <2>2. b[7 + 1 - 1] = 32 /\ b[7 + 2 - 1] = 32 /\ b[7 + 3 - 1] = 32 /\ b[7 + 4 - 1] = 32
    BY <2>1
  <2>3. b[7] = 32 /\ b[8] = 32 /\ b[9] = 32 /\ b[10] = 32
    BY <2>2
  <2>4. UInt32(Bytes(b, 7, 4)) = b[7] * 16777216 + b[8] * 65536 + b[9] * 256 + b[10]
    BY FieldNumbers, SMT
  <2> QED
    BY <2>3, <2>4, SMT
<1> QED
  BY <1>1, <1>2, <1>3, SMT

(* A number is the sum of its bytes *)

LEMMA DivisionBy256 ==
  ASSUME NEW n \in Nat
  PROVE  n \div 256 \in Nat /\ n % 256 \in 0 .. 255 /\ n = (n \div 256) * 256 + (n % 256)
  OBVIOUS

LEMMA SumOfTwoBytes ==
  ASSUME NEW n \in Nat, n < 65536
  PROVE  ((n \div 256) % 256) * 256 + (n % 256) = n
<1>1. PICK q \in Nat : q = n \div 256 /\ n = q * 256 + (n % 256)
  BY DivisionBy256
<1>2. PICK r \in 0 .. 255 : r = n % 256
  BY DivisionBy256
<1>3. q \in 0 .. 255
  BY <1>1, <1>2, SMT
<1>4. q % 256 = q
  BY <1>3, SMT
<1> QED
  BY <1>1, <1>2, <1>4, SMT

LEMMA SumOfBytes ==
  ASSUME NEW n \in Nat, n < 4294967296
  PROVE  ((n \div 16777216) % 256) * 16777216 + ((n \div 65536) % 256) * 65536
           + ((n \div 256) % 256) * 256 + (n % 256) = n
<1>1. PICK q \in Nat, r \in 0 .. 255 : q = n \div 256 /\ r = n % 256 /\ n = q * 256 + r
  BY DivisionBy256
<1>2. PICK p \in Nat, s \in 0 .. 255 : p = q \div 256 /\ s = q % 256 /\ q = p * 256 + s
  BY DivisionBy256
<1>3. PICK o \in Nat, t \in 0 .. 255 : o = p \div 256 /\ t = p % 256 /\ p = o * 256 + t
  BY DivisionBy256
<1>4. n = o * 16777216 + t * 65536 + s * 256 + r
  BY <1>1, <1>2, <1>3, SMT
<1>5. o < 256
  BY <1>4, SMT
<1>6. o % 256 = o
  BY <1>5, SMT
<1>7. n \div 65536 = p /\ n \div 16777216 = o
  <2>1. n \div 65536 = (n \div 256) \div 256
    BY SMT
  <2>2. n \div 16777216 = (n \div 65536) \div 256
    BY SMT
  <2> QED
    BY <1>1, <1>2, <1>3, <2>1, <2>2, SMT
<1> QED
  BY <1>1, <1>2, <1>3, <1>4, <1>6, <1>7, SMT

LEMMA FieldOfNumber ==
  ASSUME NEW n \in Int
  PROVE  /\ Field(n, 4)[1] = (n \div 16777216) % 256 /\ Field(n, 4)[2] = (n \div 65536) % 256
         /\ Field(n, 4)[3] = (n \div 256) % 256 /\ Field(n, 4)[4] = n % 256
         /\ Field(n, 2)[1] = (n \div 256) % 256 /\ Field(n, 2)[2] = n % 256
<1>1. 256^(4 - 1) = 16777216 /\ 256^(4 - 2) = 65536 /\ 256^(4 - 3) = 256 /\ 256^(4 - 4) = 1
  BY SMT
<1>2. 256^(2 - 1) = 256 /\ 256^(2 - 2) = 1 /\ n \div 1 = n
  BY SMT
<1>3. /\ Field(n, 4)[1] = (n \div 256^(4 - 1)) % 256 /\ Field(n, 4)[2] = (n \div 256^(4 - 2)) % 256
      /\ Field(n, 4)[3] = (n \div 256^(4 - 3)) % 256 /\ Field(n, 4)[4] = (n \div 256^(4 - 4)) % 256
      /\ Field(n, 2)[1] = (n \div 256^(2 - 1)) % 256 /\ Field(n, 2)[2] = (n \div 256^(2 - 2)) % 256
  BY DEF Field
<1> QED
  BY <1>1, <1>2, <1>3, SMT

LEMMA FieldIsBytes ==
  ASSUME NEW n \in Int
  PROVE  IsBytes(Field(n, 4), 4) /\ IsBytes(Field(n, 2), 2)
BY BigEndianBytes DEF IsBytes

LEMMA HeldNumbers ==
  ASSUME NEW b \in Seq(Byte), 10 <= Len(b), NEW n \in Nat, n < 4294967296
  PROVE  /\ n < 65536 /\ Holds(b, 1, Field(n, 2)) => UInt16(Bytes(b, 1, 2)) = n
         /\ Holds(b, 3, Field(n, 4)) => UInt32(Bytes(b, 3, 4)) = n
         /\ Holds(b, 7, Field(n, 4)) => UInt32(Bytes(b, 7, 4)) = n
<1>1. ASSUME n < 65536, Holds(b, 1, Field(n, 2))
      PROVE  UInt16(Bytes(b, 1, 2)) = n
  <2>1. \A k \in 1 .. 2 : b[1 + k - 1] = Field(n, 2)[k]
    <3>1. 1 \in Nat /\ 2 \in Nat /\ IsBytes(Field(n, 2), 2)
      BY FieldIsBytes, SMT
    <3> QED
      BY <1>1, <3>1, HeldField, SMT
  <2>2. b[1 + 1 - 1] = Field(n, 2)[1] /\ b[1 + 2 - 1] = Field(n, 2)[2]
    BY <2>1, SMT
  <2>3. b[1] = (n \div 256) % 256 /\ b[2] = n % 256
    BY <2>2, FieldOfNumber, SMT
  <2>4. UInt16(Bytes(b, 1, 2)) = b[1] * 256 + b[2]
    BY FieldNumbers, SMT
  <2>5. ((n \div 256) % 256) * 256 + (n % 256) = n
    BY <1>1, SumOfTwoBytes, SMT
  <2> QED
    BY <2>3, <2>4, <2>5, SMT
<1>2. ASSUME Holds(b, 3, Field(n, 4))
      PROVE  UInt32(Bytes(b, 3, 4)) = n
  <2>1. \A k \in 1 .. 4 : b[3 + k - 1] = Field(n, 4)[k]
    BY <1>2, FieldIsBytes, HeldField, SMT
  <2>2. /\ b[3 + 1 - 1] = Field(n, 4)[1] /\ b[3 + 2 - 1] = Field(n, 4)[2]
        /\ b[3 + 3 - 1] = Field(n, 4)[3] /\ b[3 + 4 - 1] = Field(n, 4)[4]
    BY <2>1, SMT
  <2>3. b[3] = (n \div 16777216) % 256 /\ b[4] = (n \div 65536) % 256 /\ b[5] = (n \div 256) % 256 /\ b[6] = n % 256
    BY <2>2, FieldOfNumber, SMT
  <2>4. UInt32(Bytes(b, 3, 4)) = b[3] * 16777216 + b[4] * 65536 + b[5] * 256 + b[6]
    BY FieldNumbers, SMT
  <2>5. ((n \div 16777216) % 256) * 16777216 + ((n \div 65536) % 256) * 65536
          + ((n \div 256) % 256) * 256 + (n % 256) = n
    BY SumOfBytes, SMT
  <2> QED
    BY <2>3, <2>4, <2>5, SMT
<1>3. ASSUME Holds(b, 7, Field(n, 4))
      PROVE  UInt32(Bytes(b, 7, 4)) = n
  <2>1. \A k \in 1 .. 4 : b[7 + k - 1] = Field(n, 4)[k]
    BY <1>3, FieldIsBytes, HeldField, SMT
  <2>2. /\ b[7 + 1 - 1] = Field(n, 4)[1] /\ b[7 + 2 - 1] = Field(n, 4)[2]
        /\ b[7 + 3 - 1] = Field(n, 4)[3] /\ b[7 + 4 - 1] = Field(n, 4)[4]
    BY <2>1, SMT
  <2>3. b[7] = (n \div 16777216) % 256 /\ b[8] = (n \div 65536) % 256 /\ b[9] = (n \div 256) % 256 /\ b[10] = n % 256
    BY <2>2, FieldOfNumber, SMT
  <2>4. UInt32(Bytes(b, 7, 4)) = b[7] * 16777216 + b[8] * 65536 + b[9] * 256 + b[10]
    BY FieldNumbers, SMT
  <2>5. ((n \div 16777216) % 256) * 16777216 + ((n \div 65536) % 256) * 65536
          + ((n \div 256) % 256) * 256 + (n % 256) = n
    BY SumOfBytes, SMT
  <2> QED
    BY <2>3, <2>4, <2>5, SMT
<1> QED
  BY <1>1, <1>2, <1>3, SMT
-----------------------------------------------------------------------------
(* The checks of the loader *)

\* four blanks, read as a number
BlankSize == 538976288
FilesFit == Len(file) < 10 + BlankSize

LEMMA HeldInPrefix ==
  ASSUME NEW s \in Seq(Byte), NEW p \in Prefixes(s), NEW first \in Nat \ {0},
         NEW f, NEW n \in Nat, IsBytes(f, n), Holds(s, first, f), first + n - 1 <= Len(p)
  PROVE  Holds(p, first, f)
<1>1. /\ p \in Seq(Byte) /\ Len(p) \in Nat
      /\ \A k \in 1 .. Len(p) : p[k] = s[k]
  BY PrefixType
<1>2. \A k \in 1 .. n : s[first + k - 1] = f[k]
  BY HeldField
<1>3. \A k \in 1 .. n : first + k - 1 \in 1 .. Len(p)
  BY <1>1
<1>4. \A k \in 1 .. n : p[first + k - 1] = f[k]
  BY <1>1, <1>2, <1>3
<1> QED
  BY <1>4 DEF Holds, IsBytes

LEMMA BlankInPrefix ==
  ASSUME NEW s \in Seq(Byte), NEW p \in Prefixes(s), Blank(s, 1, 2), 10 <= Len(p)
  PROVE  Blank(p, 1, 2)
<1>1. IsBytes(Spaces(2), 2)
  BY SpacesBytes DEF IsBytes
<1>2. Len(p) \in Nat
  BY PrefixType
<1>3. 1 \in Nat \ {0} /\ 2 \in Nat /\ 1 + 2 - 1 <= Len(p)
  BY <1>2
<1> QED
  BY <1>1, <1>3, HeldInPrefix DEF Blank

LEMMA LengthsLaid ==
  ASSUME NEW s \in Seq(Byte), NEW m \in Seq(Byte), NEW w \in Seq(Byte), NEW id \in 0 .. 3, Laid(s, id, m, w),
         NEW p \in Seq(Byte), p \in Prefixes(s), 10 <= Len(p), Len(s) < 10 + BlankSize
  PROVE  /\ UInt16(Bytes(p, 1, 2)) = id
         /\ 10 + UInt32(Bytes(p, 3, 4)) + UInt32(Bytes(p, 7, 4)) = Len(s)
<1>1. PICK lm \in Nat : lm = Len(m)
  OBVIOUS
<1>2. PICK lw \in Nat : lw = Len(w)
  OBVIOUS
<1>3. PICK ls \in Nat : ls = Len(s)
  OBVIOUS
<1>4. PICK lp \in Nat : lp = Len(p)
  OBVIOUS
<1>5. ls = 10 + lm + lw
  BY <1>1, <1>2, <1>3 DEF Laid
<1>6. lm < 4294967296 /\ lw < 4294967296 /\ 1 + 2 - 1 <= lp /\ 3 + 4 - 1 <= lp /\ 7 + 4 - 1 <= lp
  BY <1>3, <1>4, <1>5, SMT DEF BlankSize
<1>7. id \in Nat /\ id < 65536 /\ id < 4294967296 /\ id \in Int /\ lm \in Int /\ lw \in Int
  BY SMT
<1>8. IsBytes(Field(id, 2), 2) /\ IsBytes(Field(lm, 4), 4) /\ IsBytes(Field(lw, 4), 4)
  BY <1>7, FieldIsBytes, SMT
<1>9. Holds(s, 1, Field(id, 2)) /\ Holds(s, 3, Field(lm, 4)) /\ Holds(s, 7, Field(lw, 4))
  BY <1>1, <1>2, SMT DEF Laid
<1>10. 1 \in Nat \ {0} /\ 3 \in Nat \ {0} /\ 7 \in Nat \ {0} /\ 2 \in Nat /\ 4 \in Nat
  BY SMT
<1>11. Holds(p, 1, Field(id, 2)) /\ Holds(p, 3, Field(lm, 4)) /\ Holds(p, 7, Field(lw, 4))
  BY <1>4, <1>6, <1>8, <1>9, <1>10, HeldInPrefix, SMT
<1>12. UInt16(Bytes(p, 1, 2)) = id
  BY <1>7, <1>11, HeldNumbers, SMT
<1>13. UInt32(Bytes(p, 3, 4)) = lm
  BY <1>6, <1>11, HeldNumbers, SMT
<1>14. UInt32(Bytes(p, 7, 4)) = lw
  BY <1>6, <1>11, HeldNumbers, SMT
<1> QED
  BY <1>3, <1>5, <1>12, <1>13, <1>14, SMT

LEMMA WholeFiles ==
  ASSUME ToolchainOK, FilesFit
  PROVE  RunsOnlyWholeFiles
<1> SUFFICES ASSUME stage \in {"running", "finished"}
             PROVE  phase = "done" /\ ~writeError /\ binary = <<file>> /\ simTarget = target
  BY DEF RunsOnlyWholeFiles
<1>1. PICK p \in Seq(Byte) :
        /\ binary = <<p>> /\ p \in Prefixes(file) /\ (writeError => p = file)
        /\ Loading(p) /\ phase \in Ended
  <2>1. binary # << >>
    BY DEF ToolchainOK, LoaderOK
  <2>2. PICK p \in Seq(Byte) : binary = <<p>>
    BY <2>1 DEF ToolchainOK, LoaderOK, HandedOver
  <2>3. binary[1] = p
    BY <2>2
  <2> QED
    BY <2>1, <2>2, <2>3 DEF ToolchainOK, LoaderOK, HandedOver
<1>2. /\ 10 <= Len(p) /\ simTarget \in Targets
      /\ UInt16(Bytes(p, 1, 2)) = TargetID(simTarget)
      /\ 10 + UInt32(Bytes(p, 3, 4)) + UInt32(Bytes(p, 7, 4)) <= Len(p)
  BY <1>1 DEF Loading, AfterHeader, AfterCheck, AfterMemory
<1>3. file \in Seq(Byte) /\ Len(file) \in Nat /\ Len(p) \in Nat
  BY <1>1, WrittenFile DEF ToolchainOK
<1>4. TargetID(simTarget) \in 0 .. 3
  BY <1>2, TargetIDs
<1>5. ~Blank(p, 1, 2)
  BY <1>2, <1>4, BlankNumbers, SMT
<1>6. ~Blank(file, 1, 2)
  BY <1>1, <1>2, <1>3, <1>5, BlankInPrefix
<1>7. Len(p) <= Len(file)
  BY <1>1, <1>3, PrefixType
<1>8. phase # "failed"
  <2>1. phase = "failed" => file = << >>
    BY DEF ToolchainOK, Assembling
  <2>2. 10 <= Len(file)
    BY <1>2, <1>3, <1>7
  <2> QED
    BY <2>1, <2>2
<1>9. phase # "crashed"
  <2>1. 10 <= Len(file)
    BY <1>2, <1>3, <1>7
  <2> QED
    BY <1>6, <2>1 DEF ToolchainOK, Assembling
<1>10. phase = "done"
  BY <1>1, <1>8, <1>9 DEF Ended
<1>11. FileWritten /\ Given
  BY <1>10 DEF ToolchainOK, Assembling
<1>12. ~writeError
  <2> SUFFICES ASSUME writeError PROVE FALSE
    OBVIOUS
  <2>1. p = file
    BY <1>1
  <2>2. Blank(p, 3, 4) \/ Blank(p, 7, 4)
    BY <1>6, <1>11, <2>1 DEF FileWritten
  <2>3. UInt32(Bytes(p, 3, 4)) \in Nat /\ UInt32(Bytes(p, 7, 4)) \in Nat
    BY <1>2, FieldNumbers, SMT
  <2>4. UInt32(Bytes(p, 3, 4)) = BlankSize \/ UInt32(Bytes(p, 7, 4)) = BlankSize
    BY <1>2, <2>2, BlankNumbers, SMT DEF BlankSize
  <2>5. Len(p) < 10 + BlankSize /\ BlankSize \in Nat
    BY <2>1, SMT DEF FilesFit, BlankSize
  <2> QED
    BY <1>2, <1>3, <2>3, <2>4, <2>5, SMT
<1>13. /\ MeantMemory(source) \in Seq(Byte) /\ MeantWords \in Seq(Byte)
       /\ Laid(file, TargetID(target), MeantMemory(source), MeantWords)
  BY <1>11, <1>12 DEF FileWritten
<1>14. TargetID(target) \in 0 .. 3
  BY <1>11, TargetIDs DEF Given
<1>15. /\ UInt16(Bytes(p, 1, 2)) = TargetID(target)
       /\ 10 + UInt32(Bytes(p, 3, 4)) + UInt32(Bytes(p, 7, 4)) = Len(file)
  BY <1>1, <1>2, <1>3, <1>13, <1>14, LengthsLaid, SMT DEF FilesFit
<1>16. p = file
  BY <1>1, <1>2, <1>3, <1>15, WholePrefix, SMT
<1>17. simTarget = target
  BY <1>2, <1>11, <1>15, TargetIDs DEF Given
<1> QED
  BY <1>1, <1>10, <1>12, <1>16, <1>17

(***************************************************************************)
(* Only a complete file of the simulator's own target is simulated, unless *)
(* a file is so long that a header field that is still blank could be the  *)
(* length of a part of it: half a gigabyte.                                *)
(***************************************************************************)
THEOREM OnlyWholeFilesRun == ToolchainSpec /\ []FilesFit => []RunsOnlyWholeFiles
<1>1. ToolchainInit => ToolchainOK
  BY ToolchainOKInit
<1>2. ToolchainOK /\ [ToolchainNext]_toolchain => ToolchainOK'
  BY ToolchainOKStep
<1>3. ToolchainOK /\ FilesFit => RunsOnlyWholeFiles
  BY WholeFiles
<1> QED
  BY <1>1, <1>2, <1>3, PTL DEF ToolchainSpec
-----------------------------------------------------------------------------
(* Powers of two and division by them *)

LEMMA PowerDoubles ==
  ASSUME NEW n \in 0 .. 30
  PROVE  2^(n + 1) = 2 * 2^n
<1>1. n \in {0, 1, 2, 3} => 2^(n + 1) = 2 * 2^n
  <2>1. 0 + 1 = 1 /\ 1 + 1 = 2 /\ 2 + 1 = 3 /\ 3 + 1 = 4
    OBVIOUS
  <2>2. 2^1 = 2 * 2^0 /\ 2^2 = 2 * 2^1 /\ 2^3 = 2 * 2^2 /\ 2^4 = 2 * 2^3
    BY SMT
  <2> QED
    BY <2>1, <2>2, Zenon
<1>2. n \in {4, 5, 6, 7} => 2^(n + 1) = 2 * 2^n
  <2>1. 4 + 1 = 5 /\ 5 + 1 = 6 /\ 6 + 1 = 7 /\ 7 + 1 = 8
    OBVIOUS
  <2>2. 2^5 = 2 * 2^4 /\ 2^6 = 2 * 2^5 /\ 2^7 = 2 * 2^6 /\ 2^8 = 2 * 2^7
    BY SMT
  <2> QED
    BY <2>1, <2>2, Zenon
<1>3. n \in {8, 9, 10, 11} => 2^(n + 1) = 2 * 2^n
  <2>1. 8 + 1 = 9 /\ 9 + 1 = 10 /\ 10 + 1 = 11 /\ 11 + 1 = 12
    OBVIOUS
  <2>2. 2^9 = 2 * 2^8 /\ 2^10 = 2 * 2^9 /\ 2^11 = 2 * 2^10 /\ 2^12 = 2 * 2^11
    BY SMT
  <2> QED
    BY <2>1, <2>2, Zenon
<1>4. n \in {12, 13, 14, 15} => 2^(n + 1) = 2 * 2^n
  <2>1. 12 + 1 = 13 /\ 13 + 1 = 14 /\ 14 + 1 = 15 /\ 15 + 1 = 16
    OBVIOUS
  <2>2. 2^13 = 2 * 2^12 /\ 2^14 = 2 * 2^13 /\ 2^15 = 2 * 2^14 /\ 2^16 = 2 * 2^15
    BY SMT
  <2> QED
    BY <2>1, <2>2, Zenon
<1>5. n \in {16, 17, 18, 19} => 2^(n + 1) = 2 * 2^n
  <2>1. 16 + 1 = 17 /\ 17 + 1 = 18 /\ 18 + 1 = 19 /\ 19 + 1 = 20
    OBVIOUS
  <2>2. 2^17 = 2 * 2^16 /\ 2^18 = 2 * 2^17 /\ 2^19 = 2 * 2^18 /\ 2^20 = 2 * 2^19
    BY SMT
  <2> QED
    BY <2>1, <2>2, Zenon
<1>6. n \in {20, 21, 22, 23} => 2^(n + 1) = 2 * 2^n
  <2>1. 20 + 1 = 21 /\ 21 + 1 = 22 /\ 22 + 1 = 23 /\ 23 + 1 = 24
    OBVIOUS
  <2>2. 2^21 = 2 * 2^20 /\ 2^22 = 2 * 2^21 /\ 2^23 = 2 * 2^22 /\ 2^24 = 2 * 2^23
    BY SMT
  <2> QED
    BY <2>1, <2>2, Zenon
<1>7. n \in {24, 25, 26, 27} => 2^(n + 1) = 2 * 2^n
  <2>1. 24 + 1 = 25 /\ 25 + 1 = 26 /\ 26 + 1 = 27 /\ 27 + 1 = 28
    OBVIOUS
  <2>2. 2^25 = 2 * 2^24 /\ 2^26 = 2 * 2^25 /\ 2^27 = 2 * 2^26 /\ 2^28 = 2 * 2^27
    BY SMT
  <2> QED
    BY <2>1, <2>2, Zenon
<1>8. n \in {28, 29, 30} => 2^(n + 1) = 2 * 2^n
  <2>1. 28 + 1 = 29 /\ 29 + 1 = 30 /\ 30 + 1 = 31
    OBVIOUS
  <2>2. 2^29 = 2 * 2^28 /\ 2^30 = 2 * 2^29 /\ 2^31 = 2 * 2^30
    BY SMT
  <2> QED
    BY <2>1, <2>2, Zenon
<1>9. n \in {0, 1, 2, 3} \/ n \in {4, 5, 6, 7} \/ n \in {8, 9, 10, 11} \/ n \in {12, 13, 14, 15}
      \/ n \in {16, 17, 18, 19} \/ n \in {20, 21, 22, 23} \/ n \in {24, 25, 26, 27} \/ n \in {28, 29, 30}
  OBVIOUS
<1> QED
  BY <1>1, <1>2, <1>3, <1>4, <1>5, <1>6, <1>7, <1>8, <1>9, Zenon

LEMMA SmallMultiple ==
  ASSUME NEW d \in Nat \ {0}, NEW z \in Int, -d < d * z, d * z < d
  PROVE  z = 0
<1>1. ASSUME z >= 1 PROVE FALSE
  <2>1. d * (z - 1) >= 0
    BY <1>1, SMT
  <2>2. d * (z - 1) = d * z - d
    BY SMT
  <2> QED
    BY <2>1, <2>2, SMT
<1>2. ASSUME z <= -1 PROVE FALSE
  <2>1. d * (-1 - z) >= 0
    BY <1>2, SMT
  <2>2. d * (-1 - z) = -d - d * z
    BY SMT
  <2> QED
    BY <2>1, <2>2, SMT
<1> QED
  BY <1>1, <1>2, SMT

LEMMA DivisionOf ==
  ASSUME NEW v \in Int, NEW d \in Nat \ {0}
  PROVE  /\ v \div d \in Int /\ v % d \in 0 .. d - 1
         /\ v = d * (v \div d) + (v % d)
BY SMT

LEMMA DivisionUnique ==
  ASSUME NEW d \in Nat \ {0}, NEW v \in Int, NEW q \in Int, NEW r \in 0 .. d - 1, v = d * q + r
  PROVE  v \div d = q /\ v % d = r
<1>1. PICK x \in Int : x = v \div d
  BY DivisionOf
<1>2. PICK e \in 0 .. d - 1 : e = v % d
  BY DivisionOf
<1>3. v = d * x + e
  BY <1>1, <1>2, DivisionOf
<1>4. d * (x - q) = r - e
  BY <1>3, SMT
<1>5. x - q = 0
  BY <1>4, SmallMultiple, SMT
<1> QED
  BY <1>1, <1>2, <1>3, <1>5, SMT

LEMMA DivisionTwice ==
  ASSUME NEW v \in Int, NEW p \in Nat \ {0}
  PROVE  /\ v \div (2 * p) = (v \div p) \div 2
         /\ v \div (2 * p) = (v \div 2) \div p
<1>1. 2 * p \in Nat \ {0}
  BY SMT
<1>2. v \div (2 * p) = (v \div p) \div 2
  <2>1. PICK q \in Int, r \in 0 .. p - 1 : q = v \div p /\ v = p * q + r
    BY DivisionOf
  <2>2. PICK s \in Int, t \in {0, 1} : s = q \div 2 /\ q = 2 * s + t
    BY SMT
  <2>4. PICK d \in Nat \ {0} : d = 2 * p
    BY <1>1
  <2>5. PICK e \in 0 .. d - 1 : e = p * t + r
    <3>1. p * t \in {0, p}
      BY SMT
    <3> QED
      BY <2>4, <3>1, SMT
  <2>6. v = d * s + e
    <3>1. p * (2 * s + t) = 2 * (p * s) + p * t /\ (2 * p) * s = 2 * (p * s)
      BY SMT
    <3>2. p * q = 2 * (p * s) + p * t /\ d * s = 2 * (p * s)
      BY <2>2, <2>4, <3>1
    <3> QED
      BY <2>1, <2>5, <3>2, SMT
  <2>7. v \div d = s
    BY <2>6, DivisionUnique
  <2> QED
    BY <2>1, <2>2, <2>4, <2>7, Zenon
<1>3. v \div (2 * p) = (v \div 2) \div p
  <2>1. PICK s \in Int, t \in {0, 1} : s = v \div 2 /\ v = 2 * s + t
    BY SMT
  <2>2. PICK q \in Int, r \in 0 .. p - 1 : q = s \div p /\ s = p * q + r
    BY DivisionOf
  <2>4. PICK d \in Nat \ {0} : d = 2 * p
    BY <1>1
  <2>5. PICK e \in 0 .. d - 1 : e = 2 * r + t
    BY <2>4, SMT
  <2>6. v = d * q + e
    <3>1. PICK m \in Int : m = p * q
      BY SMT
    <3>2. d * q = 2 * m
      BY <2>4, <3>1, SMT
    <3>3. s = m + r
      BY <2>2, <3>1
    <3> QED
      BY <2>1, <2>5, <3>2, <3>3, SMT
  <2>7. v \div d = q
    BY <2>6, DivisionUnique
  <2> QED
    BY <2>1, <2>2, <2>4, <2>7, Zenon
<1> QED
  BY <1>2, <1>3
-----------------------------------------------------------------------------
(* Fields of words *)

LEMMA PowersType ==
  ASSUME NEW n \in 0 .. 31
  PROVE  2^n \in Nat \ {0}
BY PowerPositive

LEMMA PowerAndNext ==
  ASSUME NEW n \in 0 .. 30
  PROVE  \E p \in Nat \ {0} : p = 2^n /\ 2^(n + 1) = 2 * p
<1>1. 2^(n + 1) = 2 * 2^n
  BY PowerDoubles
<1>2. n \in 0 .. 31
  OBVIOUS
<1>3. 2^n \in Nat \ {0}
  BY <1>2, PowersType
<1> QED
  BY <1>1, <1>3, Zenon

LEMMA FieldBound ==
  ASSUME NEW w \in WordType, NEW first \in Nat, NEW width \in 0 .. 31, first + width <= 32
  PROVE  \E f \in [0 .. width -> Nat] :
           /\ f[0] = 0
           /\ \A k \in 1 .. width : f[k] = 2 * f[k - 1] + w[first + width - k]
           /\ \A k \in 1 .. width : w[first + width - k] \in {0, 1}
           /\ GetField(w, first, width) = f[width]
<1>0. width \in Nat
  OBVIOUS
<1>1. PICK f \in [0 .. width -> Nat] :
        /\ f[0] = 0
        /\ \A k \in 1 .. width : f[k] = 2 * f[k - 1] + w[first + width - k]
        /\ GetField(w, first, width) = f[width]
  BY <1>0, FieldValue
<1>2. ASSUME NEW k \in 1 .. width PROVE w[first + width - k] \in {0, 1}
  <2>1. first + width - k \in Bits
    BY <1>0 DEF Bits
  <2> QED
    BY <2>1 DEF WordType
<1> QED
  BY <1>1, <1>2

LEMMA SetBit ==
  ASSUME NEW w \in WordType, NEW first \in Nat, NEW width \in Nat, NEW value \in Int,
         NEW k \in Bits
  PROVE  /\ k \in first .. first + width - 1
              => SetField(w, first, width, value)[k] = (value \div 2^(k - first)) % 2
         /\ k \notin first .. first + width - 1
              => SetField(w, first, width, value)[k] = w[k]
<1> DEFINE bit(j) == (value \div 2^(j - first)) % 2
<1>1. SetField(w, first, width, value)
        = [j \in Bits |-> IF j \in first .. first + width - 1 THEN bit(j) ELSE w[j]]
  BY DEF SetField
<1> HIDE DEF bit
<1>2. /\ k \in first .. first + width - 1 => SetField(w, first, width, value)[k] = bit(k)
      /\ k \notin first .. first + width - 1 => SetField(w, first, width, value)[k] = w[k]
  BY <1>1
<1> QED
  BY <1>2 DEF bit

(***************************************************************************)
(* A field holds what was written into it, modulo its width.               *)
(***************************************************************************)
LEMMA FieldWritten ==
  ASSUME NEW w \in WordType, NEW first \in Nat, NEW width \in 0 .. 31, first + width <= 32,
         NEW value \in Int
  PROVE  GetField(SetField(w, first, width, value), first, width) = value % 2^width
<1> DEFINE u == SetField(w, first, width, value)
<1>1. u \in WordType
  BY SetFieldType
<1>2. ASSUME NEW k \in 1 .. width
      PROVE  u[first + width - k] = (value \div 2^(width - k)) % 2
  <2>1. /\ first + width - k \in Bits
        /\ first + width - k \in first .. first + width - 1
        /\ (first + width - k) - first = width - k
    BY DEF Bits
  <2>2. width \in Nat
    OBVIOUS
  <2>3. PICK j \in Bits : j = first + width - k
    BY <2>1
  <2>4. u[j] = (value \div 2^(j - first)) % 2
    BY <2>1, <2>2, <2>3, SetBit
  <2> QED
    BY <2>1, <2>3, <2>4
<1> HIDE DEF u
<1>3. PICK f \in [0 .. width -> Nat] :
        /\ f[0] = 0
        /\ \A k \in 1 .. width : f[k] = 2 * f[k - 1] + u[first + width - k]
        /\ GetField(u, first, width) = f[width]
  BY <1>1, FieldBound
<1>4. PICK q \in Int : q = value \div 2^width
  BY PowersType, DivisionOf
<1> DEFINE Read(k) == f[k] < 2^k /\ value \div 2^(width - k) = 2^k * q + f[k]
           S == {k \in Nat : k \in 0 .. width => Read(k)}
<1>5. 0 \in S
  <2>1. 2^0 = 1 /\ width - 0 = width
    BY SMT
  <2>2. 0 < 2^0 /\ value \div 2^(width - 0) = 2^0 * q + 0
    BY <1>4, <2>1
  <2> QED
    BY <1>3, <2>2
<1>6. ASSUME NEW k \in Nat, k \in S PROVE k + 1 \in S
  <2> SUFFICES ASSUME k + 1 \in 0 .. width PROVE Read(k + 1)
    OBVIOUS
  <2>1. Read(k) /\ k \in 0 .. 30 /\ k + 1 \in 1 .. width /\ (k + 1) - 1 = k
    BY <1>6
  <2>2. PICK j \in 0 .. 30 : j = width - (k + 1) /\ j + 1 = width - k
    BY <2>1
  <2>3. PICK p \in Nat \ {0} : p = 2^k /\ 2^(k + 1) = 2 * p
    BY <2>1, PowerAndNext
  <2>4. PICK d \in Nat \ {0} : d = 2^j /\ 2^(j + 1) = 2 * d
    BY PowerAndNext
  <2>5. PICK a \in Int : a = value \div d
    BY DivisionOf
  <2>6. value \div 2^(width - k) = a \div 2
    <3>1. value \div (2 * d) = (value \div d) \div 2
      BY DivisionTwice
    <3> QED
      BY <2>2, <2>4, <2>5, <3>1
  <2>7. f[k + 1] = 2 * f[k] + (a % 2)
    BY <1>2, <1>3, <2>1, <2>2, <2>4, <2>5
  <2>8. f[k] < p /\ a \div 2 = p * q + f[k] /\ f[k] \in Nat
    BY <2>1, <2>3, <2>6
  <2>9. PICK m \in Int : m = p * q
    BY SMT
  <2>10. (2 * p) * q = 2 * m
    BY <2>9, SMT
  <2>11. f[k + 1] < 2 * p
    BY <2>7, <2>8, SMT
  <2>12. a = 2 * m + f[k + 1]
    <3>1. a = 2 * (a \div 2) + (a % 2) /\ a % 2 \in {0, 1}
      BY SMT
    <3>2. a \div 2 = m + f[k]
      BY <2>8, <2>9
    <3> QED
      BY <2>7, <2>8, <3>1, <3>2, SMTT(40)
  <2> QED
    BY <2>2, <2>3, <2>4, <2>5, <2>10, <2>11, <2>12
<1>7. width \in S
  <2> HIDE DEF S
  <2>1. Nat \subseteq S
    BY <1>5, <1>6, Induction
  <2> QED
    BY <2>1
<1>8. f[width] < 2^width /\ value \div 2^(width - width) = 2^width * q + f[width]
  BY <1>7
<1>9. PICK p \in Nat \ {0} : p = 2^width
  BY PowersType
<1>10. value = p * q + f[width] /\ f[width] \in 0 .. p - 1
  <2>1. width - width = 0 /\ 2^0 = 1 /\ value \div 1 = value
    BY SMT
  <2> QED
    BY <1>8, <1>9, <2>1
<1>11. value % p = f[width]
  BY <1>10, DivisionUnique
<1> QED
  BY <1>3, <1>9, <1>11 DEF u

(***************************************************************************)
(* Words that agree on a field hold the same there.                        *)
(***************************************************************************)
LEMMA SameField ==
  ASSUME NEW w \in WordType, NEW u \in WordType,
         NEW first \in Nat, NEW width \in 0 .. 31, first + width <= 32,
         \A k \in first .. first + width - 1 : u[k] = w[k]
  PROVE  GetField(u, first, width) = GetField(w, first, width)
<1>1. PICK f \in [0 .. width -> Nat] :
        /\ f[0] = 0
        /\ \A k \in 1 .. width : f[k] = 2 * f[k - 1] + w[first + width - k]
        /\ GetField(w, first, width) = f[width]
  BY FieldBound
<1>2. PICK g \in [0 .. width -> Nat] :
        /\ g[0] = 0
        /\ \A k \in 1 .. width : g[k] = 2 * g[k - 1] + u[first + width - k]
        /\ GetField(u, first, width) = g[width]
  BY FieldBound
<1>3. \A k \in 1 .. width : u[first + width - k] = w[first + width - k]
  OBVIOUS
<1> DEFINE S == {k \in Nat : k \in 0 .. width => g[k] = f[k]}
<1>4. 0 \in S
  BY <1>1, <1>2
<1>5. ASSUME NEW k \in Nat, k \in S PROVE k + 1 \in S
  <2> SUFFICES ASSUME k + 1 \in 0 .. width PROVE g[k + 1] = f[k + 1]
    OBVIOUS
  <2>1. k + 1 \in 1 .. width /\ (k + 1) - 1 = k /\ g[k] = f[k]
    BY <1>5
  <2> QED
    BY <1>1, <1>2, <1>3, <2>1
<1>6. width \in S
  <2> HIDE DEF S
  <2>1. Nat \subseteq S
    BY <1>4, <1>5, Induction
  <2> QED
    BY <2>1
<1> QED
  BY <1>1, <1>2, <1>6

Apart(first, width, at, length) == at + length <= first \/ first + width <= at

LEMMA FieldKept ==
  ASSUME NEW w \in WordType, NEW first \in Nat, NEW width \in 0 .. 31, first + width <= 32,
         NEW at \in Nat, NEW length \in Nat, NEW value \in Int,
         Apart(first, width, at, length)
  PROVE  GetField(SetField(w, at, length, value), first, width) = GetField(w, first, width)
<1>1. ASSUME NEW k \in first .. first + width - 1
      PROVE  SetField(w, at, length, value)[k] = w[k]
  <2>1. k \in Bits /\ k \notin at .. at + length - 1
    BY DEF Bits, Apart
  <2> QED
    BY <2>1, SetBit
<1> QED
  BY <1>1, SetFieldType, SameField

(***************************************************************************)
(* The bits of the number a field holds are the bits of the field.         *)
(***************************************************************************)
LEMMA FieldBits ==
  ASSUME NEW w \in WordType, NEW first \in Nat, NEW width \in 0 .. 31, first + width <= 32,
         NEW i \in 0 .. width - 1
  PROVE  (GetField(w, first, width) \div 2^i) % 2 = w[first + i]
<1>1. PICK f \in [0 .. width -> Nat] :
        /\ f[0] = 0
        /\ \A k \in 1 .. width : f[k] = 2 * f[k - 1] + w[first + width - k]
        /\ \A k \in 1 .. width : w[first + width - k] \in {0, 1}
        /\ GetField(w, first, width) = f[width]
  BY FieldBound
<1> DEFINE Read(k) == \A j \in 0 .. k - 1 : (f[k] \div 2^j) % 2 = w[first + width - k + j]
           S == {k \in Nat : k \in 0 .. width => Read(k)}
<1>2. 0 \in S
  OBVIOUS
<1>3. ASSUME NEW k \in Nat, k \in S PROVE k + 1 \in S
  <2> SUFFICES ASSUME k + 1 \in 0 .. width, NEW j \in 0 .. k
               PROVE  (f[k + 1] \div 2^j) % 2 = w[first + width - (k + 1) + j]
    OBVIOUS
  <2>1. k \in 0 .. width /\ k + 1 \in 1 .. width /\ (k + 1) - 1 = k
    OBVIOUS
  <2>2. PICK v \in Nat : v = f[k]
    BY <2>1
  <2>3. PICK b \in {0, 1} : b = w[first + width - (k + 1)]
    BY <1>1, <2>1
  <2>4. f[k + 1] = 2 * v + b
    BY <1>1, <2>1, <2>2, <2>3
  <2>5. CASE j = 0
    <3>1. 2^0 = 1 /\ (2 * v + b) \div 1 = 2 * v + b /\ (2 * v + b) % 2 = b
      BY SMT
    <3>2. first + width - (k + 1) + 0 = first + width - (k + 1)
      OBVIOUS
    <3> QED
      BY <2>3, <2>4, <2>5, <3>1, <3>2, Zenon
  <2>6. CASE j # 0
    <3>1. PICK h \in 0 .. 30 : h = j - 1 /\ j = h + 1 /\ h \in 0 .. k - 1
      BY <2>6
    <3>2. PICK p \in Nat \ {0} : p = 2^h /\ 2^(h + 1) = 2 * p
      BY PowerAndNext
    <3>3. 2 * v + b \in Int /\ (2 * v + b) \div 2 = v
      BY SMT
    <3>4. (2 * v + b) \div (2 * p) = ((2 * v + b) \div 2) \div p
      BY <3>3, DivisionTwice
    <3>5. (v \div 2^h) % 2 = w[first + width - k + h]
      BY <1>3, <2>1, <2>2, <3>1
    <3>6. first + width - k + h = first + width - (k + 1) + j
      BY <3>1
    <3>7. f[k + 1] \div 2^j = v \div 2^h
      BY <2>4, <3>1, <3>2, <3>3, <3>4, Zenon
    <3> QED
      BY <3>5, <3>6, <3>7, Zenon
  <2> QED
    BY <2>5, <2>6
<1>4. width \in S
  <2> HIDE DEF S
  <2>1. Nat \subseteq S
    BY <1>2, <1>3, Induction
  <2> QED
    BY <2>1
<1>5. (f[width] \div 2^i) % 2 = w[first + width - width + i]
  BY <1>4
<1>6. first + width - width + i = first + i
  OBVIOUS
<1> QED
  BY <1>1, <1>5, <1>6, Zenon

(***************************************************************************)
(* A word survives its way through a file.                                 *)
(***************************************************************************)
LEMMA WordRead ==
  ASSUME NEW w \in WordType
  PROVE  WordOf(WordBytes(w)) = w
<1>1. ASSUME NEW k \in Bits
      PROVE  (WordBytes(w)[4 - (k \div 8)] \div 2^(k % 8)) % 2 = w[k]
  <2>1. PICK first \in {0, 8, 16, 24}, i \in 0 .. 7 :
          /\ first = 8 * (k \div 8) /\ i = k % 8 /\ first + i = k
    BY DEF Bits
  <2>2. 4 - (k \div 8) \in 1 .. 4 /\ 8 * (4 - (4 - (k \div 8))) = first
    BY <2>1 DEF Bits
  <2>3. WordBytes(w)[4 - (k \div 8)] = GetField(w, first, 8)
    BY <2>2 DEF WordBytes
  <2>4. (GetField(w, first, 8) \div 2^i) % 2 = w[first + i]
    <3>1. first \in Nat /\ 8 \in 0 .. 31 /\ first + 8 <= 32 /\ i \in 0 .. 8 - 1
      OBVIOUS
    <3> QED
      BY <3>1, FieldBits
  <2> QED
    BY <2>1, <2>3, <2>4, Zenon
<1>2. w = [k \in Bits |-> w[k]]
  BY DEF WordType
<1> DEFINE bit(k) == (WordBytes(w)[4 - (k \div 8)] \div 2^(k % 8)) % 2
<1>3. WordOf(WordBytes(w)) = [k \in Bits |-> bit(k)]
  BY DEF WordOf
<1>4. \A k \in Bits : bit(k) = w[k]
  BY <1>1
<1> HIDE DEF bit
<1> QED
  BY <1>2, <1>3, <1>4
-----------------------------------------------------------------------------
(* The macros of the target headers *)

TwoTo(n) == 2^n
Rest(v, n) == v % 2^n

LEMMA SmallPowers ==
  /\ TwoTo(1) = 2 /\ TwoTo(2) = 4 /\ TwoTo(3) = 8 /\ TwoTo(4) = 16 /\ TwoTo(5) = 32 /\ TwoTo(6) = 64
BY SMT DEF TwoTo

LEMMA SmallRests ==
  ASSUME NEW v \in Int
  PROVE  /\ Rest(v, 1) = v % 2 /\ Rest(v, 2) = v % 4 /\ Rest(v, 3) = v % 8 /\ Rest(v, 4) = v % 16
         /\ Rest(v, 5) = v % 32 /\ Rest(v, 6) = v % 64
BY SMT DEF Rest

LEMMA LargePowers ==
  /\ TwoTo(7) = 128 /\ TwoTo(8) = 256 /\ TwoTo(10) = 1024 /\ TwoTo(11) = 2048 /\ TwoTo(12) = 4096
  /\ TwoTo(13) = 8192 /\ TwoTo(21) = 2097152 /\ TwoTo(22) = 4194304 /\ TwoTo(29) = 536870912
BY SMT DEF TwoTo

\* the word u is the word w with x in one field
Sets(u, w, at, length, x) ==
  /\ u \in WordType
  /\ GetField(u, at, length) = x
  /\ \A first \in 0 .. 31, width \in 0 .. 31 :
       first + width <= 32 /\ Apart(first, width, at, length)
         => GetField(u, first, width) = GetField(w, first, width)

LEMMA FieldSet ==
  ASSUME NEW w \in WordType, NEW at \in 0 .. 31, NEW length \in 0 .. 31, at + length <= 32, NEW v \in Int
  PROVE  Sets(SetField(w, at, length, v), w, at, length, Rest(v, length))
<1>1. SetField(w, at, length, v) \in WordType
  BY SetFieldType
<1>2. GetField(SetField(w, at, length, v), at, length) = Rest(v, length)
  <2>1. at \in Nat
    OBVIOUS
  <2>2. GetField(SetField(w, at, length, v), at, length) = v % 2^length
    BY <2>1, FieldWritten
  <2> QED
    BY <2>2, Zenon DEF Rest
<1>3. ASSUME NEW first \in 0 .. 31, NEW width \in 0 .. 31, first + width <= 32,
             Apart(first, width, at, length)
      PROVE  GetField(SetField(w, at, length, v), first, width) = GetField(w, first, width)
  <2>1. at \in Nat /\ length \in Nat /\ first \in Nat
    OBVIOUS
  <2> QED
    BY <1>3, <2>1, FieldKept, SMTT(40)
<1> QED
  BY <1>1, <1>2, <1>3 DEF Sets

LEMMA MacrosSet ==
  ASSUME NEW w \in WordType, NEW v \in Int
  PROVE  /\ Sets(SetOp(w, v), w, 30, 2, v % 4)
         /\ Sets(SetDisp30(w, v), w, 0, 30, Rest(v, 30))
         /\ Sets(SetRd(w, v), w, 25, 5, v % 32)
         /\ Sets(SetOp2(w, v), w, 22, 3, v % 8)
         /\ Sets(SetImm22(w, v), w, 0, 22, Rest(v, 22))
         /\ Sets(SetOp3(w, v), w, 19, 6, v % 64)
         /\ Sets(SetRs1(w, v), w, 14, 5, v % 32)
         /\ Sets(SetCC(w, v), w, 25, 4, v % 16)
         /\ Sets(SetA(w, v), w, 29, 1, v % 2)
<1>2. /\ Sets(SetField(w, 30, 2, v), w, 30, 2, Rest(v, 2))
      /\ Sets(SetField(w, 0, 30, v), w, 0, 30, Rest(v, 30))
      /\ Sets(SetField(w, 25, 5, v), w, 25, 5, Rest(v, 5))
      /\ Sets(SetField(w, 22, 3, v), w, 22, 3, Rest(v, 3))
      /\ Sets(SetField(w, 0, 22, v), w, 0, 22, Rest(v, 22))
      /\ Sets(SetField(w, 19, 6, v), w, 19, 6, Rest(v, 6))
      /\ Sets(SetField(w, 14, 5, v), w, 14, 5, Rest(v, 5))
      /\ Sets(SetField(w, 25, 4, v), w, 25, 4, Rest(v, 4))
      /\ Sets(SetField(w, 29, 1, v), w, 29, 1, Rest(v, 1))
  <2>1. Sets(SetField(w, 30, 2, v), w, 30, 2, Rest(v, 2))
    BY FieldSet
  <2>2. Sets(SetField(w, 0, 30, v), w, 0, 30, Rest(v, 30))
    BY FieldSet
  <2>3. Sets(SetField(w, 25, 5, v), w, 25, 5, Rest(v, 5))
    BY FieldSet
  <2>4. Sets(SetField(w, 22, 3, v), w, 22, 3, Rest(v, 3))
    BY FieldSet
  <2>5. Sets(SetField(w, 0, 22, v), w, 0, 22, Rest(v, 22))
    BY FieldSet
  <2>6. Sets(SetField(w, 19, 6, v), w, 19, 6, Rest(v, 6))
    BY FieldSet
  <2>7. Sets(SetField(w, 14, 5, v), w, 14, 5, Rest(v, 5))
    BY FieldSet
  <2>8. Sets(SetField(w, 25, 4, v), w, 25, 4, Rest(v, 4))
    BY FieldSet
  <2>9. Sets(SetField(w, 29, 1, v), w, 29, 1, Rest(v, 1))
    BY FieldSet
  <2> QED
    BY <2>1, <2>2, <2>3, <2>4, <2>5, <2>6, <2>7, <2>8, <2>9
<1> QED
  BY <1>2, SmallRests, Zenon DEF SetOp, SetDisp30, SetRd, SetOp2, SetImm22, SetOp3, SetRs1, SetCC, SetA

LEMMA ExtensionMacrosSet ==
  ASSUME NEW w \in WordType, NEW v \in Int
  PROVE  /\ Sets(SelSetType(w, v), w, 20, 2, v % 4)
         /\ Sets(SelSetIcc(w, v), w, 16, 4, v % 16)
         /\ Sets(SelSetRs1(w, v), w, 11, 5, v % 32)
         /\ Sets(SelSetRs2(w, v), w, 0, 5, v % 32)
         /\ Sets(SelSetSimm11(w, v), w, 0, 11, Rest(v, 11))
         /\ Sets(SelSetSrc1Imm8(w, v), w, 8, 8, Rest(v, 8))
         /\ Sets(SelSetSrc2Imm8(w, v), w, 0, 8, Rest(v, 8))
         /\ Sets(PredSetType(w, v), w, 20, 2, v % 4)
         /\ Sets(PredSetIcc(w, v), w, 16, 4, v % 16)
         /\ Sets(PredSetTf(w, v), w, 5, 1, v % 2)
<1>2. /\ Sets(SetField(w, 20, 2, v), w, 20, 2, Rest(v, 2))
      /\ Sets(SetField(w, 16, 4, v), w, 16, 4, Rest(v, 4))
      /\ Sets(SetField(w, 11, 5, v), w, 11, 5, Rest(v, 5))
      /\ Sets(SetField(w, 0, 5, v), w, 0, 5, Rest(v, 5))
      /\ Sets(SetField(w, 0, 11, v), w, 0, 11, Rest(v, 11))
      /\ Sets(SetField(w, 8, 8, v), w, 8, 8, Rest(v, 8))
      /\ Sets(SetField(w, 0, 8, v), w, 0, 8, Rest(v, 8))
      /\ Sets(SetField(w, 5, 1, v), w, 5, 1, Rest(v, 1))
  <2>1. Sets(SetField(w, 20, 2, v), w, 20, 2, Rest(v, 2))
    BY FieldSet
  <2>2. Sets(SetField(w, 16, 4, v), w, 16, 4, Rest(v, 4))
    BY FieldSet
  <2>3. Sets(SetField(w, 11, 5, v), w, 11, 5, Rest(v, 5))
    BY FieldSet
  <2>4. Sets(SetField(w, 0, 5, v), w, 0, 5, Rest(v, 5))
    BY FieldSet
  <2>5. Sets(SetField(w, 0, 11, v), w, 0, 11, Rest(v, 11))
    BY FieldSet
  <2>6. Sets(SetField(w, 8, 8, v), w, 8, 8, Rest(v, 8))
    BY FieldSet
  <2>7. Sets(SetField(w, 0, 8, v), w, 0, 8, Rest(v, 8))
    BY FieldSet
  <2>8. Sets(SetField(w, 5, 1, v), w, 5, 1, Rest(v, 1))
    BY FieldSet
  <2> QED
    BY <2>1, <2>2, <2>3, <2>4, <2>5, <2>6, <2>7, <2>8
<1> QED
  BY <1>2, SmallRests, Zenon DEF SelSetType, SelSetIcc, SelSetRs1, SelSetRs2, SelSetSimm11, SelSetSrc1Imm8,
     SelSetSrc2Imm8, PredSetType, PredSetIcc, PredSetTf

\* the two macros that also say which kind of second source operand there is
SetsSource(u, w, length, x, i) == \E y : Sets(y, w, 0, length, x) /\ Sets(u, y, 13, 1, i)

LEMMA SourceMacrosSet ==
  ASSUME NEW w \in WordType, NEW v \in Int
  PROVE  /\ SetsSource(SetRs2(w, v), w, 5, v % 32, 0)
         /\ SetsSource(SetSimm13(w, v), w, 13, Rest(v, 13), 1)
<1>1. /\ Sets(SetField(w, 0, 5, v), w, 0, 5, v % 32)
      /\ Sets(SetField(w, 0, 13, v), w, 0, 13, Rest(v, 13))
  <2>1. Sets(SetField(w, 0, 5, v), w, 0, 5, Rest(v, 5))
    BY FieldSet
  <2>2. Sets(SetField(w, 0, 13, v), w, 0, 13, Rest(v, 13))
    BY FieldSet
  <2> QED
    BY <2>1, <2>2, SmallRests, Zenon
<1>2. 0 % 2 = 0 /\ 1 % 2 = 1
  BY SMT
<1>3. ASSUME NEW y \in WordType
      PROVE  Sets(SetField(y, 13, 1, 0), y, 13, 1, 0) /\ Sets(SetField(y, 13, 1, 1), y, 13, 1, 1)
  <2>1. Sets(SetField(y, 13, 1, 0), y, 13, 1, Rest(0, 1))
    BY FieldSet
  <2>2. Sets(SetField(y, 13, 1, 1), y, 13, 1, Rest(1, 1))
    BY FieldSet
  <2>3. Rest(0, 1) = 0 /\ Rest(1, 1) = 1
    BY <1>2, SmallRests
  <2> QED
    BY <2>1, <2>2, <2>3
<1>4. SetField(w, 0, 5, v) \in WordType /\ SetField(w, 0, 13, v) \in WordType
  BY <1>1 DEF Sets
<1> QED
  BY <1>1, <1>3, <1>4 DEF SetsSource, SetRs2, SetSimm13

\* numbers that fit into their field
LEMMA Fits ==
  /\ \A v \in 0 .. 31 : v % 32 = v
  /\ \A v \in 0 .. 15 : v % 16 = v /\ v % 32 = v
  /\ \A v \in 0 .. 63 : v % 64 = v
  /\ \A v \in 0 .. 7 : v % 8 = v
  /\ \A v \in 0 .. 3 : v % 4 = v
  /\ \A v \in 0 .. 1 : v % 2 = v
BY SMT

LEMMA SignRead ==
  ASSUME NEW n \in 1 .. 31, NEW v \in Int, -TwoTo(n - 1) <= v, v < TwoTo(n - 1)
  PROVE  Extended(Rest(v, n), n) = v
<1>1. PICK h \in 0 .. 30 : h = n - 1 /\ h + 1 = n
  OBVIOUS
<1>2. PICK p \in Nat \ {0} : p = 2^h /\ 2^(h + 1) = 2 * p
  BY PowerAndNext
<1>3. TwoTo(n - 1) = p /\ TwoTo(n) = 2 * p
  BY <1>1, <1>2, Zenon DEF TwoTo
<1>4. -p <= v /\ v < p /\ 2 * p \in Nat \ {0}
  BY <1>3
<1>5. Extended(Rest(v, n), n) = IF v % (2 * p) >= p THEN (v % (2 * p)) - 2 * p ELSE v % (2 * p)
  BY <1>1, <1>2, <1>3, Zenon DEF Extended, Rest
<1>6. CASE v >= 0
  <2>1. v = 2 * p * 0 + v /\ v \in 0 .. 2 * p - 1
    BY <1>4, <1>6
  <2>2. v % (2 * p) = v
    BY <1>4, <2>1, DivisionUnique
  <2> QED
    BY <1>4, <1>5, <2>2
<1>7. CASE v < 0
  <2>1. PICK d \in Nat \ {0} : d = 2 * p
    BY <1>4
  <2>2. v = d * (-1) + (v + d) /\ v + d \in 0 .. d - 1 /\ -1 \in Int
    BY <1>4, <1>7, <2>1
  <2>3. v % d = v + d
    BY <2>2, DivisionUnique
  <2>4. v % (2 * p) = v + 2 * p
    BY <2>1, <2>3
  <2> QED
    BY <1>4, <1>5, <2>4
<1> QED
  BY <1>6, <1>7
-----------------------------------------------------------------------------
(* The words of the instructions that all targets share *)

SameFormat(u, w) == u \in WordType /\ GetOp(u) = GetOp(w) /\ GetOp2(u) = GetOp2(w)

LEMMA ZeroWordType == ZeroWord \in WordType
BY DEF ZeroWord, WordType

LEMMA FormatFields ==
  ASSUME NEW v2 \in 0 .. 7
  PROVE  FormatWord(0, v2) \in WordType /\ GetOp(FormatWord(0, v2)) = 0 /\ GetOp2(FormatWord(0, v2)) = v2
<1> DEFINE a == SetOp(ZeroWord, 0)
           u == SetOp2(a, v2)
<1>1. Sets(a, ZeroWord, 30, 2, 0)
  <2>1. 0 % 4 = 0
    OBVIOUS
  <2> QED
    BY <2>1, ZeroWordType, MacrosSet
<1>2. a \in WordType
  BY <1>1 DEF Sets
<1>3. Sets(u, a, 22, 3, v2)
  <2>1. v2 % 8 = v2 /\ v2 \in Int
    BY Fits
  <2> QED
    BY <1>2, <2>1, MacrosSet
<1> HIDE DEF a, u
<1>4. GetField(u, 22, 3) = v2
  BY <1>3 DEF Sets
<1>5. GetField(u, 30, 2) = 0
  <2>1. GetField(u, 30, 2) = GetField(a, 30, 2)
    BY <1>3 DEF Sets, Apart
  <2> QED
    BY <1>1, <2>1 DEF Sets
<1>6. u \in WordType
  BY <1>3 DEF Sets
<1> QED
  BY <1>4, <1>5, <1>6 DEF FormatWord, GetOp, GetOp2, a, u

LEMMA DisplacementRead ==
  ASSUME NEW n \in Int, NEW a \in Int, NEW width \in 1 .. 31,
         -TwoTo(width - 1) <= a - n, a - n < TwoTo(width - 1)
  PROVE  Displaced(n, Rest(a - n, width), width) = Operand("LABEL_ADDRESS", a)
<1>1. Extended(Rest(a - n, width), width) = a - n
  BY SignRead
<1> QED
  BY <1>1 DEF Displaced

LEMMA CallRead ==
  ASSUME NEW d \in Int
  PROVE  LET u == SetDisp30(SetOp(ZeroWord, 1), d) IN
         u \in WordType /\ GetOp(u) = 1 /\ GetDisp30(u) = Rest(d, 30)
<1> DEFINE a == SetOp(ZeroWord, 1)
           u == SetDisp30(a, d)
<1>1. Sets(a, ZeroWord, 30, 2, 1)
  <2>1. 1 % 4 = 1
    OBVIOUS
  <2> QED
    BY <2>1, ZeroWordType, MacrosSet
<1>2. a \in WordType
  BY <1>1 DEF Sets
<1>3. Sets(u, a, 0, 30, Rest(d, 30))
  BY <1>2, MacrosSet
<1> HIDE DEF a, u
<1>4. GetField(u, 30, 2) = 1
  <2>1. GetField(u, 30, 2) = GetField(a, 30, 2)
    BY <1>3 DEF Sets, Apart
  <2> QED
    BY <1>1, <2>1 DEF Sets
<1>5. GetField(u, 0, 30) = Rest(d, 30) /\ u \in WordType
  BY <1>3 DEF Sets
<1> QED
  BY <1>4, <1>5 DEF GetOp, GetDisp30, a, u

LEMMA BranchRead ==
  ASSUME NEW w \in WordType, NEW d \in Int, NEW cc \in 0 .. 15
  PROVE  LET u == SetA(SetCC(SetImm22(w, d), cc), 0) IN
         SameFormat(u, w) /\ GetImm22(u) = Rest(d, 22) /\ GetCC(u) = cc
<1> DEFINE a == SetImm22(w, d)
           b == SetCC(a, cc)
           u == SetA(b, 0)
<1>1. Sets(a, w, 0, 22, Rest(d, 22))
  BY MacrosSet
<1>2. a \in WordType
  BY <1>1 DEF Sets
<1>3. Sets(b, a, 25, 4, cc)
  <2>1. cc % 16 = cc /\ cc \in Int
    BY Fits
  <2> QED
    BY <1>2, <2>1, MacrosSet
<1>4. b \in WordType
  BY <1>3 DEF Sets
<1>5. Sets(u, b, 29, 1, 0)
  <2>1. 0 % 2 = 0
    OBVIOUS
  <2> QED
    BY <1>4, <2>1, MacrosSet
<1> HIDE DEF a, b, u
<1>6. GetField(u, 30, 2) = GetField(w, 30, 2) /\ GetField(u, 22, 3) = GetField(w, 22, 3)
  BY <1>1, <1>3, <1>5 DEF Sets, Apart
<1>7. GetField(u, 0, 22) = Rest(d, 22) /\ GetField(u, 25, 4) = cc /\ u \in WordType
  BY <1>1, <1>3, <1>5 DEF Sets, Apart
<1> QED
  BY <1>6, <1>7 DEF SameFormat, GetOp, GetOp2, GetImm22, GetCC, a, b, u

LEMMA RdImmediateRead ==
  ASSUME NEW w \in WordType, NEW rd \in 0 .. 31, NEW v \in Int
  PROVE  LET u == SetImm22(SetRd(w, rd), v) IN
         SameFormat(u, w) /\ GetRd(u) = rd /\ GetImm22(u) = Rest(v, 22)
<1> DEFINE a == SetRd(w, rd)
           u == SetImm22(a, v)
<1>1. Sets(a, w, 25, 5, rd)
  <2>1. rd % 32 = rd /\ rd \in Int
    BY Fits
  <2> QED
    BY <2>1, MacrosSet
<1>2. a \in WordType
  BY <1>1 DEF Sets
<1>3. Sets(u, a, 0, 22, Rest(v, 22))
  BY <1>2, MacrosSet
<1> HIDE DEF a, u
<1>4. GetField(u, 30, 2) = GetField(w, 30, 2) /\ GetField(u, 22, 3) = GetField(w, 22, 3)
  BY <1>1, <1>3 DEF Sets, Apart
<1>5. GetField(u, 0, 22) = Rest(v, 22) /\ GetField(u, 25, 5) = rd /\ u \in WordType
  BY <1>1, <1>3 DEF Sets, Apart
<1> QED
  BY <1>4, <1>5 DEF SameFormat, GetOp, GetOp2, GetImm22, GetRd, a, u

LEMMA RdRead ==
  ASSUME NEW w \in WordType, NEW rd \in 0 .. 31
  PROVE  SameFormat(SetRd(w, rd), w) /\ GetRd(SetRd(w, rd)) = rd
<1> DEFINE u == SetRd(w, rd)
<1>1. Sets(u, w, 25, 5, rd)
  <2>1. rd % 32 = rd /\ rd \in Int
    BY Fits
  <2> QED
    BY <2>1, MacrosSet
<1> HIDE DEF u
<1>2. GetField(u, 30, 2) = GetField(w, 30, 2) /\ GetField(u, 22, 3) = GetField(w, 22, 3)
  BY <1>1 DEF Sets, Apart
<1>3. GetField(u, 25, 5) = rd /\ u \in WordType
  BY <1>1 DEF Sets
<1> QED
  BY <1>2, <1>3 DEF SameFormat, GetOp, GetOp2, GetRd, u

LEMMA RdRs1Read ==
  ASSUME NEW w \in WordType, NEW rd \in 0 .. 31, NEW rs \in 0 .. 31
  PROVE  LET u == SetRs1(SetRd(w, rd), rs) IN
         SameFormat(u, w) /\ GetOp3(u) = GetOp3(w) /\ GetRd(u) = rd /\ GetRs1(u) = rs
<1> DEFINE a == SetRd(w, rd)
           u == SetRs1(a, rs)
<1>0. rd % 32 = rd /\ rd \in Int /\ rs % 32 = rs /\ rs \in Int
  BY Fits
<1>1. Sets(a, w, 25, 5, rd)
  BY <1>0, MacrosSet
<1>2. a \in WordType
  BY <1>1 DEF Sets
<1>3. Sets(u, a, 14, 5, rs)
  BY <1>0, <1>2, MacrosSet
<1> HIDE DEF a, u
<1>4. /\ GetField(u, 30, 2) = GetField(w, 30, 2) /\ GetField(u, 22, 3) = GetField(w, 22, 3)
      /\ GetField(u, 19, 6) = GetField(w, 19, 6)
  BY <1>1, <1>3 DEF Sets, Apart
<1>5. GetField(u, 14, 5) = rs /\ GetField(u, 25, 5) = rd /\ u \in WordType
  BY <1>1, <1>3 DEF Sets, Apart
<1> QED
  BY <1>4, <1>5 DEF SameFormat, GetOp, GetOp2, GetOp3, GetRs1, GetRd, a, u

LEMMA Op3Read ==
  ASSUME NEW f \in {2, 3}, NEW v \in 0 .. 63
  PROVE  LET u == SetOp3(SetOp(ZeroWord, f), v) IN u \in WordType /\ GetOp(u) = f /\ GetOp3(u) = v
<1> DEFINE a == SetOp(ZeroWord, f)
           u == SetOp3(a, v)
<1>0. f % 4 = f /\ f \in Int /\ v % 64 = v /\ v \in Int
  BY Fits
<1>1. Sets(a, ZeroWord, 30, 2, f)
  BY <1>0, ZeroWordType, MacrosSet
<1>2. a \in WordType
  BY <1>1 DEF Sets
<1>3. Sets(u, a, 19, 6, v)
  BY <1>0, <1>2, MacrosSet
<1> HIDE DEF a, u
<1>4. GetField(u, 30, 2) = f /\ GetField(u, 19, 6) = v /\ u \in WordType
  BY <1>1, <1>3 DEF Sets, Apart
<1> QED
  BY <1>4 DEF GetOp, GetOp3, a, u

\* what the words of three operands have in common
ThreeFields(u, w, rd, rs1) ==
  /\ u \in WordType
  /\ GetOp(u) = GetOp(w) /\ GetOp3(u) = GetOp3(w)
  /\ GetRd(u) = rd /\ GetRs1(u) = rs1

LEMMA SourceKeeps ==
  ASSUME NEW u, NEW w \in WordType, NEW length \in 0 .. 13, NEW x, NEW i, SetsSource(u, w, length, x, i)
  PROVE  /\ u \in WordType
         /\ GetOp(u) = GetOp(w) /\ GetOp3(u) = GetOp3(w) /\ GetOp2(u) = GetOp2(w)
         /\ GetRd(u) = GetRd(w) /\ GetRs1(u) = GetRs1(w)
         /\ GetI(u) = i /\ GetField(u, 0, length) = x
<1>1. PICK y : Sets(y, w, 0, length, x) /\ Sets(u, y, 13, 1, i)
  BY DEF SetsSource
<1>2. /\ Apart(30, 2, 0, length) /\ Apart(19, 6, 0, length) /\ Apart(22, 3, 0, length)
      /\ Apart(25, 5, 0, length) /\ Apart(14, 5, 0, length)
  BY DEF Apart
<1>3. /\ GetField(y, 30, 2) = GetField(w, 30, 2) /\ GetField(y, 19, 6) = GetField(w, 19, 6)
      /\ GetField(y, 22, 3) = GetField(w, 22, 3) /\ GetField(y, 25, 5) = GetField(w, 25, 5)
      /\ GetField(y, 14, 5) = GetField(w, 14, 5) /\ GetField(y, 0, length) = x
  BY <1>1, <1>2 DEF Sets
<1>4. Apart(0, length, 13, 1) /\ length \in 0 .. 31
  BY DEF Apart
<1>5. /\ GetField(u, 30, 2) = GetField(y, 30, 2) /\ GetField(u, 19, 6) = GetField(y, 19, 6)
      /\ GetField(u, 22, 3) = GetField(y, 22, 3) /\ GetField(u, 25, 5) = GetField(y, 25, 5)
      /\ GetField(u, 14, 5) = GetField(y, 14, 5)
  BY <1>1 DEF Sets, Apart
<1>6. GetField(u, 0, length) = GetField(y, 0, length) /\ GetField(u, 13, 1) = i /\ u \in WordType
  BY <1>1, <1>4 DEF Sets
<1> QED
  BY <1>3, <1>5, <1>6 DEF GetOp, GetOp2, GetOp3, GetRd, GetRs1, GetI

LEMMA RegisterSourceRead ==
  ASSUME NEW w \in WordType, NEW rd \in 0 .. 31, NEW rs1 \in 0 .. 31, NEW rs2 \in 0 .. 31
  PROVE  LET u == SetRs2(SetRs1(SetRd(w, rd), rs1), rs2) IN
         ThreeFields(u, w, rd, rs1) /\ GetI(u) = 0 /\ GetRs2(u) = rs2
<1> DEFINE a == SetRs1(SetRd(w, rd), rs1)
           u == SetRs2(a, rs2)
<1>1. SameFormat(a, w) /\ GetOp3(a) = GetOp3(w) /\ GetRd(a) = rd /\ GetRs1(a) = rs1
  BY RdRs1Read
<1>2. a \in WordType
  BY <1>1 DEF SameFormat
<1>3. SetsSource(u, a, 5, rs2, 0)
  <2>1. rs2 % 32 = rs2 /\ rs2 \in Int
    BY Fits
  <2> QED
    BY <1>2, <2>1, SourceMacrosSet
<1> HIDE DEF a, u
<1>4. /\ u \in WordType /\ GetOp(u) = GetOp(a) /\ GetOp3(u) = GetOp3(a)
      /\ GetRd(u) = GetRd(a) /\ GetRs1(u) = GetRs1(a) /\ GetI(u) = 0 /\ GetField(u, 0, 5) = rs2
  BY <1>2, <1>3, SourceKeeps
<1> QED
  BY <1>1, <1>4 DEF ThreeFields, SameFormat, GetRs2, a, u

LEMMA ImmediateSourceRead ==
  ASSUME NEW w \in WordType, NEW rd \in 0 .. 31, NEW rs1 \in 0 .. 31, NEW v \in Int
  PROVE  LET u == SetSimm13(SetRs1(SetRd(w, rd), rs1), v) IN
         ThreeFields(u, w, rd, rs1) /\ GetI(u) = 1 /\ GetSimm13(u) = Rest(v, 13)
<1> DEFINE a == SetRs1(SetRd(w, rd), rs1)
           u == SetSimm13(a, v)
<1>1. SameFormat(a, w) /\ GetOp3(a) = GetOp3(w) /\ GetRd(a) = rd /\ GetRs1(a) = rs1
  BY RdRs1Read
<1>2. a \in WordType
  BY <1>1 DEF SameFormat
<1>3. SetsSource(u, a, 13, Rest(v, 13), 1)
  BY <1>2, SourceMacrosSet
<1> HIDE DEF a, u
<1>4. /\ u \in WordType /\ GetOp(u) = GetOp(a) /\ GetOp3(u) = GetOp3(a)
      /\ GetRd(u) = GetRd(a) /\ GetRs1(u) = GetRs1(a) /\ GetI(u) = 1 /\ GetField(u, 0, 13) = Rest(v, 13)
  BY <1>2, <1>3, SourceKeeps
<1> QED
  BY <1>1, <1>4 DEF ThreeFields, SameFormat, GetSimm13, a, u

(***************************************************************************)
(* No two opcodes share a code.                                            *)
(***************************************************************************)
LEMMA MemoryCodes ==
  ASSUME NEW op \in DOMAIN Op3Memory
  PROVE  Op3Memory[op] \in 0 .. 63 /\ CodedAs(Op3Memory, Op3Memory[op]) = op
<1>1. Op3Memory[op] \in 0 .. 63
  BY DEF Op3Memory
<1>2. ASSUME NEW b \in DOMAIN Op3Memory, Op3Memory[b] = Op3Memory[op] PROVE b = op
  BY <1>2 DEF Op3Memory
<1> HIDE DEF Op3Memory
<1> QED
  BY <1>1, <1>2 DEF CodedAs

LEMMA OtherCodes ==
  ASSUME NEW op \in DOMAIN Op3Other
  PROVE  Op3Other[op] \in 0 .. 63 /\ CodedAs(Op3Other, Op3Other[op]) = op
<1>1. Op3Other[op] \in 0 .. 63
  BY DEF Op3Other
<1>2. ASSUME NEW b \in DOMAIN Op3Other, Op3Other[b] = Op3Other[op] PROVE b = op
  BY <1>2 DEF Op3Other
<1> QED
  BY <1>1, <1>2 DEF CodedAs

MemoryOps == DOMAIN Op3Memory
OtherOps == DOMAIN Op3Other

LEMMA OpcodeSets ==
  /\ MemoryOps \cap OtherOps = {}
  /\ (MemoryOps \cup OtherOps) \cap ({"CALL", "BRANCH", "SETHI", "UNKNOWN"} \cup CycleOps \cup ExtensionOps) = {}
  /\ "RD" \in OtherOps
BY DEF MemoryOps, OtherOps, Op3Memory, Op3Other, CycleOps, ExtensionOps

LEMMA OpcodeWords ==
  /\ V8OpcodeWord("CALL") = SetOp(ZeroWord, 1)
  /\ V8OpcodeWord("SETHI") = FormatWord(0, 4)
  /\ V8OpcodeWord("BRANCH") = FormatWord(0, 2)
  /\ V8OpcodeWord("CYCLE_PRINT") = SetRd(FormatWord(0, 0), 0)
  /\ V8OpcodeWord("CYCLE_CLEAR") = SetRd(FormatWord(0, 0), 1)
  /\ \A op \in MemoryOps : V8OpcodeWord(op) = SetOp3(SetOp(ZeroWord, 3), Op3Memory[op])
  /\ \A op \in OtherOps : V8OpcodeWord(op) = SetOp3(SetOp(ZeroWord, 2), Op3Other[op])
<1>1. /\ "CALL" \notin MemoryOps \cup OtherOps /\ "SETHI" \notin MemoryOps \cup OtherOps
      /\ "BRANCH" \notin MemoryOps \cup OtherOps /\ "CYCLE_PRINT" \notin MemoryOps \cup OtherOps
      /\ "CYCLE_CLEAR" \notin MemoryOps \cup OtherOps
  BY OpcodeSets DEF CycleOps
<1>2. V8OpcodeWord("CALL") = SetOp(ZeroWord, 1)
  BY <1>1 DEF V8OpcodeWord, MemoryOps, OtherOps
<1>3. V8OpcodeWord("SETHI") = FormatWord(0, 4)
  BY <1>1 DEF V8OpcodeWord, MemoryOps, OtherOps, Op2SETHI
<1>4. V8OpcodeWord("BRANCH") = FormatWord(0, 2)
  BY <1>1 DEF V8OpcodeWord, MemoryOps, OtherOps, Op2BICC
<1>5. V8OpcodeWord("CYCLE_PRINT") = SetRd(FormatWord(0, 0), 0)
  BY <1>1 DEF V8OpcodeWord, MemoryOps, OtherOps, Op2SIMCYCLES
<1>6. V8OpcodeWord("CYCLE_CLEAR") = SetRd(FormatWord(0, 0), 1)
  BY <1>1 DEF V8OpcodeWord, MemoryOps, OtherOps, Op2SIMCYCLES
<1>7. ASSUME NEW op \in MemoryOps
      PROVE  V8OpcodeWord(op) = SetOp3(SetOp(ZeroWord, 3), Op3Memory[op])
  <2>1. op \notin OtherOps /\ op \notin {"CALL", "BRANCH", "SETHI", "CYCLE_PRINT", "CYCLE_CLEAR"}
    BY OpcodeSets DEF CycleOps
  <2> QED
    BY <2>1 DEF V8OpcodeWord, MemoryOps, OtherOps
<1>8. ASSUME NEW op \in OtherOps
      PROVE  V8OpcodeWord(op) = SetOp3(SetOp(ZeroWord, 2), Op3Other[op])
  <2>1. op \notin MemoryOps /\ op \notin {"CALL", "BRANCH", "SETHI", "CYCLE_PRINT", "CYCLE_CLEAR"}
    BY OpcodeSets DEF CycleOps
  <2> QED
    BY <2>1 DEF V8OpcodeWord, MemoryOps, OtherOps
<1> QED
  BY <1>2, <1>3, <1>4, <1>5, <1>6, <1>7, <1>8

\* the word u of the instruction i, as its number n, is read for what it means
V8Reads(u, i, n) ==
  /\ u \in WordType
  /\ V8Opcode(u) = i.op
  /\ GetOp(u) = 0 => GetOp2(u) \in {0, 2, 4}
  /\ V8Decoded(i.op, u, n) = Meant(i)

\* the displacements of an instruction fit into their field
InReach(i, n) ==
  \A k \in DOMAIN i.operands :
    i.operands[k].type = "LABEL_ADDRESS" =>
      LET d == i.operands[k].value - n IN
      IF i.op = "CALL" THEN -TwoTo(29) <= d /\ d < TwoTo(29) ELSE -TwoTo(21) <= d /\ d < TwoTo(21)

\* operands are pairs of type and value
LEMMA OperandPair ==
  /\ \A type, S : \A o \in OperandsOf(type, S) : o = Operand(type, o.value) /\ o.value \in S /\ o.type = type
BY DEF OperandsOf, Operand

LEMMA CallDecoded ==
  ASSUME NEW a \in Int, NEW n \in Int, -TwoTo(29) <= a - n, a - n < TwoTo(29)
  PROVE  V8Reads(SetDisp30(SetOp(ZeroWord, 1), a - n), Instruction("CALL", <<Operand("LABEL_ADDRESS", a)>>), n)
<1> DEFINE u == SetDisp30(SetOp(ZeroWord, 1), a - n)
           i == Instruction("CALL", <<Operand("LABEL_ADDRESS", a)>>)
<1>1. a - n \in Int
  OBVIOUS
<1>2. u \in WordType /\ GetOp(u) = 1 /\ GetDisp30(u) = Rest(a - n, 30)
  BY <1>1, CallRead
<1>3. Displaced(n, Rest(a - n, 30), 30) = Operand("LABEL_ADDRESS", a)
  <2>1. 30 - 1 = 29
    OBVIOUS
  <2> QED
    BY <2>1, DisplacementRead
<1> HIDE DEF u
<1>4. V8Opcode(u) = "CALL"
  BY <1>2 DEF V8Opcode, Opcode
<1>5. V8Decoded("CALL", u, n) = i
  BY <1>2, <1>3 DEF V8Decoded
<1>6. Meant(i) = i
  BY DEF Meant, Instruction
<1> QED
  BY <1>2, <1>4, <1>5, <1>6 DEF V8Reads, Instruction, u

LEMMA BranchDecoded ==
  ASSUME NEW a \in Int, NEW n \in Int, NEW cc \in 0 .. 15, -TwoTo(21) <= a - n, a - n < TwoTo(21)
  PROVE  V8Reads(SetA(SetCC(SetImm22(FormatWord(0, 2), a - n), cc), 0),
                 Instruction("BRANCH", <<Operand("LABEL_ADDRESS", a), ICC(cc)>>), n)
<1> DEFINE w == FormatWord(0, 2)
           u == SetA(SetCC(SetImm22(w, a - n), cc), 0)
           i == Instruction("BRANCH", <<Operand("LABEL_ADDRESS", a), ICC(cc)>>)
<1>1. a - n \in Int
  OBVIOUS
<1>2. w \in WordType /\ GetOp(w) = 0 /\ GetOp2(w) = 2
  BY FormatFields
<1>3. SameFormat(u, w) /\ GetImm22(u) = Rest(a - n, 22) /\ GetCC(u) = cc
  BY <1>1, <1>2, BranchRead
<1>4. Displaced(n, Rest(a - n, 22), 22) = Operand("LABEL_ADDRESS", a)
  <2>1. 22 - 1 = 21
    OBVIOUS
  <2> QED
    BY <2>1, DisplacementRead
<1> HIDE DEF u, w
<1>5. u \in WordType /\ GetOp(u) = 0 /\ GetOp2(u) = 2
  BY <1>2, <1>3 DEF SameFormat
<1>6. V8Opcode(u) = "BRANCH"
  BY <1>5 DEF V8Opcode, Opcode, V8Format2, Op2BICC, Op2SETHI, Op2SIMCYCLES
<1>7. V8Decoded("BRANCH", u, n) = i
  BY <1>3, <1>4 DEF V8Decoded
<1>8. Meant(i) = i
  BY DEF Meant, Instruction
<1> QED
  BY <1>5, <1>6, <1>7, <1>8 DEF V8Reads, Instruction, u, w

LEMMA SethiDecoded ==
  ASSUME NEW rd \in 0 .. 31, NEW v \in Nat, v < TwoTo(22), NEW n \in Int
  PROVE  V8Reads(SetImm22(SetRd(FormatWord(0, 4), rd), v),
                 Instruction("SETHI", <<Reg(rd), Operand("IMM22", v)>>), n)
<1> DEFINE w == FormatWord(0, 4)
           u == SetImm22(SetRd(w, rd), v)
           i == Instruction("SETHI", <<Reg(rd), Operand("IMM22", v)>>)
<1>1. w \in WordType /\ GetOp(w) = 0 /\ GetOp2(w) = 4
  BY FormatFields
<1>2. SameFormat(u, w) /\ GetRd(u) = rd /\ GetImm22(u) = Rest(v, 22)
  BY <1>1, RdImmediateRead
<1>3. Rest(v, 22) = v
  BY LargePowers, SMT DEF Rest
<1> HIDE DEF u, w
<1>4. u \in WordType /\ GetOp(u) = 0 /\ GetOp2(u) = 4
  BY <1>1, <1>2 DEF SameFormat
<1>5. V8Opcode(u) = "SETHI"
  BY <1>4 DEF V8Opcode, Opcode, V8Format2, Op2BICC, Op2SETHI, Op2SIMCYCLES
<1>6. V8Decoded("SETHI", u, n) = Meant(i)
  BY <1>2, <1>3 DEF V8Decoded, DecodedSethi, Meant, SethiInstr, Instruction, Reg, Operand
<1> QED
  BY <1>4, <1>5, <1>6 DEF V8Reads, Instruction, u, w

LEMMA CyclesDecoded ==
  ASSUME NEW rd \in {0, 1}, NEW n \in Int
  PROVE  V8Reads(SetRd(FormatWord(0, 0), rd),
                 Instruction(IF rd = 0 THEN "CYCLE_PRINT" ELSE "CYCLE_CLEAR", << >>), n)
<1> DEFINE w == FormatWord(0, 0)
           u == SetRd(w, rd)
           op == IF rd = 0 THEN "CYCLE_PRINT" ELSE "CYCLE_CLEAR"
<1>1. w \in WordType /\ GetOp(w) = 0 /\ GetOp2(w) = 0
  BY FormatFields
<1>2. SameFormat(u, w) /\ GetRd(u) = rd
  BY <1>1, RdRead
<1> HIDE DEF u, w
<1>3. u \in WordType /\ GetOp(u) = 0 /\ GetOp2(u) = 0
  BY <1>1, <1>2 DEF SameFormat
<1>4. V8Opcode(u) = op
  BY <1>2, <1>3 DEF V8Opcode, Opcode, V8Format2, Op2BICC, Op2SETHI, Op2SIMCYCLES
<1>5. V8Decoded(op, u, n) = Meant(Instruction(op, << >>))
  BY DEF V8Decoded, Meant, ZeroOperandInstr, Instruction
<1> QED
  BY <1>3, <1>4, <1>5 DEF V8Reads, Instruction, u, w

LEMMA Op3Words ==
  ASSUME NEW op \in MemoryOps \cup OtherOps
  PROVE  LET w == V8OpcodeWord(op) IN
         /\ w \in WordType /\ GetOp(w) \in {2, 3}
         /\ \A u : GetOp(u) = GetOp(w) /\ GetOp3(u) = GetOp3(w) => V8Opcode(u) = op
<1> DEFINE w == V8OpcodeWord(op)
<1>1. CASE op \in MemoryOps
  <2>1. Op3Memory[op] \in 0 .. 63 /\ CodedAs(Op3Memory, Op3Memory[op]) = op
    BY <1>1, MemoryCodes DEF MemoryOps
  <2>2. w = SetOp3(SetOp(ZeroWord, 3), Op3Memory[op])
    BY <1>1, OpcodeWords
  <2>3. w \in WordType /\ GetOp(w) = 3 /\ GetOp3(w) = Op3Memory[op]
    BY <2>1, <2>2, Op3Read
  <2> HIDE DEF w
  <2>4. \A u : GetOp(u) = GetOp(w) /\ GetOp3(u) = GetOp3(w) => V8Opcode(u) = op
    BY <2>1, <2>3 DEF V8Opcode, Opcode
  <2> QED
    BY <2>3, <2>4 DEF w
<1>2. CASE op \in OtherOps
  <2>1. Op3Other[op] \in 0 .. 63 /\ CodedAs(Op3Other, Op3Other[op]) = op
    BY <1>2, OtherCodes DEF OtherOps
  <2>2. w = SetOp3(SetOp(ZeroWord, 2), Op3Other[op])
    BY <1>2, OpcodeWords
  <2>3. w \in WordType /\ GetOp(w) = 2 /\ GetOp3(w) = Op3Other[op]
    BY <2>1, <2>2, Op3Read
  <2> HIDE DEF w
  <2>4. \A u : GetOp(u) = GetOp(w) /\ GetOp3(u) = GetOp3(w) => V8Opcode(u) = op
    BY <2>1, <2>3 DEF V8Opcode, Opcode
  <2> QED
    BY <2>3, <2>4 DEF w
<1> QED
  BY <1>1, <1>2

LEMMA ReadYDecoded ==
  ASSUME NEW rd \in 0 .. 31, NEW n \in Int
  PROVE  V8Reads(SetRs1(SetRd(V8OpcodeWord("RD"), rd), 0), Instruction("RD", <<Reg(rd), Reg(0)>>), n)
<1> DEFINE w == V8OpcodeWord("RD")
           u == SetRs1(SetRd(w, rd), 0)
           i == Instruction("RD", <<Reg(rd), Reg(0)>>)
<1>1. "RD" \in MemoryOps \cup OtherOps
  BY OpcodeSets
<1>2. /\ w \in WordType /\ GetOp(w) \in {2, 3}
      /\ \A x : GetOp(x) = GetOp(w) /\ GetOp3(x) = GetOp3(w) => V8Opcode(x) = "RD"
  BY <1>1, Op3Words
<1>3. SameFormat(u, w) /\ GetOp3(u) = GetOp3(w) /\ GetRd(u) = rd /\ GetRs1(u) = 0
  BY <1>2, RdRs1Read, SMTT(40)
<1> HIDE DEF u, w
<1>4. u \in WordType /\ GetOp(u) \in {2, 3} /\ V8Opcode(u) = "RD"
  BY <1>2, <1>3 DEF SameFormat
<1>5. V8Decoded("RD", u, n) = i
  BY <1>3 DEF V8Decoded, DecodedReadY, RdInstr
<1>6. Meant(i) = i
  BY DEF Meant, Instruction
<1> QED
  BY <1>4, <1>5, <1>6 DEF V8Reads, Instruction, u, w

ThreeOperandOps == (MemoryOps \cup OtherOps) \ {"RD"}

LEMMA ThreeOperandsOf ==
  ASSUME NEW op \in ThreeOperandOps
  PROVE  /\ op \in MemoryOps \cup OtherOps
         /\ op \notin {"CALL", "BRANCH", "SETHI", "RD", "CYCLE_PRINT", "CYCLE_CLEAR", "UNKNOWN",
                       "PREDSET", "HWLOOP_INIT"}
         /\ \A u, n : V8Decoded(op, u, n) = DecodedThreeOperands(op, u)
         /\ \A o : Meant(Instruction(op, o)) = Instruction(op, o)
         /\ \A w, o, n : V8WithOperands(w, op, o, n) = WithThreeOperands(w, o)
<1>1. /\ op \in MemoryOps \cup OtherOps
      /\ op \notin {"CALL", "BRANCH", "SETHI", "RD", "CYCLE_PRINT", "CYCLE_CLEAR", "UNKNOWN",
                    "PREDSET", "HWLOOP_INIT"}
  BY OpcodeSets DEF ThreeOperandOps, CycleOps, ExtensionOps
<1>2. \A u, n : V8Decoded(op, u, n) = DecodedThreeOperands(op, u)
  BY <1>1 DEF V8Decoded
<1>3. \A o : Meant(Instruction(op, o)) = Instruction(op, o)
  BY <1>1 DEF Meant, Instruction
<1>4. \A w, o, n : V8WithOperands(w, op, o, n) = WithThreeOperands(w, o)
  BY <1>1 DEF V8WithOperands
<1> QED
  BY <1>1, <1>2, <1>3, <1>4

LEMMA RegistersDecoded ==
  ASSUME NEW op \in ThreeOperandOps, NEW rd \in 0 .. 31, NEW rs1 \in 0 .. 31, NEW rs2 \in 0 .. 31,
         NEW n \in Int
  PROVE  V8Reads(SetRs2(SetRs1(SetRd(V8OpcodeWord(op), rd), rs1), rs2),
                 Instruction(op, <<Reg(rd), Reg(rs1), Reg(rs2)>>), n)
<1> DEFINE w == V8OpcodeWord(op)
           u == SetRs2(SetRs1(SetRd(w, rd), rs1), rs2)
           i == Instruction(op, <<Reg(rd), Reg(rs1), Reg(rs2)>>)
<1>1. /\ w \in WordType /\ GetOp(w) \in {2, 3}
      /\ \A x : GetOp(x) = GetOp(w) /\ GetOp3(x) = GetOp3(w) => V8Opcode(x) = op
  BY ThreeOperandsOf, Op3Words
<1>2. ThreeFields(u, w, rd, rs1) /\ GetI(u) = 0 /\ GetRs2(u) = rs2
  BY <1>1, RegisterSourceRead
<1> HIDE DEF u, w
<1>3. u \in WordType /\ GetOp(u) \in {2, 3} /\ V8Opcode(u) = op
  BY <1>1, <1>2 DEF ThreeFields
<1>4. DecodedThreeOperands(op, u) = i
  BY <1>2 DEF ThreeFields, DecodedThreeOperands, RegRegInstr
<1>5. V8Decoded(op, u, n) = Meant(i)
  BY <1>4, ThreeOperandsOf
<1> HIDE DEF i
<1>6. i.op = op
  BY DEF i, Instruction
<1>7. V8Reads(u, i, n)
  BY <1>3, <1>5, <1>6 DEF V8Reads
<1> QED
  BY <1>7 DEF i, u, w

LEMMA ImmediateDecoded ==
  ASSUME NEW op \in ThreeOperandOps, NEW rd \in 0 .. 31, NEW rs1 \in 0 .. 31, NEW v \in Int, -TwoTo(12) <= v, v < TwoTo(12),
         NEW n \in Int
  PROVE  V8Reads(SetSimm13(SetRs1(SetRd(V8OpcodeWord(op), rd), rs1), v),
                 Instruction(op, <<Reg(rd), Reg(rs1), Operand("SIMM13", v)>>), n)
<1> DEFINE w == V8OpcodeWord(op)
           u == SetSimm13(SetRs1(SetRd(w, rd), rs1), v)
           i == Instruction(op, <<Reg(rd), Reg(rs1), Operand("SIMM13", v)>>)
<1>1. /\ w \in WordType /\ GetOp(w) \in {2, 3}
      /\ \A x : GetOp(x) = GetOp(w) /\ GetOp3(x) = GetOp3(w) => V8Opcode(x) = op
  BY ThreeOperandsOf, Op3Words
<1>2. ThreeFields(u, w, rd, rs1) /\ GetI(u) = 1 /\ GetSimm13(u) = Rest(v, 13)
  BY <1>1, ImmediateSourceRead
<1>3. Extended(Rest(v, 13), 13) = v
  <2>1. 13 - 1 = 12 /\ -TwoTo(12) <= v /\ v < TwoTo(12) /\ v \in Int
    OBVIOUS
  <2> QED
    BY <2>1, SignRead
<1> HIDE DEF u, w
<1>4. u \in WordType /\ GetOp(u) \in {2, 3} /\ V8Opcode(u) = op
  BY <1>1, <1>2 DEF ThreeFields
<1>5. DecodedThreeOperands(op, u) = i
  BY <1>2, <1>3 DEF ThreeFields, DecodedThreeOperands, RegImmInstr
<1>6. V8Decoded(op, u, n) = Meant(i)
  BY <1>5, ThreeOperandsOf
<1> HIDE DEF i
<1>7. i.op = op
  BY DEF i, Instruction
<1>8. V8Reads(u, i, n)
  BY <1>4, <1>6, <1>7 DEF V8Reads
<1> QED
  BY <1>8 DEF i, u, w

LEMMA SignedRange ==
  ASSUME NEW n \in 1 .. 31, NEW v \in SignedField(n)
  PROVE  v \in Int /\ -TwoTo(n - 1) <= v /\ v < TwoTo(n - 1)
<1>1. PICK h \in 0 .. 30 : h = n - 1
  OBVIOUS
<1>2. PICK p \in Nat : p = 2^h
  BY PowerAndNext
<1>3. v \in -p .. p - 1
  BY <1>1, <1>2, Zenon DEF SignedField
<1>4. v \in Int /\ -p <= v /\ v < p
  BY <1>3
<1> QED
  BY <1>1, <1>2, <1>4, Zenon DEF TwoTo

LEMMA UnsignedRange ==
  ASSUME NEW n \in 0 .. 31, NEW v \in UnsignedField(n)
  PROVE  v \in Nat /\ v < TwoTo(n)
<1>1. PICK p \in Nat : p = 2^n
  BY PowersType
<1>2. v \in 0 .. p - 1
  BY <1>1, Zenon DEF UnsignedField
<1>3. v \in Nat /\ v < p
  BY <1>2
<1> QED
  BY <1>1, <1>3, Zenon DEF TwoTo

\* what the range checks leave of an operand
OperandInRange(op, o) ==
  /\ o.type = "SIMM13" => -TwoTo(12) <= o.value /\ o.value < TwoTo(12)
  /\ o.type = "SIMM11" => -TwoTo(10) <= o.value /\ o.value < TwoTo(10)
  /\ o.type = "SIMM8" => -TwoTo(7) <= o.value /\ o.value < TwoTo(7)
  /\ o.type = "IMM22" /\ op = "SETHI" => o.value \in Nat /\ o.value < TwoTo(22)
  /\ o.type = "IMM22" /\ op = "HWLOOP_INIT" => -TwoTo(21) <= o.value /\ o.value < TwoTo(21)

LEMMA OperandsInRange ==
  ASSUME NEW i, InRange(i), NEW k \in DOMAIN i.operands
  PROVE  OperandInRange(i.op, i.operands[k])
<1> DEFINE o == i.operands[k]
<1>1. /\ o.type = "SIMM13" => o.value \in SignedField(13)
      /\ o.type = "SIMM11" => o.value \in SignedField(11)
      /\ o.type = "SIMM8" => o.value \in SignedField(8)
      /\ o.type = "IMM22" /\ i.op = "SETHI" => o.value \in UnsignedField(22)
      /\ o.type = "IMM22" /\ i.op = "HWLOOP_INIT" => o.value \in SignedField(22)
  BY DEF InRange
<1>2. /\ \A v \in SignedField(13) : -TwoTo(12) <= v /\ v < TwoTo(12)
      /\ \A v \in SignedField(11) : -TwoTo(10) <= v /\ v < TwoTo(10)
      /\ \A v \in SignedField(8) : -TwoTo(7) <= v /\ v < TwoTo(7)
      /\ \A v \in SignedField(22) : -TwoTo(21) <= v /\ v < TwoTo(21)
  <2>1. 13 - 1 = 12 /\ 11 - 1 = 10 /\ 8 - 1 = 7 /\ 22 - 1 = 21
    OBVIOUS
  <2>2. 13 \in 1 .. 31 /\ 11 \in 1 .. 31 /\ 8 \in 1 .. 31 /\ 22 \in 1 .. 31
    OBVIOUS
  <2> QED
    BY <2>1, <2>2, SignedRange, Zenon
<1>3. \A v \in UnsignedField(22) : v \in Nat /\ v < TwoTo(22)
  BY UnsignedRange
<1> QED
  BY <1>1, <1>2, <1>3, Zenon DEF OperandInRange

LEMMA V8RoundTrip ==
  ASSUME NEW i, IsResolved(i), i.op \notin ExtensionOps, InRange(i), NEW n \in Int, InReach(i, n)
  PROVE  V8Reads(V8WithOperands(V8OpcodeWord(i.op), i.op, i.operands, n), i, n)
<1> DEFINE op == i.op
           o == i.operands
<1>1. i = Instruction(op, o) /\ op \in Opcodes /\ o \in OperandLists(op, AddressOperands, {})
  BY ResolvedShape DEF Instruction
<1>2. \A k \in DOMAIN o : OperandInRange(op, o[k])
  BY OperandsInRange
<1>3. \A k \in DOMAIN o : o[k].type = "LABEL_ADDRESS" =>
        LET d == o[k].value - n IN
        IF op = "CALL" THEN -TwoTo(29) <= d /\ d < TwoTo(29) ELSE -TwoTo(21) <= d /\ d < TwoTo(21)
  BY DEF InReach
<1>4. op \notin ExtensionOps
  OBVIOUS
<1> HIDE DEF op, o
<1> DEFINE word == V8WithOperands(V8OpcodeWord(op), op, o, n)
<1>5. CASE op = "CALL"
  <2>1. o \in [1 .. 1 -> AddressOperands]
    BY <1>1, <1>5, V8Operands
  <2>2. 1 \in DOMAIN o /\ o = <<o[1]>> /\ o[1] \in AddressOperands
    BY <2>1
  <2>3. o[1] = Operand("LABEL_ADDRESS", o[1].value) /\ o[1].value \in Int /\ o[1].type = "LABEL_ADDRESS"
    BY <2>2, OperandPair DEF AddressOperands, Number
  <2>4. PICK a \in Int : a = o[1].value /\ o = <<Operand("LABEL_ADDRESS", a)>>
    BY <2>2, <2>3
  <2>5. -TwoTo(29) <= a - n /\ a - n < TwoTo(29)
    BY <1>3, <1>5, <2>2, <2>3, <2>4
  <2>6. word = SetDisp30(SetOp(ZeroWord, 1), a - n)
    BY <1>5, <2>4, OpcodeWords DEF V8WithOperands
  <2>7. V8Reads(SetDisp30(SetOp(ZeroWord, 1), a - n), Instruction("CALL", <<Operand("LABEL_ADDRESS", a)>>), n)
    BY <2>5, CallDecoded
  <2> QED
    BY <1>1, <1>5, <2>4, <2>6, <2>7 DEF op, o
<1>6. CASE op = "BRANCH"
  <2>1. o \in AddressOperands \X ConditionOperands
    BY <1>1, <1>6, V8Operands
  <2>2. /\ 1 \in DOMAIN o /\ 2 \in DOMAIN o /\ o = <<o[1], o[2]>>
        /\ o[1] \in AddressOperands /\ o[2] \in ConditionOperands
    BY <2>1
  <2>3. /\ o[1] = Operand("LABEL_ADDRESS", o[1].value) /\ o[1].value \in Int /\ o[1].type = "LABEL_ADDRESS"
        /\ o[2] = Operand("ICC", o[2].value) /\ o[2].value \in 0 .. 15
    BY <2>2, OperandPair DEF AddressOperands, Number, ConditionOperands
  <2>4. PICK a \in Int, cc \in 0 .. 15 :
          a = o[1].value /\ cc = o[2].value /\ o = <<Operand("LABEL_ADDRESS", a), ICC(cc)>>
    BY <2>2, <2>3 DEF ICC
  <2>5. -TwoTo(21) <= a - n /\ a - n < TwoTo(21)
    BY <1>3, <1>6, <2>2, <2>3, <2>4
  <2>6. word = SetA(SetCC(SetImm22(FormatWord(0, 2), a - n), cc), 0)
    BY <1>6, <2>4, OpcodeWords DEF V8WithOperands
  <2>7. V8Reads(SetA(SetCC(SetImm22(FormatWord(0, 2), a - n), cc), 0),
                Instruction("BRANCH", <<Operand("LABEL_ADDRESS", a), ICC(cc)>>), n)
    BY <2>5, BranchDecoded
  <2> QED
    BY <1>1, <1>6, <2>4, <2>6, <2>7 DEF op, o
<1>7. CASE op = "SETHI"
  <2>1. o \in RegisterOperands \X Number("IMM22")
    BY <1>1, <1>7, V8Operands
  <2>2. /\ 2 \in DOMAIN o /\ o = <<o[1], o[2]>>
        /\ o[1] \in RegisterOperands /\ o[2] \in Number("IMM22")
    BY <2>1
  <2>3. /\ o[1] = Operand("REGISTER", o[1].value) /\ o[1].value \in 0 .. 31
        /\ o[2] = Operand("IMM22", o[2].value) /\ o[2].type = "IMM22"
    BY <2>2, OperandPair DEF Number, RegisterOperands
  <2>4. o[2].value \in Nat /\ o[2].value < TwoTo(22)
    BY <1>2, <1>7, <2>2, <2>3 DEF OperandInRange
  <2>5. PICK rd \in 0 .. 31, v \in Nat :
          rd = o[1].value /\ v = o[2].value /\ o = <<Reg(rd), Operand("IMM22", v)>> /\ v < TwoTo(22)
    BY <2>2, <2>3, <2>4 DEF Reg
  <2>6. word = SetImm22(SetRd(FormatWord(0, 4), rd), v)
    BY <1>7, <2>5, OpcodeWords DEF V8WithOperands
  <2>7. V8Reads(SetImm22(SetRd(FormatWord(0, 4), rd), v),
                Instruction("SETHI", <<Reg(rd), Operand("IMM22", v)>>), n)
    BY <2>5, SethiDecoded
  <2> QED
    BY <1>1, <1>7, <2>5, <2>6, <2>7 DEF op, o
<1>8. CASE op = "RD"
  <2>1. o \in RegisterOperands \X OperandsOf("REGISTER", {0})
    BY <1>1, <1>8, V8Operands
  <2>2. o = <<o[1], o[2]>> /\ o[1] \in RegisterOperands /\ o[2] \in OperandsOf("REGISTER", {0})
    BY <2>1
  <2>3. /\ o[1] = Operand("REGISTER", o[1].value) /\ o[1].value \in 0 .. 31
        /\ o[2] = Operand("REGISTER", o[2].value) /\ o[2].value = 0
    BY <2>2, OperandPair DEF RegisterOperands
  <2>4. PICK rd \in 0 .. 31 : rd = o[1].value /\ o = <<Reg(rd), Reg(0)>> /\ o[2].value = 0
    BY <2>2, <2>3 DEF Reg
  <2>5. word = SetRs1(SetRd(V8OpcodeWord("RD"), rd), 0)
    BY <1>8, <2>4 DEF V8WithOperands
  <2>6. V8Reads(SetRs1(SetRd(V8OpcodeWord("RD"), rd), 0), Instruction("RD", <<Reg(rd), Reg(0)>>), n)
    BY ReadYDecoded
  <2> QED
    BY <1>1, <1>8, <2>4, <2>5, <2>6 DEF op, o
<1>9. CASE op \in CycleOps
  <2>1. o = << >>
    BY <1>1, <1>9, V8Operands
  <2>2. PICK rd \in {0, 1} : op = IF rd = 0 THEN "CYCLE_PRINT" ELSE "CYCLE_CLEAR"
    BY <1>9 DEF CycleOps
  <2>3. V8OpcodeWord(op) = SetRd(FormatWord(0, 0), rd)
    BY <2>2, OpcodeWords
  <2>4. word = SetRd(FormatWord(0, 0), rd)
    BY <1>9, <2>3 DEF V8WithOperands, CycleOps
  <2>5. V8Reads(SetRd(FormatWord(0, 0), rd), Instruction(IF rd = 0 THEN "CYCLE_PRINT" ELSE "CYCLE_CLEAR", << >>), n)
    BY CyclesDecoded
  <2> QED
    BY <1>1, <2>1, <2>2, <2>4, <2>5 DEF op, o
<1>10. CASE op \notin {"CALL", "BRANCH", "SETHI", "RD"} \cup CycleOps
  <2>1. op \in ThreeOperandOps
    BY <1>1, <1>4, <1>10 DEF Opcodes, ThreeOperandOps, MemoryOps, OtherOps, CycleOps, ExtensionOps
  <2>2. o \in RegisterOperands \X RegisterOperands \X (RegisterOperands \cup Number("SIMM13"))
    BY <1>1, <1>4, <1>10, V8Operands
  <2>3. /\ 3 \in DOMAIN o /\ o = <<o[1], o[2], o[3]>>
        /\ o[1] \in RegisterOperands /\ o[2] \in RegisterOperands
        /\ o[3] \in RegisterOperands \cup Number("SIMM13")
    BY <2>2
  <2>4. /\ o[1] = Operand("REGISTER", o[1].value) /\ o[1].value \in 0 .. 31
        /\ o[2] = Operand("REGISTER", o[2].value) /\ o[2].value \in 0 .. 31
    BY <2>3, OperandPair DEF RegisterOperands
  <2>5. PICK rd \in 0 .. 31, rs1 \in 0 .. 31 : rd = o[1].value /\ rs1 = o[2].value /\ o = <<Reg(rd), Reg(rs1), o[3]>>
    BY <2>3, <2>4 DEF Reg
  <2>6. word = WithThreeOperands(V8OpcodeWord(op), o)
    BY <2>1, ThreeOperandsOf
  <2>7. CASE o[3] \in RegisterOperands
    <3>1. o[3] = Operand("REGISTER", o[3].value) /\ o[3].value \in 0 .. 31 /\ o[3].type = "REGISTER"
      BY <2>7, OperandPair DEF RegisterOperands
    <3>2. PICK rs2 \in 0 .. 31 : rs2 = o[3].value /\ o[3] = Reg(rs2)
      BY <3>1 DEF Reg
    <3>3. word = SetRs2(SetRs1(SetRd(V8OpcodeWord(op), rd), rs1), rs2)
      BY <2>5, <2>6, <3>1, <3>2 DEF WithThreeOperands
    <3>4. V8Reads(SetRs2(SetRs1(SetRd(V8OpcodeWord(op), rd), rs1), rs2),
                  Instruction(op, <<Reg(rd), Reg(rs1), Reg(rs2)>>), n)
      BY <2>1, RegistersDecoded
    <3> QED
      BY <1>1, <2>5, <3>2, <3>3, <3>4 DEF op, o
  <2>8. CASE o[3] \in Number("SIMM13")
    <3>1. o[3] = Operand("SIMM13", o[3].value) /\ o[3].value \in Int /\ o[3].type = "SIMM13"
      BY <2>8, OperandPair DEF Number
    <3>2. -TwoTo(12) <= o[3].value /\ o[3].value < TwoTo(12)
      BY <1>2, <2>3, <3>1 DEF OperandInRange
    <3>3. PICK v \in Int : v = o[3].value /\ o[3] = Operand("SIMM13", v) /\ -TwoTo(12) <= v /\ v < TwoTo(12)
      BY <3>1, <3>2
    <3>4. word = SetSimm13(SetRs1(SetRd(V8OpcodeWord(op), rd), rs1), v)
      BY <2>5, <2>6, <3>1, <3>3 DEF WithThreeOperands
    <3>5. V8Reads(SetSimm13(SetRs1(SetRd(V8OpcodeWord(op), rd), rs1), v),
                  Instruction(op, <<Reg(rd), Reg(rs1), Operand("SIMM13", v)>>), n)
      BY <2>1, <3>3, ImmediateDecoded
    <3> QED
      BY <1>1, <2>5, <3>3, <3>4, <3>5 DEF op, o
  <2> QED
    BY <2>3, <2>7, <2>8
<1> QED
  BY <1>5, <1>6, <1>7, <1>8, <1>9, <1>10
-----------------------------------------------------------------------------
(* The words of the extensions *)

\* every extension has a second opcode field of its own
ExtensionWord(u, op2) == u \in WordType /\ GetOp(u) = 0 /\ GetOp2(u) = op2

LEMMA ExtensionFormat ==
  ASSUME NEW op2 \in 0 .. 7, NEW u, SameFormat(u, FormatWord(0, op2))
  PROVE  ExtensionWord(u, op2)
BY FormatFields DEF SameFormat, ExtensionWord

LoopReads(u, i, n) ==
  /\ ExtensionWord(u, 1)
  /\ HwloopOpcode(u) = i.op
  /\ i.op = "HWLOOP_INIT" => DecodedHwloopInit(u, n) = Meant(i)

LEMMA LoopStartDecoded ==
  ASSUME NEW n \in Int
  PROVE  LoopReads(SetRd(FormatWord(0, 1), LoopTypeStart), Instruction("HWLOOP_START", << >>), n)
<1> DEFINE u == SetRd(FormatWord(0, 1), LoopTypeStart)
<1>1. SameFormat(u, FormatWord(0, 1)) /\ GetRd(u) = 4
  BY FormatFields, RdRead DEF LoopTypeStart
<1> HIDE DEF u
<1>2. ExtensionWord(u, 1)
  BY <1>1, ExtensionFormat
<1>3. HwloopOpcode(u) = "HWLOOP_START"
  BY <1>1 DEF HwloopOpcode, LoopTypeStart
<1> QED
  BY <1>2, <1>3 DEF LoopReads, Instruction, u

LEMMA LoopAddressDecoded ==
  ASSUME NEW reg \in {LoopS, LoopE}, NEW a \in Int, NEW n \in Int, -TwoTo(21) <= a - n, a - n < TwoTo(21)
  PROVE  LoopReads(SetImm22(SetRd(FormatWord(0, 1), IF reg = LoopS THEN LoopTypeS ELSE LoopTypeE), a - n),
                   Instruction("HWLOOP_INIT", <<Operand("LOOP_REG", reg), Operand("LABEL_ADDRESS", a)>>), n)
<1> DEFINE type == IF reg = LoopS THEN LoopTypeS ELSE LoopTypeE
           u == SetImm22(SetRd(FormatWord(0, 1), type), a - n)
           i == Instruction("HWLOOP_INIT", <<Operand("LOOP_REG", reg), Operand("LABEL_ADDRESS", a)>>)
<1>1. a - n \in Int /\ type \in 0 .. 31
  BY DEF LoopTypeS, LoopTypeE
<1>2. SameFormat(u, FormatWord(0, 1)) /\ GetRd(u) = type /\ GetImm22(u) = Rest(a - n, 22)
  BY <1>1, FormatFields, RdImmediateRead
<1>3. Displaced(n, Rest(a - n, 22), 22) = Operand("LABEL_ADDRESS", a)
  <2>1. 22 - 1 = 21
    OBVIOUS
  <2> QED
    BY <2>1, DisplacementRead
<1> HIDE DEF u
<1>4. ExtensionWord(u, 1)
  BY <1>2, ExtensionFormat
<1>5. HwloopOpcode(u) = "HWLOOP_INIT"
  BY <1>2 DEF HwloopOpcode, LoopTypeStart, LoopTypeS, LoopTypeE
<1>6. DecodedHwloopInit(u, n) = i
  <2>1. CASE reg = LoopS
    <3>1. GetRd(u) = LoopTypeS
      BY <1>2, <2>1
    <3> QED
      BY <1>2, <1>3, <2>1, <3>1 DEF DecodedHwloopInit, LoopTypeS, LoopTypeE, LoopTypeImm, LoopTypeReg
  <2>2. CASE reg = LoopE
    <3>1. GetRd(u) = LoopTypeE /\ LoopTypeE # LoopTypeS
      BY <1>2, <2>2 DEF LoopS, LoopE, LoopTypeE, LoopTypeS
    <3> QED
      BY <1>2, <1>3, <2>2, <3>1 DEF DecodedHwloopInit, LoopTypeS, LoopTypeE, LoopTypeImm, LoopTypeReg
  <2> QED
    BY <2>1, <2>2
<1>7. Meant(i) = i
  BY DEF Meant, Instruction, Operand
<1> QED
  BY <1>4, <1>5, <1>6, <1>7 DEF LoopReads, Instruction, u

LEMMA LoopRegisterDecoded ==
  ASSUME NEW rs \in 0 .. 31, NEW n \in Int
  PROVE  LoopReads(SetRs1(SetRd(FormatWord(0, 1), LoopTypeReg), rs), HWLoopBoundRegInstr(rs), n)
<1> DEFINE u == SetRs1(SetRd(FormatWord(0, 1), LoopTypeReg), rs)
           i == HWLoopBoundRegInstr(rs)
<1>1. SameFormat(u, FormatWord(0, 1)) /\ GetRd(u) = 3 /\ GetRs1(u) = rs
  BY FormatFields, RdRs1Read, SMTT(40) DEF LoopTypeReg
<1> HIDE DEF u
<1>2. ExtensionWord(u, 1)
  BY <1>1, ExtensionFormat
<1>3. HwloopOpcode(u) = "HWLOOP_INIT"
  BY <1>1 DEF HwloopOpcode, LoopTypeStart
<1>4. DecodedHwloopInit(u, n) = i
  BY <1>1 DEF DecodedHwloopInit, LoopTypeS, LoopTypeE, LoopTypeImm, LoopTypeReg
<1>5. Meant(i) = i /\ i.op = "HWLOOP_INIT"
  BY DEF Meant, HWLoopBoundRegInstr, Instruction, Operand, Reg
<1> QED
  BY <1>2, <1>3, <1>4, <1>5 DEF LoopReads, u

LEMMA LoopBoundDecoded ==
  ASSUME NEW v \in Int, NEW n \in Int
  PROVE  LoopReads(SetImm22(SetRd(FormatWord(0, 1), LoopTypeImm), v), HWLoopBoundImmInstr(v), n)
<1> DEFINE u == SetImm22(SetRd(FormatWord(0, 1), LoopTypeImm), v)
           i == HWLoopBoundImmInstr(v)
<1>1. SameFormat(u, FormatWord(0, 1)) /\ GetRd(u) = 2 /\ GetImm22(u) = Rest(v, 22)
  BY FormatFields, RdImmediateRead DEF LoopTypeImm
<1> HIDE DEF u
<1>2. ExtensionWord(u, 1)
  BY <1>1, ExtensionFormat
<1>3. HwloopOpcode(u) = "HWLOOP_INIT"
  BY <1>1 DEF HwloopOpcode, LoopTypeStart
<1>4. DecodedHwloopInit(u, n) = HWLoopBoundImmInstr(Rest(v, 22))
  BY <1>1 DEF DecodedHwloopInit, LoopTypeS, LoopTypeE, LoopTypeImm, LoopTypeReg
<1>5. i.op = "HWLOOP_INIT" /\ i.operands[2].type = "IMM22" /\ i.operands[2].value = v
  BY DEF HWLoopBoundImmInstr, Instruction, Operand
<1>6. Meant(i) = HWLoopBoundImmInstr(Rest(v, 22))
  BY <1>5, Zenon DEF Meant, Rest
<1> QED
  BY <1>2, <1>3, <1>4, <1>5, <1>6 DEF LoopReads, u

LEMMA LoopRoundTrip ==
  ASSUME NEW i, IsResolved(i), i.op = "HWLOOP_INIT", InRange(i), NEW n \in Int, InReach(i, n)
  PROVE  LoopReads(WithLoopInit(FormatWord(0, 1), i.operands, n), i, n)
<1> DEFINE o == i.operands
           word == WithLoopInit(FormatWord(0, 1), o, n)
<1>1. i = Instruction("HWLOOP_INIT", o) /\ o \in OperandLists("HWLOOP_INIT", AddressOperands, {})
  BY ResolvedShape DEF Instruction
<1>2. \A k \in DOMAIN o : o[k].type = "LABEL_ADDRESS" =>
        -TwoTo(21) <= o[k].value - n /\ o[k].value - n < TwoTo(21)
  BY DEF InReach
<1> HIDE DEF o
<1>3. CASE o \in OperandsOf("LOOP_REG", {LoopS, LoopE}) \X AddressOperands
  <2>1. /\ 2 \in DOMAIN o /\ o = <<o[1], o[2]>>
        /\ o[1] \in OperandsOf("LOOP_REG", {LoopS, LoopE}) /\ o[2] \in AddressOperands
    BY <1>3
  <2>2. /\ o[1] = Operand("LOOP_REG", o[1].value) /\ o[1].value \in {LoopS, LoopE}
        /\ o[2] = Operand("LABEL_ADDRESS", o[2].value) /\ o[2].value \in Int /\ o[2].type = "LABEL_ADDRESS"
    BY <2>1, OperandPair DEF AddressOperands, Number
  <2>3. PICK reg \in {LoopS, LoopE}, a \in Int :
          /\ reg = o[1].value /\ a = o[2].value
          /\ o = <<Operand("LOOP_REG", reg), Operand("LABEL_ADDRESS", a)>>
    BY <2>1, <2>2
  <2>4. -TwoTo(21) <= a - n /\ a - n < TwoTo(21)
    BY <1>2, <2>1, <2>2, <2>3
  <2> DEFINE direct == SetImm22(SetRd(FormatWord(0, 1), IF reg = LoopS THEN LoopTypeS ELSE LoopTypeE), a - n)
  <2>5. word = direct
    BY <2>3 DEF WithLoopInit, LoopS, LoopE, LoopB
  <2>6. LoopReads(direct, Instruction("HWLOOP_INIT", <<Operand("LOOP_REG", reg), Operand("LABEL_ADDRESS", a)>>), n)
    BY <2>4, LoopAddressDecoded
  <2> QED
    BY <1>1, <2>3, <2>5, <2>6 DEF o
<1>4. CASE o \in OperandsOf("LOOP_REG", {LoopB}) \X (RegisterOperands \cup Number("IMM22"))
  <2>1. /\ o = <<o[1], o[2]>>
        /\ o[1] \in OperandsOf("LOOP_REG", {LoopB}) /\ o[2] \in RegisterOperands \cup Number("IMM22")
    BY <1>4
  <2>2. o[1] = Operand("LOOP_REG", LoopB) /\ o[1].value = LoopB
    BY <2>1, OperandPair
  <2>3. CASE o[2] \in RegisterOperands
    <3>1. o[2] = Operand("REGISTER", o[2].value) /\ o[2].value \in 0 .. 31 /\ o[2].type = "REGISTER"
      BY <2>3, OperandPair DEF RegisterOperands
    <3>2. PICK rs \in 0 .. 31 : rs = o[2].value /\ o = <<Operand("LOOP_REG", LoopB), Reg(rs)>>
      BY <2>1, <2>2, <3>1 DEF Reg
    <3>3. word = SetRs1(SetRd(FormatWord(0, 1), LoopTypeReg), rs)
      BY <2>2, <3>1, <3>2 DEF WithLoopInit, LoopS, LoopE, LoopB
    <3>4. i = HWLoopBoundRegInstr(rs)
      BY <1>1, <3>2 DEF HWLoopBoundRegInstr
    <3> QED
      BY <3>3, <3>4, LoopRegisterDecoded DEF o
  <2>4. CASE o[2] \in Number("IMM22")
    <3>1. o[2] = Operand("IMM22", o[2].value) /\ o[2].value \in Int /\ o[2].type = "IMM22"
      BY <2>4, OperandPair DEF Number
    <3>2. PICK v \in Int : v = o[2].value /\ o = <<Operand("LOOP_REG", LoopB), Operand("IMM22", v)>>
      BY <2>1, <2>2, <3>1
    <3>3. word = SetImm22(SetRd(FormatWord(0, 1), LoopTypeImm), v)
      BY <2>2, <3>1, <3>2 DEF WithLoopInit, LoopS, LoopE, LoopB
    <3>4. i = HWLoopBoundImmInstr(v)
      BY <1>1, <3>2 DEF HWLoopBoundImmInstr
    <3> QED
      BY <3>3, <3>4, LoopBoundDecoded DEF o
  <2> QED
    BY <2>1, <2>3, <2>4
<1> QED
  BY <1>1, <1>3, <1>4, ExtensionOperands

\* rd and condition code of a select
SelFields(u, w, rd, cc) ==
  /\ u \in WordType /\ GetOp(u) = GetOp(w) /\ GetOp2(u) = GetOp2(w)
  /\ GetRd(u) = rd /\ SelGetIcc(u) = cc

LEMMA SelHead ==
  ASSUME NEW w \in WordType, NEW rd \in 0 .. 31, NEW cc \in 0 .. 15
  PROVE  SelFields(SelSetIcc(SetRd(w, rd), cc), w, rd, cc)
<1> DEFINE a == SetRd(w, rd)
           u == SelSetIcc(a, cc)
<1>0. rd % 32 = rd /\ rd \in Int /\ cc % 16 = cc /\ cc \in Int
  BY Fits
<1>1. Sets(a, w, 25, 5, rd)
  BY <1>0, MacrosSet
<1>2. a \in WordType
  BY <1>1 DEF Sets
<1>3. Sets(u, a, 16, 4, cc)
  BY <1>0, <1>2, ExtensionMacrosSet
<1> HIDE DEF a, u
<1>4. GetField(u, 30, 2) = GetField(w, 30, 2) /\ GetField(u, 22, 3) = GetField(w, 22, 3)
  BY <1>1, <1>3 DEF Sets, Apart
<1>5. GetField(u, 25, 5) = rd /\ GetField(u, 16, 4) = cc /\ u \in WordType
  BY <1>1, <1>3 DEF Sets, Apart
<1> QED
  BY <1>4, <1>5 DEF SelFields, GetOp, GetOp2, GetRd, SelGetIcc, a, u

LEMMA SelRegistersRead ==
  ASSUME NEW w \in WordType, NEW rs1 \in 0 .. 31, NEW rs2 \in 0 .. 31
  PROVE  LET u == SelSetRs2(SelSetType(SelSetRs1(w, rs1), 0), rs2) IN
         SelFields(u, w, GetRd(w), SelGetIcc(w)) /\ SelGetType(u) = 0 /\ SelGetRs1(u) = rs1 /\ GetRs2(u) = rs2
<1> DEFINE a == SelSetRs1(w, rs1)
           b == SelSetType(a, 0)
           u == SelSetRs2(b, rs2)
<1>0. rs1 % 32 = rs1 /\ rs1 \in Int /\ rs2 % 32 = rs2 /\ rs2 \in Int /\ 0 % 4 = 0
  BY Fits
<1>1. Sets(a, w, 11, 5, rs1)
  BY <1>0, ExtensionMacrosSet
<1>2. a \in WordType
  BY <1>1 DEF Sets
<1>3. Sets(b, a, 20, 2, 0)
  BY <1>0, <1>2, ExtensionMacrosSet
<1>4. b \in WordType
  BY <1>3 DEF Sets
<1>5. Sets(u, b, 0, 5, rs2)
  BY <1>0, <1>4, ExtensionMacrosSet
<1> HIDE DEF a, b, u
<1>6. /\ GetField(u, 30, 2) = GetField(w, 30, 2) /\ GetField(u, 22, 3) = GetField(w, 22, 3)
      /\ GetField(u, 25, 5) = GetField(w, 25, 5) /\ GetField(u, 16, 4) = GetField(w, 16, 4)
  BY <1>1, <1>3, <1>5 DEF Sets, Apart
<1>7. u \in WordType /\ GetField(u, 20, 2) = 0 /\ GetField(u, 11, 5) = rs1 /\ GetField(u, 0, 5) = rs2
  BY <1>1, <1>3, <1>5 DEF Sets, Apart
<1> QED
  BY <1>6, <1>7 DEF SelFields, GetOp, GetOp2, GetRd, SelGetIcc, SelGetType, SelGetRs1, GetRs2, a, b, u

LEMMA SelImmediateRead ==
  ASSUME NEW w \in WordType, NEW rs1 \in 0 .. 31, NEW v \in Int
  PROVE  LET u == SelSetSimm11(SelSetType(SelSetRs1(w, rs1), 1), v) IN
         /\ SelFields(u, w, GetRd(w), SelGetIcc(w))
         /\ SelGetType(u) = 1 /\ SelGetRs1(u) = rs1 /\ SelGetSimm11(u) = Rest(v, 11)
<1> DEFINE a == SelSetRs1(w, rs1)
           b == SelSetType(a, 1)
           u == SelSetSimm11(b, v)
<1>0. rs1 % 32 = rs1 /\ rs1 \in Int /\ 1 % 4 = 1
  BY Fits
<1>1. Sets(a, w, 11, 5, rs1)
  BY <1>0, ExtensionMacrosSet
<1>2. a \in WordType
  BY <1>1 DEF Sets
<1>3. Sets(b, a, 20, 2, 1)
  BY <1>0, <1>2, ExtensionMacrosSet
<1>4. b \in WordType
  BY <1>3 DEF Sets
<1>5. Sets(u, b, 0, 11, Rest(v, 11))
  BY <1>4, ExtensionMacrosSet
<1> HIDE DEF a, b, u
<1>6. /\ GetField(u, 30, 2) = GetField(w, 30, 2) /\ GetField(u, 22, 3) = GetField(w, 22, 3)
      /\ GetField(u, 25, 5) = GetField(w, 25, 5) /\ GetField(u, 16, 4) = GetField(w, 16, 4)
  BY <1>1, <1>3, <1>5 DEF Sets, Apart
<1>7. u \in WordType /\ GetField(u, 20, 2) = 1 /\ GetField(u, 11, 5) = rs1 /\ GetField(u, 0, 11) = Rest(v, 11)
  BY <1>1, <1>3, <1>5 DEF Sets, Apart
<1> QED
  BY <1>6, <1>7 DEF SelFields, GetOp, GetOp2, GetRd, SelGetIcc, SelGetType, SelGetRs1, SelGetSimm11, a, b, u

LEMMA SelImmediatesRead ==
  ASSUME NEW w \in WordType, NEW v1 \in Int, NEW v2 \in Int
  PROVE  LET u == SelSetSrc2Imm8(SelSetSrc1Imm8(SelSetType(w, 2), v1), v2) IN
         /\ SelFields(u, w, GetRd(w), SelGetIcc(w))
         /\ SelGetType(u) = 2 /\ SelGetSrc1Imm8(u) = Rest(v1, 8) /\ SelGetSrc2Imm8(u) = Rest(v2, 8)
<1> DEFINE a == SelSetType(w, 2)
           b == SelSetSrc1Imm8(a, v1)
           u == SelSetSrc2Imm8(b, v2)
<1>1. Sets(a, w, 20, 2, 2)
  <2>1. 2 % 4 = 2
    OBVIOUS
  <2> QED
    BY <2>1, ExtensionMacrosSet
<1>2. a \in WordType
  BY <1>1 DEF Sets
<1>3. Sets(b, a, 8, 8, Rest(v1, 8))
  BY <1>2, ExtensionMacrosSet
<1>4. b \in WordType
  BY <1>3 DEF Sets
<1>5. Sets(u, b, 0, 8, Rest(v2, 8))
  BY <1>4, ExtensionMacrosSet
<1> HIDE DEF a, b, u
<1>6. /\ GetField(u, 30, 2) = GetField(w, 30, 2) /\ GetField(u, 22, 3) = GetField(w, 22, 3)
      /\ GetField(u, 25, 5) = GetField(w, 25, 5) /\ GetField(u, 16, 4) = GetField(w, 16, 4)
  BY <1>1, <1>3, <1>5 DEF Sets, Apart
<1>7. u \in WordType /\ GetField(u, 20, 2) = 2 /\ GetField(u, 8, 8) = Rest(v1, 8) /\ GetField(u, 0, 8) = Rest(v2, 8)
  BY <1>1, <1>3, <1>5 DEF Sets, Apart
<1> QED
  BY <1>6, <1>7 DEF SelFields, GetOp, GetOp2, GetRd, SelGetIcc, SelGetType, SelGetSrc1Imm8, SelGetSrc2Imm8, a, b, u

SelReads(u, i) == ExtensionWord(u, 3) /\ DecodedSel(u) = Meant(i)

LEMMA SelMeant ==
  ASSUME NEW o
  PROVE  Meant(Instruction("SEL", o)) = Instruction("SEL", o)
BY DEF Meant, Instruction

LEMMA SelRoundTrip ==
  ASSUME NEW i, IsResolved(i), i.op = "SEL", InRange(i)
  PROVE  SelReads(WithSel(FormatWord(0, 3), i.operands), i)
<1> DEFINE o == i.operands
           word == WithSel(FormatWord(0, 3), o)
<1>1. i = Instruction("SEL", o) /\ o \in OperandLists("SEL", AddressOperands, {})
  BY ResolvedShape DEF Instruction
<1>2. \A k \in DOMAIN o : OperandInRange("SEL", o[k])
  BY OperandsInRange
<1>3. Meant(i) = i
  BY <1>1, SelMeant
<1> HIDE DEF o
<1>4. FormatWord(0, 3) \in WordType /\ GetOp(FormatWord(0, 3)) = 0 /\ GetOp2(FormatWord(0, 3)) = 3
  BY FormatFields
<1>5. CASE o \in RegisterOperands \X RegisterOperands \X (RegisterOperands \cup Number("SIMM11")) \X ConditionOperands
  <2>1. /\ 3 \in DOMAIN o /\ o = <<o[1], o[2], o[3], o[4]>>
        /\ o[1] \in RegisterOperands /\ o[2] \in RegisterOperands
        /\ o[3] \in RegisterOperands \cup Number("SIMM11") /\ o[4] \in ConditionOperands
    BY <1>5
  <2>2. /\ o[1] = Operand("REGISTER", o[1].value) /\ o[1].value \in 0 .. 31
        /\ o[2] = Operand("REGISTER", o[2].value) /\ o[2].value \in 0 .. 31 /\ o[2].type = "REGISTER"
        /\ o[4] = Operand("ICC", o[4].value) /\ o[4].value \in 0 .. 15
    BY <2>1, OperandPair DEF RegisterOperands, ConditionOperands
  <2>3. PICK rd \in 0 .. 31, rs1 \in 0 .. 31, cc \in 0 .. 15 :
          /\ rd = o[1].value /\ rs1 = o[2].value /\ cc = o[4].value
          /\ o = <<Reg(rd), Reg(rs1), o[3], ICC(cc)>>
    BY <2>1, <2>2 DEF Reg, ICC
  <2>4. PICK head : head = SelSetIcc(SetRd(FormatWord(0, 3), rd), cc) /\ SelFields(head, FormatWord(0, 3), rd, cc)
    BY <1>4, SelHead
  <2>5. head \in WordType /\ GetRd(head) = rd /\ SelGetIcc(head) = cc /\ GetOp(head) = 0 /\ GetOp2(head) = 3
    BY <1>4, <2>4 DEF SelFields
  <2>6. CASE o[3] \in RegisterOperands
    <3>1. o[3] = Operand("REGISTER", o[3].value) /\ o[3].value \in 0 .. 31 /\ o[3].type = "REGISTER"
      BY <2>6, OperandPair DEF RegisterOperands
    <3>2. PICK rs2 \in 0 .. 31 : rs2 = o[3].value /\ o[3] = Reg(rs2)
      BY <3>1 DEF Reg
    <3>3. word = SelSetRs2(SelSetType(SelSetRs1(head, rs1), 0), rs2)
      BY <2>2, <2>3, <2>4, <3>1, <3>2 DEF WithSel
    <3>4. SelFields(word, head, rd, cc) /\ SelGetType(word) = 0 /\ SelGetRs1(word) = rs1 /\ GetRs2(word) = rs2
      BY <2>5, <3>3, SelRegistersRead, SMTT(40)
    <3> HIDE DEF word
    <3>5. DecodedSel(word) = SelCCRegRegInstr(rd, rs1, rs2, cc)
      BY <3>4 DEF SelFields, DecodedSel
    <3>6. SelCCRegRegInstr(rd, rs1, rs2, cc) = i
      BY <1>1, <2>3, <3>2 DEF SelCCRegRegInstr
    <3>7. ExtensionWord(word, 3)
      BY <2>5, <3>4 DEF SelFields, ExtensionWord
    <3> QED
      BY <1>3, <3>5, <3>6, <3>7 DEF SelReads, word, o
  <2>7. CASE o[3] \in Number("SIMM11")
    <3>1. o[3] = Operand("SIMM11", o[3].value) /\ o[3].value \in Int /\ o[3].type = "SIMM11"
      BY <2>7, OperandPair DEF Number
    <3>2. -TwoTo(10) <= o[3].value /\ o[3].value < TwoTo(10)
      BY <1>2, <2>1, <3>1 DEF OperandInRange
    <3>3. PICK v \in Int : v = o[3].value /\ o[3] = Operand("SIMM11", v) /\ -TwoTo(10) <= v /\ v < TwoTo(10)
      BY <3>1, <3>2
    <3>4. word = SelSetSimm11(SelSetType(SelSetRs1(head, rs1), 1), v)
      BY <2>2, <2>3, <2>4, <3>1, <3>3 DEF WithSel
    <3>5. /\ SelFields(word, head, rd, cc) /\ SelGetType(word) = 1
          /\ SelGetRs1(word) = rs1 /\ SelGetSimm11(word) = Rest(v, 11)
      BY <2>5, <3>4, SelImmediateRead
    <3>6. Extended(Rest(v, 11), 11) = v
      <4>1. 11 - 1 = 10
        OBVIOUS
      <4> QED
        BY <3>3, <4>1, SignRead
    <3> HIDE DEF word
    <3>7. DecodedSel(word) = SelCCRegImmInstr(rd, rs1, v, cc)
      BY <3>5, <3>6 DEF SelFields, DecodedSel
    <3>8. SelCCRegImmInstr(rd, rs1, v, cc) = i
      BY <1>1, <2>3, <3>3 DEF SelCCRegImmInstr
    <3>9. ExtensionWord(word, 3)
      BY <2>5, <3>5 DEF SelFields, ExtensionWord
    <3> QED
      BY <1>3, <3>7, <3>8, <3>9 DEF SelReads, word, o
  <2> QED
    BY <2>1, <2>6, <2>7
<1>6. CASE o \in RegisterOperands \X Number("SIMM8") \X Number("SIMM8") \X ConditionOperands
  <2>1. /\ 2 \in DOMAIN o /\ 3 \in DOMAIN o /\ o = <<o[1], o[2], o[3], o[4]>>
        /\ o[1] \in RegisterOperands /\ o[2] \in Number("SIMM8")
        /\ o[3] \in Number("SIMM8") /\ o[4] \in ConditionOperands
    BY <1>6
  <2>2. /\ o[1] = Operand("REGISTER", o[1].value) /\ o[1].value \in 0 .. 31
        /\ o[2] = Operand("SIMM8", o[2].value) /\ o[2].value \in Int /\ o[2].type = "SIMM8"
        /\ o[3] = Operand("SIMM8", o[3].value) /\ o[3].value \in Int /\ o[3].type = "SIMM8"
        /\ o[4] = Operand("ICC", o[4].value) /\ o[4].value \in 0 .. 15
    BY <2>1, OperandPair DEF RegisterOperands, ConditionOperands, Number
  <2>3. /\ -TwoTo(7) <= o[2].value /\ o[2].value < TwoTo(7)
        /\ -TwoTo(7) <= o[3].value /\ o[3].value < TwoTo(7)
    BY <1>2, <2>1, <2>2 DEF OperandInRange
  <2>4. PICK rd \in 0 .. 31, v1 \in Int, v2 \in Int, cc \in 0 .. 15 :
          /\ rd = o[1].value /\ v1 = o[2].value /\ v2 = o[3].value /\ cc = o[4].value
          /\ o = <<Reg(rd), Operand("SIMM8", v1), Operand("SIMM8", v2), ICC(cc)>>
    BY <2>1, <2>2 DEF Reg, ICC
  <2>5. PICK head : head = SelSetIcc(SetRd(FormatWord(0, 3), rd), cc) /\ SelFields(head, FormatWord(0, 3), rd, cc)
    BY <1>4, SelHead
  <2>6. head \in WordType /\ GetRd(head) = rd /\ SelGetIcc(head) = cc /\ GetOp(head) = 0 /\ GetOp2(head) = 3
    BY <1>4, <2>5 DEF SelFields
  <2>7. word = SelSetSrc2Imm8(SelSetSrc1Imm8(SelSetType(head, 2), v1), v2)
    BY <2>2, <2>4, <2>5 DEF WithSel
  <2>8. /\ SelFields(word, head, rd, cc) /\ SelGetType(word) = 2
        /\ SelGetSrc1Imm8(word) = Rest(v1, 8) /\ SelGetSrc2Imm8(word) = Rest(v2, 8)
    BY <2>6, <2>7, SelImmediatesRead, SMTT(40)
  <2>9. Extended(Rest(v1, 8), 8) = v1 /\ Extended(Rest(v2, 8), 8) = v2
    <3>1. 8 - 1 = 7
      OBVIOUS
    <3> QED
      BY <2>3, <2>4, <3>1, SignRead
  <2> HIDE DEF word
  <2>10. DecodedSel(word) = SelCCImmImmInstr(rd, v1, v2, cc)
    BY <2>8, <2>9 DEF SelFields, DecodedSel
  <2>11. SelCCImmImmInstr(rd, v1, v2, cc) = i
    BY <1>1, <2>4 DEF SelCCImmImmInstr
  <2>12. ExtensionWord(word, 3)
    BY <2>6, <2>8 DEF SelFields, ExtensionWord
  <2> QED
    BY <1>3, <2>10, <2>11, <2>12 DEF SelReads, word, o
<1> QED
  BY <1>1, <1>5, <1>6, ExtensionOperands

MovReads(u, i) == ExtensionWord(u, 3) /\ DecodedMov(u) = Meant(i)

LEMMA MovRead ==
  ASSUME NEW w \in WordType, NEW rd \in 0 .. 31, NEW rs \in 0 .. 31, NEW cc \in 0 .. 15
  PROVE  \E u : /\ u = SetCC(SetRs1(SetRs2(w, rd), rs), cc)
                /\ SameFormat(u, w) /\ GetRs2(u) = rd /\ GetRs1(u) = rs /\ GetCC(u) = cc
<1> DEFINE a == SetRs2(w, rd)
           b == SetRs1(a, rs)
           u == SetCC(b, cc)
<1>0. rd % 32 = rd /\ rd \in Int /\ rs % 32 = rs /\ rs \in Int /\ cc % 16 = cc /\ cc \in Int
  BY Fits
<1>1. SetsSource(a, w, 5, rd, 0)
  BY <1>0, SourceMacrosSet
<1>2. /\ a \in WordType /\ GetOp(a) = GetOp(w) /\ GetOp2(a) = GetOp2(w) /\ GetField(a, 0, 5) = rd
  BY <1>1, SourceKeeps
<1>3. Sets(b, a, 14, 5, rs)
  BY <1>0, <1>2, MacrosSet
<1>4. b \in WordType
  BY <1>3 DEF Sets
<1>5. Sets(u, b, 25, 4, cc)
  BY <1>0, <1>4, MacrosSet
<1> HIDE DEF a, b, u
<1>6. GetField(u, 30, 2) = GetField(a, 30, 2) /\ GetField(u, 22, 3) = GetField(a, 22, 3)
  BY <1>3, <1>5 DEF Sets, Apart
<1>7. u \in WordType /\ GetField(u, 0, 5) = rd /\ GetField(u, 14, 5) = rs /\ GetField(u, 25, 4) = cc
  BY <1>2, <1>3, <1>5 DEF Sets, Apart
<1> QED
  <2>1. SameFormat(u, w) /\ GetRs2(u) = rd /\ GetRs1(u) = rs /\ GetCC(u) = cc
    BY <1>2, <1>6, <1>7 DEF SameFormat, GetOp, GetOp2, GetRs1, GetRs2, GetCC
  <2> QED
    BY <2>1 DEF a, b, u

LEMMA MovRoundTrip ==
  ASSUME NEW i, IsResolved(i), i.op = "MOV"
  PROVE  MovReads(WithMov(FormatWord(0, 3), i.operands), i)
<1> DEFINE o == i.operands
           word == WithMov(FormatWord(0, 3), o)
<1>1. i = Instruction("MOV", o) /\ o \in OperandLists("MOV", AddressOperands, {})
  BY ResolvedShape DEF Instruction
<1>2. Meant(i) = i
  BY <1>1 DEF Meant, Instruction
<1> HIDE DEF o
<1>3. o \in RegisterOperands \X RegisterOperands \X ConditionOperands
  BY <1>1, ExtensionOperands
<1>4. o = <<o[1], o[2], o[3]>> /\ o[1] \in RegisterOperands /\ o[2] \in RegisterOperands /\ o[3] \in ConditionOperands
  BY <1>3
<1>5. /\ o[1] = Operand("REGISTER", o[1].value) /\ o[1].value \in 0 .. 31
      /\ o[2] = Operand("REGISTER", o[2].value) /\ o[2].value \in 0 .. 31
      /\ o[3] = Operand("ICC", o[3].value) /\ o[3].value \in 0 .. 15
  BY <1>4, OperandPair DEF RegisterOperands, ConditionOperands
<1>6. PICK rd \in 0 .. 31, rs \in 0 .. 31, cc \in 0 .. 15 :
        rd = o[1].value /\ rs = o[2].value /\ cc = o[3].value /\ o = <<Reg(rd), Reg(rs), ICC(cc)>>
  BY <1>4, <1>5 DEF Reg, ICC
<1>7. word = SetCC(SetRs1(SetRs2(FormatWord(0, 3), rd), rs), cc)
  BY <1>6 DEF WithMov
<1>8. SameFormat(word, FormatWord(0, 3)) /\ GetRs2(word) = rd /\ GetRs1(word) = rs /\ GetCC(word) = cc
  <2>1. FormatWord(0, 3) \in WordType
    BY FormatFields
  <2>2. \E u : /\ u = SetCC(SetRs1(SetRs2(FormatWord(0, 3), rd), rs), cc)
               /\ SameFormat(u, FormatWord(0, 3)) /\ GetRs2(u) = rd /\ GetRs1(u) = rs /\ GetCC(u) = cc
    BY <2>1, MovRead, ZenonT(40)
  <2> QED
    BY <1>7, <2>2
<1> HIDE DEF word
<1>9. ExtensionWord(word, 3)
  BY <1>8, ExtensionFormat
<1>10. DecodedMov(word) = i
  BY <1>1, <1>6, <1>8 DEF DecodedMov, MovCCInstr
<1> QED
  BY <1>2, <1>9, <1>10 DEF MovReads, word, o

BlockIccReads(u, i) ==
  ExtensionWord(u, 5) /\ BlockIccOpcode(u) = i.op /\ DecodedBlockIcc(i.op, u) = Meant(i)

LEMMA BlockIccRead ==
  ASSUME NEW w \in WordType
  PROVE  /\ SameFormat(SetA(w, 0), w) /\ GetA(SetA(w, 0)) = 0
         /\ \A cc \in 0 .. 15 :
              LET u == SetCC(SetA(w, 1), cc) IN SameFormat(u, w) /\ GetA(u) = 1 /\ GetCC(u) = cc
<1>0. 0 % 2 = 0 /\ 1 % 2 = 1
  OBVIOUS
<1>1. Sets(SetA(w, 0), w, 29, 1, 0) /\ Sets(SetA(w, 1), w, 29, 1, 1)
  BY <1>0, MacrosSet
<1>2. SameFormat(SetA(w, 0), w) /\ GetA(SetA(w, 0)) = 0
  BY <1>1 DEF Sets, Apart, SameFormat, GetOp, GetOp2, GetA
<1>3. ASSUME NEW cc \in 0 .. 15
      PROVE  LET u == SetCC(SetA(w, 1), cc) IN SameFormat(u, w) /\ GetA(u) = 1 /\ GetCC(u) = cc
  <2> DEFINE a == SetA(w, 1)
             u == SetCC(a, cc)
  <2>1. cc % 16 = cc /\ cc \in Int
    BY Fits
  <2>2. a \in WordType
    BY <1>1 DEF Sets
  <2>3. Sets(u, a, 25, 4, cc)
    BY <2>1, <2>2, MacrosSet
  <2>4. Sets(a, w, 29, 1, 1)
    BY <1>1
  <2> HIDE DEF a, u
  <2>5. GetField(u, 30, 2) = GetField(w, 30, 2) /\ GetField(u, 22, 3) = GetField(w, 22, 3)
    BY <2>3, <2>4 DEF Sets, Apart
  <2>6. u \in WordType /\ GetField(u, 29, 1) = 1 /\ GetField(u, 25, 4) = cc
    BY <2>3, <2>4 DEF Sets, Apart
  <2> QED
    BY <2>5, <2>6 DEF SameFormat, GetOp, GetOp2, GetA, GetCC, a, u
<1> QED
  BY <1>2, <1>3

LEMMA BlockIccRoundTrip ==
  ASSUME NEW i, IsResolved(i), i.op \in {"PREDBEGIN", "PREDEND"},
         i.op = "PREDBEGIN" => i.operands[1].type = "ICC"
  PROVE  BlockIccReads(WithBlockIcc(FormatWord(0, 5), i.op, i.operands), i)
<1> DEFINE o == i.operands
           word == WithBlockIcc(FormatWord(0, 5), i.op, o)
<1>1. i = Instruction(i.op, o) /\ o \in OperandLists(i.op, AddressOperands, {})
  BY ResolvedShape DEF Instruction
<1>2. Meant(i) = i
  BY <1>1 DEF Meant
<1>3. FormatWord(0, 5) \in WordType
  BY FormatFields
<1>4. i.op = "PREDBEGIN" => o[1].type = "ICC"
  OBVIOUS
<1> HIDE DEF o
<1>5. CASE i.op = "PREDEND"
  <2>1. o = << >>
    BY <1>1, <1>5, ExtensionOperands
  <2>2. word = SetA(FormatWord(0, 5), 0)
    BY <1>5 DEF WithBlockIcc
  <2>3. SameFormat(word, FormatWord(0, 5)) /\ GetA(word) = 0
    BY <1>3, <2>2, BlockIccRead
  <2> HIDE DEF word
  <2>4. ExtensionWord(word, 5)
    BY <2>3, ExtensionFormat
  <2>5. BlockIccOpcode(word) = "PREDEND"
    BY <2>3 DEF BlockIccOpcode
  <2>6. DecodedBlockIcc("PREDEND", word) = i
    BY <1>1, <1>5, <2>1 DEF DecodedBlockIcc, ZeroOperandInstr
  <2> QED
    BY <1>2, <1>5, <2>4, <2>5, <2>6 DEF BlockIccReads, word, o
<1>6. CASE i.op = "PREDBEGIN"
  <2>1. o \in [1 .. 1 -> ConditionOperands]
    <3>1. CASE o \in PredicateOperands \X OperandsOf("TF", {0, 1})
      <4>1. o[1] \in PredicateOperands
        BY <3>1
      <4> QED
        BY <1>4, <1>6, <4>1, OperandKinds
    <3> QED
      BY <1>1, <1>6, <3>1, ExtensionOperands
  <2>2. o = <<o[1]>> /\ o[1] \in ConditionOperands
    BY <2>1
  <2>3. o[1] = Operand("ICC", o[1].value) /\ o[1].value \in 0 .. 15
    BY <2>2, OperandPair DEF ConditionOperands
  <2>4. PICK cc \in 0 .. 15 : cc = o[1].value /\ o = <<ICC(cc)>>
    BY <2>2, <2>3 DEF ICC
  <2>5. word = SetCC(SetA(FormatWord(0, 5), 1), cc)
    BY <1>6, <2>4 DEF WithBlockIcc
  <2>6. SameFormat(word, FormatWord(0, 5)) /\ GetA(word) = 1 /\ GetCC(word) = cc
    BY <1>3, <2>5, BlockIccRead
  <2> HIDE DEF word
  <2>7. ExtensionWord(word, 5)
    BY <2>6, ExtensionFormat
  <2>8. BlockIccOpcode(word) = "PREDBEGIN"
    BY <2>6 DEF BlockIccOpcode
  <2>9. DecodedBlockIcc("PREDBEGIN", word) = i
    BY <1>1, <1>6, <2>4, <2>6 DEF DecodedBlockIcc
  <2> QED
    BY <1>2, <1>6, <2>7, <2>8, <2>9 DEF BlockIccReads, word, o
<1> QED
  BY <1>5, <1>6

BlockPregReads(u, i) ==
  ExtensionWord(u, 5) /\ BlockPregOpcode(u) = Meant(i).op /\ DecodedBlockPreg(Meant(i).op, u) = Meant(i)

LEMMA BlockTypeRead ==
  ASSUME NEW w \in WordType, NEW type \in 0 .. 3
  PROVE  LET u == PredSetType(w, type) IN SameFormat(u, w) /\ PredGetType(u) = type
<1> DEFINE u == PredSetType(w, type)
<1>1. type % 4 = type /\ type \in Int
  BY Fits
<1>2. Sets(u, w, 20, 2, type)
  BY <1>1, ExtensionMacrosSet
<1> HIDE DEF u
<1>3. SameFormat(u, w) /\ PredGetType(u) = type
  BY <1>2 DEF Sets, Apart, SameFormat, GetOp, GetOp2, PredGetType
<1> QED
  BY <1>3 DEF u

LEMMA BlockBeginRead ==
  ASSUME NEW w \in WordType, NEW p \in 0 .. 15, NEW tf \in 0 .. 1
  PROVE  LET u == PredSetTf(SetRs2(w, p), tf) IN
         SameFormat(u, w) /\ PredGetType(u) = PredGetType(w) /\ GetRs2(u) = p /\ PredGetTf(u) = tf
<1> DEFINE a == SetRs2(w, p)
           u == PredSetTf(a, tf)
<1>0. p % 32 = p /\ p \in Int /\ tf % 2 = tf /\ tf \in Int
  BY Fits
<1>1. PICK y : Sets(y, w, 0, 5, p) /\ Sets(a, y, 13, 1, 0)
  BY <1>0, SourceMacrosSet DEF SetsSource
<1>2. a \in WordType
  BY <1>1 DEF Sets
<1>3. Sets(u, a, 5, 1, tf)
  BY <1>0, <1>2, ExtensionMacrosSet
<1> HIDE DEF a, u
<1>4. /\ GetField(u, 30, 2) = GetField(w, 30, 2) /\ GetField(u, 22, 3) = GetField(w, 22, 3)
      /\ GetField(u, 20, 2) = GetField(w, 20, 2)
  BY <1>1, <1>3 DEF Sets, Apart
<1>5. u \in WordType /\ GetField(u, 0, 5) = p /\ GetField(u, 5, 1) = tf
  BY <1>1, <1>3 DEF Sets, Apart
<1> QED
  BY <1>4, <1>5 DEF SameFormat, GetOp, GetOp2, PredGetType, GetRs2, PredGetTf, a, u

LEMMA BlockSetRead ==
  ASSUME NEW w \in WordType, NEW p \in 0 .. 15, NEW cc \in 0 .. 15
  PROVE  /\ LET u == SetRd(PredSetIcc(w, cc), p) IN
            SameFormat(u, w) /\ PredGetType(u) = PredGetType(w) /\ GetRd(u) = p /\ PredGetIcc(u) = cc
         /\ LET u == PredSetIcc(SetRd(w, p), cc) IN
            SameFormat(u, w) /\ PredGetType(u) = PredGetType(w) /\ GetRd(u) = p /\ PredGetIcc(u) = cc
<1>0. p % 32 = p /\ p \in Int /\ cc % 16 = cc /\ cc \in Int
  BY Fits
<1>1. LET u == SetRd(PredSetIcc(w, cc), p) IN
      SameFormat(u, w) /\ PredGetType(u) = PredGetType(w) /\ GetRd(u) = p /\ PredGetIcc(u) = cc
  <2> DEFINE a == PredSetIcc(w, cc)
             u == SetRd(a, p)
  <2>1. Sets(a, w, 16, 4, cc)
    BY <1>0, ExtensionMacrosSet
  <2>2. a \in WordType
    BY <2>1 DEF Sets
  <2>3. Sets(u, a, 25, 5, p)
    BY <1>0, <2>2, MacrosSet
  <2> HIDE DEF a, u
  <2>4. /\ GetField(u, 30, 2) = GetField(w, 30, 2) /\ GetField(u, 22, 3) = GetField(w, 22, 3)
        /\ GetField(u, 20, 2) = GetField(w, 20, 2)
    BY <2>1, <2>3 DEF Sets, Apart
  <2>5. u \in WordType /\ GetField(u, 25, 5) = p /\ GetField(u, 16, 4) = cc
    BY <2>1, <2>3 DEF Sets, Apart
  <2> QED
    BY <2>4, <2>5 DEF SameFormat, GetOp, GetOp2, PredGetType, GetRd, PredGetIcc, a, u
<1>2. LET u == PredSetIcc(SetRd(w, p), cc) IN
      SameFormat(u, w) /\ PredGetType(u) = PredGetType(w) /\ GetRd(u) = p /\ PredGetIcc(u) = cc
  <2> DEFINE a == SetRd(w, p)
             u == PredSetIcc(a, cc)
  <2>1. Sets(a, w, 25, 5, p)
    BY <1>0, MacrosSet
  <2>2. a \in WordType
    BY <2>1 DEF Sets
  <2>3. Sets(u, a, 16, 4, cc)
    BY <1>0, <2>2, ExtensionMacrosSet
  <2> HIDE DEF a, u
  <2>4. /\ GetField(u, 30, 2) = GetField(w, 30, 2) /\ GetField(u, 22, 3) = GetField(w, 22, 3)
        /\ GetField(u, 20, 2) = GetField(w, 20, 2)
    BY <2>1, <2>3 DEF Sets, Apart
  <2>5. u \in WordType /\ GetField(u, 25, 5) = p /\ GetField(u, 16, 4) = cc
    BY <2>1, <2>3 DEF Sets, Apart
  <2> QED
    BY <2>4, <2>5 DEF SameFormat, GetOp, GetOp2, PredGetType, GetRd, PredGetIcc, a, u
<1> QED
  BY <1>1, <1>2

\* the words of the four predication instructions
LEMMA BlockEndDecoded ==
  BlockPregReads(PredSetType(FormatWord(0, 5), BlockEnd), Instruction("PREDEND", << >>))
<1> DEFINE u == PredSetType(FormatWord(0, 5), BlockEnd)
           i == Instruction("PREDEND", << >>)
<1>1. SameFormat(u, FormatWord(0, 5)) /\ PredGetType(u) = 1
  BY FormatFields, BlockTypeRead DEF BlockEnd
<1> HIDE DEF u
<1>2. ExtensionWord(u, 5)
  BY <1>1, ExtensionFormat
<1>3. Meant(i) = i /\ i.op = "PREDEND"
  BY DEF Meant, Instruction
<1>4. BlockPregOpcode(u) = "PREDEND"
  BY <1>1 DEF BlockPregOpcode, BlockBegin, BlockEnd, BlockSet
<1>5. DecodedBlockPreg("PREDEND", u) = i
  BY DEF DecodedBlockPreg, ZeroOperandInstr
<1> QED
  BY <1>2, <1>3, <1>4, <1>5 DEF BlockPregReads, u

LEMMA BlockBeginDecoded ==
  ASSUME NEW p \in 0 .. 15, NEW tf \in 0 .. 1
  PROVE  BlockPregReads(PredSetTf(SetRs2(PredSetType(FormatWord(0, 5), BlockBegin), p), tf),
                        Instruction("PREDBEGIN", <<Preg(p), Operand("TF", tf)>>))
<1> DEFINE w == PredSetType(FormatWord(0, 5), BlockBegin)
           u == PredSetTf(SetRs2(w, p), tf)
           i == Instruction("PREDBEGIN", <<Preg(p), Operand("TF", tf)>>)
<1>1. SameFormat(w, FormatWord(0, 5)) /\ PredGetType(w) = 0
  BY FormatFields, BlockTypeRead DEF BlockBegin
<1>2. SameFormat(u, w) /\ PredGetType(u) = PredGetType(w) /\ GetRs2(u) = p /\ PredGetTf(u) = tf
  BY <1>1, BlockBeginRead DEF SameFormat
<1> HIDE DEF u, w
<1>3. ExtensionWord(u, 5)
  BY <1>1, <1>2, ExtensionFormat DEF SameFormat
<1>4. Meant(i) = i /\ i.op = "PREDBEGIN"
  BY DEF Meant, Instruction
<1>5. BlockPregOpcode(u) = "PREDBEGIN"
  BY <1>1, <1>2 DEF BlockPregOpcode, BlockBegin, BlockEnd, BlockSet
<1>6. DecodedBlockPreg("PREDBEGIN", u) = i
  <2>1. ZeroOperandInstr("PREDBEGIN") = [op |-> "PREDBEGIN", operands |-> << >>]
    BY DEF ZeroOperandInstr, Instruction
  <2>2. AddPReg(ZeroOperandInstr("PREDBEGIN"), p, tf) = [op |-> "PREDBEGIN", operands |-> << >> \o <<Preg(p), Operand("TF", tf)>>]
    BY <2>1, SMTT(40) DEF AddPReg
  <2>3. << >> \o <<Preg(p), Operand("TF", tf)>> = <<Preg(p), Operand("TF", tf)>>
    OBVIOUS
  <2> QED
    BY <1>2, <2>2, <2>3 DEF DecodedBlockPreg, Instruction
<1> QED
  BY <1>3, <1>4, <1>5, <1>6 DEF BlockPregReads, u, w

\* setting a predicate, on what is meant in the end
SetMeant(p, cc) ==
  CASE cc = CCNever  -> PredRegInstr("PREDCLEAR", p)
    [] cc = CCAlways -> PredRegInstr("PREDSET", p)
    [] OTHER         -> Instruction("PREDSET", <<Preg(p), ICC(cc)>>)

LEMMA BlockSetDecoded ==
  ASSUME NEW p \in 0 .. 15, NEW cc \in 0 .. 15, NEW u,
         ExtensionWord(u, 5), PredGetType(u) = BlockSet, GetRd(u) = p, PredGetIcc(u) = cc
  PROVE  BlockPregOpcode(u) = SetMeant(p, cc).op /\ DecodedBlockPreg(SetMeant(p, cc).op, u) = SetMeant(p, cc)
<1>1. CASE cc = 0
  <2>1. SetMeant(p, cc) = PredRegInstr("PREDCLEAR", p) /\ SetMeant(p, cc).op = "PREDCLEAR"
    BY <1>1 DEF SetMeant, CCNever, CCAlways, PredRegInstr, Instruction
  <2>2. BlockPregOpcode(u) = "PREDCLEAR"
    BY <1>1 DEF BlockPregOpcode, BlockBegin, BlockEnd, BlockSet, CCNever
  <2>3. DecodedBlockPreg("PREDCLEAR", u) = PredRegInstr("PREDCLEAR", p)
    BY DEF DecodedBlockPreg
  <2> QED
    BY <2>1, <2>2, <2>3
<1>2. CASE cc = 8
  <2>1. SetMeant(p, cc) = PredRegInstr("PREDSET", p) /\ SetMeant(p, cc).op = "PREDSET"
    BY <1>2 DEF SetMeant, CCNever, CCAlways, PredRegInstr, Instruction
  <2>2. BlockPregOpcode(u) = "PREDSET"
    BY <1>2 DEF BlockPregOpcode, BlockBegin, BlockEnd, BlockSet, CCNever
  <2>3. DecodedBlockPreg("PREDSET", u) = PredRegInstr("PREDSET", p)
    BY <1>2 DEF DecodedBlockPreg, CCAlways
  <2> QED
    BY <2>1, <2>2, <2>3
<1>3. CASE cc \notin {0, 8}
  <2>1. SetMeant(p, cc) = Instruction("PREDSET", <<Preg(p), ICC(cc)>>) /\ SetMeant(p, cc).op = "PREDSET"
    BY <1>3 DEF SetMeant, CCNever, CCAlways, Instruction
  <2>2. BlockPregOpcode(u) = "PREDSET"
    BY <1>3 DEF BlockPregOpcode, BlockBegin, BlockEnd, BlockSet, CCNever
  <2>3. DecodedBlockPreg("PREDSET", u) = AddICC(PredRegInstr("PREDSET", p), cc)
    BY <1>3 DEF DecodedBlockPreg, CCAlways
  <2>4. PredRegInstr("PREDSET", p) = [op |-> "PREDSET", operands |-> <<Preg(p)>>]
    BY DEF PredRegInstr, Instruction
  <2>5. AddICC(PredRegInstr("PREDSET", p), cc) = [op |-> "PREDSET", operands |-> Append(<<Preg(p)>>, ICC(cc))]
    BY <2>4, SMTT(40) DEF AddICC
  <2>6. ASSUME NEW a, NEW b PROVE Append(<<a>>, b) = <<a, b>>
    <3> DEFINE s == Append(<<a>>, b)
    <3>1. <<a>> \in Seq({a, b}) /\ b \in {a, b} /\ Len(<<a>>) = 1 /\ <<a>>[1] = a
      OBVIOUS
    <3>2. s \in Seq({a, b}) /\ Len(s) = Len(<<a>>) + 1 /\ s[1] = <<a>>[1] /\ s[Len(<<a>>) + 1] = b
      <4>1. 1 \in 1 .. Len(<<a>>)
        BY <3>1
      <4> QED
        BY ONLY <3>1, <4>1, AppendProperties
    <3>3. s \in Seq({a, b}) /\ Len(s) = 2 /\ s[1] = a /\ s[2] = b
      BY ONLY <3>1, <3>2
    <3> HIDE DEF s
    <3>4. s \in [1 .. 2 -> {a, b}]
      BY ONLY <3>3
    <3>5. s = <<s[1], s[2]>>
      BY ONLY <3>4
    <3> QED
      BY <3>3, <3>5 DEF s
  <2>7. Append(<<Preg(p)>>, ICC(cc)) = <<Preg(p), ICC(cc)>>
    BY <2>6
  <2> QED
    BY <2>1, <2>2, <2>3, <2>5, <2>7 DEF Instruction
<1> QED
  BY <1>1, <1>2, <1>3

LEMMA BlockSetWords ==
  ASSUME NEW p \in 0 .. 15, NEW cc \in 0 .. 15, NEW i, Meant(i) = SetMeant(p, cc)
  PROVE  /\ BlockPregReads(SetRd(PredSetIcc(PredSetType(FormatWord(0, 5), BlockSet), cc), p), i)
         /\ BlockPregReads(PredSetIcc(SetRd(PredSetType(FormatWord(0, 5), BlockSet), p), cc), i)
<1> DEFINE w == PredSetType(FormatWord(0, 5), BlockSet)
<1>1. SameFormat(w, FormatWord(0, 5)) /\ PredGetType(w) = 2
  BY FormatFields, BlockTypeRead DEF BlockSet
<1>2. w \in WordType /\ GetOp(w) = 0 /\ GetOp2(w) = 5 /\ PredGetType(w) = BlockSet
  BY <1>1, FormatFields DEF SameFormat, BlockSet
<1> HIDE DEF w
<1>3. ASSUME NEW u, SameFormat(u, w), PredGetType(u) = PredGetType(w), GetRd(u) = p, PredGetIcc(u) = cc
      PROVE  BlockPregReads(u, i)
  <2>1. ExtensionWord(u, 5)
    BY <1>2, <1>3 DEF SameFormat, ExtensionWord
  <2>2. PredGetType(u) = BlockSet
    BY <1>2, <1>3
  <2>3. BlockPregOpcode(u) = SetMeant(p, cc).op /\ DecodedBlockPreg(SetMeant(p, cc).op, u) = SetMeant(p, cc)
    BY <1>3, <2>1, <2>2, BlockSetDecoded
  <2> QED
    BY <2>1, <2>3 DEF BlockPregReads
<1>4. BlockPregReads(SetRd(PredSetIcc(w, cc), p), i)
  BY <1>2, <1>3, BlockSetRead, SMTT(40)
<1>5. BlockPregReads(PredSetIcc(SetRd(w, p), cc), i)
  BY <1>2, <1>3, BlockSetRead, SMTT(40)
<1> QED
  BY <1>4, <1>5 DEF w

\* the instructions that set and clear a predicate, and what they mean
LEMMA SetsMeant ==
  ASSUME NEW p \in 0 .. 15
  PROVE  /\ Meant(PredRegInstr("PREDCLEAR", p)) = SetMeant(p, CCNever)
         /\ Meant(PredRegInstr("PREDSET", p)) = SetMeant(p, CCAlways)
         /\ \A cc \in 0 .. 15 : Meant(Instruction("PREDSET", <<Preg(p), ICC(cc)>>)) = SetMeant(p, cc)
<1>1. Meant(PredRegInstr("PREDCLEAR", p)) = PredRegInstr("PREDCLEAR", p)
  BY DEF Meant, PredRegInstr, Instruction
<1>2. Meant(PredRegInstr("PREDSET", p)) = PredRegInstr("PREDSET", p)
  BY DEF Meant, PredRegInstr, Instruction
<1>3. ASSUME NEW cc \in 0 .. 15
      PROVE  Meant(Instruction("PREDSET", <<Preg(p), ICC(cc)>>)) = SetMeant(p, cc)
  <2> DEFINE i == Instruction("PREDSET", <<Preg(p), ICC(cc)>>)
  <2>1. /\ i.op = "PREDSET" /\ Len(i.operands) = 2
        /\ i.operands[1].value = p /\ i.operands[2].value = cc
    BY DEF Instruction, Preg, ICC, Operand
  <2>2. Meant(i) = CASE cc = CCAlways -> PredRegInstr("PREDSET", p)
                     [] cc = CCNever -> PredRegInstr("PREDCLEAR", p)
                     [] OTHER -> i
    <3> HIDE DEF i
    <3> QED
      BY <2>1 DEF Meant, CCAlways, CCNever
  <2> QED
    BY <2>2 DEF SetMeant, CCAlways, CCNever
<1>4. SetMeant(p, CCNever) = PredRegInstr("PREDCLEAR", p)
  BY DEF SetMeant, CCNever, CCAlways
<1>5. SetMeant(p, CCAlways) = PredRegInstr("PREDSET", p)
  BY DEF SetMeant, CCNever, CCAlways
<1> QED
  BY <1>1, <1>2, <1>3, <1>4, <1>5

LEMMA BlockPregRoundTrip ==
  ASSUME NEW i, IsResolved(i), i.op \in PredicationOps,
         i.op = "PREDBEGIN" => i.operands[1].type # "ICC"
  PROVE  BlockPregReads(WithBlockPreg(FormatWord(0, 5), i.op, i.operands), i)
<1> DEFINE o == i.operands
           word == WithBlockPreg(FormatWord(0, 5), i.op, o)
<1>1. i = Instruction(i.op, o) /\ o \in OperandLists(i.op, AddressOperands, {})
  BY ResolvedShape DEF Instruction
<1>2. i.op = "PREDBEGIN" => o[1].type # "ICC"
  OBVIOUS
<1> HIDE DEF o
<1>3. CASE i.op = "PREDEND"
  <2>1. o = << >>
    BY <1>1, <1>3, ExtensionOperands
  <2>2. word = PredSetType(FormatWord(0, 5), BlockEnd)
    BY <1>3 DEF WithBlockPreg
  <2> QED
    BY <1>1, <1>3, <2>1, <2>2, BlockEndDecoded DEF o
<1>4. CASE i.op = "PREDBEGIN"
  <2>1. o \in PredicateOperands \X OperandsOf("TF", {0, 1})
    <3>1. ASSUME o \in [1 .. 1 -> ConditionOperands] PROVE FALSE
      <4>1. o[1] \in ConditionOperands
        BY <3>1
      <4> QED
        BY <1>2, <1>4, <4>1, OperandKinds
    <3> QED
      BY <1>1, <1>4, <3>1, ExtensionOperands
  <2>2. o = <<o[1], o[2]>> /\ o[1] \in PredicateOperands /\ o[2] \in OperandsOf("TF", {0, 1})
    BY <2>1
  <2>3. /\ o[1] = Operand("PREG", o[1].value) /\ o[1].value \in 0 .. 15
        /\ o[2] = Operand("TF", o[2].value) /\ o[2].value \in {0, 1}
    BY <2>2, OperandPair DEF PredicateOperands
  <2>4. PICK p \in 0 .. 15, tf \in 0 .. 1 :
          p = o[1].value /\ tf = o[2].value /\ o = <<Preg(p), Operand("TF", tf)>>
    BY <2>2, <2>3 DEF Preg
  <2>5. word = PredSetTf(SetRs2(PredSetType(FormatWord(0, 5), BlockBegin), p), tf)
    BY <1>4, <2>4 DEF WithBlockPreg
  <2> QED
    BY <1>1, <1>4, <2>4, <2>5, BlockBeginDecoded DEF o
<1>5. ASSUME o \in [1 .. 1 -> PredicateOperands]
      PROVE  \E p \in 0 .. 15 : p = o[1].value /\ o = <<Preg(p)>> /\ Len(o) = 1
  <2>1. o = <<o[1]>> /\ o[1] \in PredicateOperands /\ Len(o) = 1
    BY <1>5
  <2>2. o[1] = Operand("PREG", o[1].value) /\ o[1].value \in 0 .. 15
    BY <2>1, OperandPair DEF PredicateOperands
  <2> QED
    BY <2>1, <2>2 DEF Preg
<1>6. CASE i.op = "PREDCLEAR"
  <2>1. PICK p \in 0 .. 15 : p = o[1].value /\ o = <<Preg(p)>>
    BY <1>1, <1>5, <1>6, ExtensionOperands
  <2>2. word = SetRd(PredSetIcc(PredSetType(FormatWord(0, 5), BlockSet), CCNever), p)
    BY <1>6, <2>1 DEF WithBlockPreg
  <2>3. Meant(i) = SetMeant(p, CCNever)
    BY <1>1, <1>6, <2>1, SetsMeant DEF PredRegInstr
  <2>4. CCNever \in 0 .. 15
    BY DEF CCNever
  <2> QED
    BY <2>2, <2>3, <2>4, BlockSetWords DEF o
<1>7. CASE i.op = "PREDSET" /\ o \in [1 .. 1 -> PredicateOperands]
  <2>1. PICK p \in 0 .. 15 : p = o[1].value /\ o = <<Preg(p)>> /\ Len(o) = 1
    BY <1>5, <1>7
  <2>2. word = PredSetIcc(SetRd(PredSetType(FormatWord(0, 5), BlockSet), p), CCAlways)
    BY <1>7, <2>1 DEF WithBlockPreg
  <2>3. Meant(i) = SetMeant(p, CCAlways)
    BY <1>1, <1>7, <2>1, SetsMeant DEF PredRegInstr
  <2>4. CCAlways \in 0 .. 15
    BY DEF CCAlways
  <2> QED
    BY <2>2, <2>3, <2>4, BlockSetWords DEF o
<1>8. CASE i.op = "PREDSET" /\ o \in PredicateOperands \X ConditionOperands
  <2>1. o = <<o[1], o[2]>> /\ Len(o) = 2 /\ o[1] \in PredicateOperands /\ o[2] \in ConditionOperands
    BY <1>8
  <2>2. /\ o[1] = Operand("PREG", o[1].value) /\ o[1].value \in 0 .. 15
        /\ o[2] = Operand("ICC", o[2].value) /\ o[2].value \in 0 .. 15
    BY <2>1, OperandPair DEF PredicateOperands, ConditionOperands
  <2>3. PICK p \in 0 .. 15, cc \in 0 .. 15 :
          p = o[1].value /\ cc = o[2].value /\ o = <<Preg(p), ICC(cc)>>
    BY <2>1, <2>2 DEF Preg, ICC
  <2>4. word = PredSetIcc(SetRd(PredSetType(FormatWord(0, 5), BlockSet), p), cc)
    BY <1>8, <2>1, <2>3 DEF WithBlockPreg
  <2>5. Meant(i) = SetMeant(p, cc)
    BY <1>1, <1>8, <2>3, SetsMeant, ZenonT(40)
  <2> QED
    BY <2>4, <2>5, BlockSetWords DEF o
<1> QED
  BY <1>1, <1>3, <1>4, <1>6, <1>7, <1>8, ExtensionOperands DEF PredicationOps

LEMMA OpRange ==
  ASSUME NEW u \in WordType
  PROVE  GetOp(u) \in 0 .. 3
<1>1. 30 \in Nat /\ 2 \in 0 .. 31 /\ 30 + 2 <= 32
  OBVIOUS
<1>2. PICK f \in [0 .. 2 -> Nat] :
        /\ f[0] = 0
        /\ \A k \in 1 .. 2 : f[k] = 2 * f[k - 1] + u[30 + 2 - k]
        /\ \A k \in 1 .. 2 : u[30 + 2 - k] \in {0, 1}
        /\ GetField(u, 30, 2) = f[2]
  BY <1>1, FieldBound
<1>3. /\ f[1] = 2 * f[0] + u[30 + 2 - 1] /\ u[30 + 2 - 1] \in {0, 1}
      /\ f[2] = 2 * f[1] + u[30 + 2 - 2] /\ u[30 + 2 - 2] \in {0, 1}
  BY <1>2
<1>4. f[1] \in {0, 1} /\ f[2] \in 0 .. 3
  BY <1>2, <1>3
<1> QED
  BY <1>2, <1>4 DEF GetOp

\* only the second opcode fields that the base instructions leave free are the
\* extensions' own
LEMMA BaseOpcode ==
  ASSUME NEW u \in WordType, NEW own, NEW base, GetOp(u) = 0 => own = base
  PROVE  Opcode(u, own) = Opcode(u, base)
BY OpRange DEF Opcode

LEMMA BaseDecodes ==
  ASSUME NEW u, NEW i, NEW n \in Int, i.op \notin ExtensionOps, V8Reads(u, i, n)
  PROVE  \A t \in Targets : Decoded(t, u, n) = Meant(i)
<1>1. /\ u \in WordType /\ V8Opcode(u) = i.op /\ V8Decoded(i.op, u, n) = Meant(i)
      /\ GetOp(u) = 0 => GetOp2(u) \in {0, 2, 4}
  BY DEF V8Reads
<1> DEFINE movcc == CASE GetOp2(u) = Op2HWLOOP     -> HwloopOpcode(u)
                      [] GetOp2(u) = Op2MOVCC      -> "MOV"
                      [] GetOp2(u) = Op2PREDBLOCKS -> BlockIccOpcode(u)
                      [] OTHER                     -> V8Format2(u)
           selcc == CASE GetOp2(u) = Op2HWLOOP     -> HwloopOpcode(u)
                      [] GetOp2(u) = Op2SELCC      -> "SEL"
                      [] GetOp2(u) = Op2PREDBLOCKS -> BlockIccOpcode(u)
                      [] OTHER                     -> V8Format2(u)
           preg == CASE GetOp2(u) = Op2HWLOOP     -> HwloopOpcode(u)
                     [] GetOp2(u) = Op2SELCC      -> "SEL"
                     [] GetOp2(u) = Op2PREDBLOCKS -> BlockPregOpcode(u)
                     [] OTHER                     -> V8Format2(u)
<1>2. GetOp(u) = 0 => movcc = V8Format2(u) /\ selcc = V8Format2(u) /\ preg = V8Format2(u)
  BY <1>1 DEF Op2HWLOOP, Op2MOVCC, Op2SELCC, Op2PREDBLOCKS
<1>3. MovccOpcode(u) = Opcode(u, movcc) /\ SelccOpcode(u) = Opcode(u, selcc) /\ PregOpcode(u) = Opcode(u, preg)
  BY DEF MovccOpcode, SelccOpcode, PregOpcode
<1> HIDE DEF movcc, selcc, preg
<1>4. MovccOpcode(u) = i.op /\ SelccOpcode(u) = i.op /\ PregOpcode(u) = i.op
  BY <1>1, <1>2, <1>3, BaseOpcode DEF V8Opcode
<1>5. \A op : op \notin ExtensionOps =>
        /\ MovccDecoded(op, u, n) = V8Decoded(op, u, n)
        /\ SelccDecoded(op, u, n) = V8Decoded(op, u, n)
        /\ PregDecoded(op, u, n) = V8Decoded(op, u, n)
  BY DEF MovccDecoded, SelccDecoded, PregDecoded, ExtensionOps, PredicationOps
<1>6. /\ MovccDecoded(MovccOpcode(u), u, n) = Meant(i)
      /\ SelccDecoded(SelccOpcode(u), u, n) = Meant(i)
      /\ PregDecoded(PregOpcode(u), u, n) = Meant(i)
      /\ V8Decoded(V8Opcode(u), u, n) = Meant(i)
  BY <1>1, <1>4, <1>5
<1> QED
  BY <1>6 DEF Decoded, Targets

\* the base instructions are encoded alike for every target
LEMMA BaseEncoded ==
  ASSUME NEW i, i.op \notin ExtensionOps, NEW n
  PROVE  \A t \in Targets : Encoded(t, i, n) = V8WithOperands(V8OpcodeWord(i.op), i.op, i.operands, n)
<1> DEFINE op == i.op
           o == i.operands
<1>1. op \notin ExtensionOps
  OBVIOUS
<1> HIDE DEF op, o
<1>2. MovccOpcodeWord(op) = V8OpcodeWord(op) /\ SelccOpcodeWord(op) = V8OpcodeWord(op) /\ PregOpcodeWord(op) = V8OpcodeWord(op)
  BY <1>1 DEF MovccOpcodeWord, SelccOpcodeWord, PregOpcodeWord, ExtensionOps, PredicationOps
<1>3. \A w : /\ MovccWithOperands(w, op, o, n) = V8WithOperands(w, op, o, n)
             /\ SelccWithOperands(w, op, o, n) = V8WithOperands(w, op, o, n)
             /\ PregWithOperands(w, op, o, n) = V8WithOperands(w, op, o, n)
  BY <1>1 DEF MovccWithOperands, SelccWithOperands, PregWithOperands, ExtensionOps, PredicationOps
<1> QED
  BY <1>2, <1>3 DEF Encoded, Targets, op, o

\* an extension's word, for the targets that have it
LEMMA ExtensionOpcodes ==
  ASSUME NEW u
  PROVE  /\ ExtensionWord(u, 1) => /\ MovccOpcode(u) = HwloopOpcode(u) /\ SelccOpcode(u) = HwloopOpcode(u)
                                   /\ PregOpcode(u) = HwloopOpcode(u)
         /\ ExtensionWord(u, 3) => /\ MovccOpcode(u) = "MOV" /\ SelccOpcode(u) = "SEL"
                                   /\ PregOpcode(u) = "SEL"
         /\ ExtensionWord(u, 5) => /\ MovccOpcode(u) = BlockIccOpcode(u) /\ SelccOpcode(u) = BlockIccOpcode(u)
                                   /\ PregOpcode(u) = BlockPregOpcode(u)
BY DEF ExtensionWord, MovccOpcode, SelccOpcode, PregOpcode, Opcode, Op2HWLOOP, Op2MOVCC, Op2SELCC, Op2PREDBLOCKS

LEMMA MovccExtensions ==
  ASSUME NEW w, NEW o, NEW n
  PROVE  /\ MovccOpcodeWord("HWLOOP_START") = FormatWord(0, 1) /\ MovccOpcodeWord("HWLOOP_INIT") = FormatWord(0, 1)
         /\ MovccOpcodeWord("MOV") = FormatWord(0, 3)
         /\ \A op \in {"PREDBEGIN", "PREDEND"} : MovccOpcodeWord(op) = FormatWord(0, 5)
         /\ MovccWithOperands(w, "HWLOOP_START", o, n) = SetRd(w, LoopTypeStart)
         /\ MovccWithOperands(w, "HWLOOP_INIT", o, n) = WithLoopInit(w, o, n)
         /\ MovccWithOperands(w, "MOV", o, n) = WithMov(w, o)
         /\ \A op \in {"PREDBEGIN", "PREDEND"} : MovccWithOperands(w, op, o, n) = WithBlockIcc(w, op, o)
         /\ MovccDecoded("HWLOOP_START", w, n) = ZeroOperandInstr("HWLOOP_START")
         /\ MovccDecoded("HWLOOP_INIT", w, n) = DecodedHwloopInit(w, n)
         /\ MovccDecoded("MOV", w, n) = DecodedMov(w)
         /\ \A op \in {"PREDBEGIN", "PREDEND"} : MovccDecoded(op, w, n) = DecodedBlockIcc(op, w)
BY DEF MovccOpcodeWord, MovccWithOperands, MovccDecoded, Op2HWLOOP, Op2MOVCC, Op2PREDBLOCKS, PredicationOps

LEMMA SelccExtensions ==
  ASSUME NEW w, NEW o, NEW n
  PROVE  /\ SelccOpcodeWord("HWLOOP_START") = FormatWord(0, 1) /\ SelccOpcodeWord("HWLOOP_INIT") = FormatWord(0, 1)
         /\ SelccOpcodeWord("SEL") = FormatWord(0, 3)
         /\ \A op \in {"PREDBEGIN", "PREDEND"} : SelccOpcodeWord(op) = FormatWord(0, 5)
         /\ SelccWithOperands(w, "HWLOOP_START", o, n) = SetRd(w, LoopTypeStart)
         /\ SelccWithOperands(w, "HWLOOP_INIT", o, n) = WithLoopInit(w, o, n)
         /\ SelccWithOperands(w, "SEL", o, n) = WithSel(w, o)
         /\ \A op \in {"PREDBEGIN", "PREDEND"} : SelccWithOperands(w, op, o, n) = WithBlockIcc(w, op, o)
         /\ SelccDecoded("HWLOOP_START", w, n) = ZeroOperandInstr("HWLOOP_START")
         /\ SelccDecoded("HWLOOP_INIT", w, n) = DecodedHwloopInit(w, n)
         /\ SelccDecoded("SEL", w, n) = DecodedSel(w)
         /\ \A op \in {"PREDBEGIN", "PREDEND"} : SelccDecoded(op, w, n) = DecodedBlockIcc(op, w)
BY DEF SelccOpcodeWord, SelccWithOperands, SelccDecoded, Op2HWLOOP, Op2SELCC, Op2PREDBLOCKS, PredicationOps

LEMMA PregExtensions ==
  ASSUME NEW w, NEW o, NEW n
  PROVE  /\ PregOpcodeWord("HWLOOP_START") = FormatWord(0, 1) /\ PregOpcodeWord("HWLOOP_INIT") = FormatWord(0, 1)
         /\ PregOpcodeWord("SEL") = FormatWord(0, 3)
         /\ \A op \in PredicationOps : PregOpcodeWord(op) = FormatWord(0, 5)
         /\ PregWithOperands(w, "HWLOOP_START", o, n) = SetRd(w, LoopTypeStart)
         /\ PregWithOperands(w, "HWLOOP_INIT", o, n) = WithLoopInit(w, o, n)
         /\ PregWithOperands(w, "SEL", o, n) = WithSel(w, o)
         /\ \A op \in PredicationOps : PregWithOperands(w, op, o, n) = WithBlockPreg(w, op, o)
         /\ PregDecoded("HWLOOP_START", w, n) = ZeroOperandInstr("HWLOOP_START")
         /\ PregDecoded("HWLOOP_INIT", w, n) = DecodedHwloopInit(w, n)
         /\ PregDecoded("SEL", w, n) = DecodedSel(w)
         /\ \A op \in PredicationOps : PregDecoded(op, w, n) = DecodedBlockPreg(op, w)
BY DEF PregOpcodeWord, PregWithOperands, PregDecoded, Op2HWLOOP, Op2SELCC, Op2PREDBLOCKS, PredicationOps

\* what a target makes of an instruction, and what it reads back, in the target's
\* own functions
LEMMA TargetFunctions ==
  ASSUME NEW i, NEW u, NEW n
  PROVE  /\ Encoded("v8-blockicc-movcc", i, n) = MovccWithOperands(MovccOpcodeWord(i.op), i.op, i.operands, n)
         /\ Encoded("v8-blockicc-selcc", i, n) = SelccWithOperands(SelccOpcodeWord(i.op), i.op, i.operands, n)
         /\ Encoded("v8-blockpreg-selcc", i, n) = PregWithOperands(PregOpcodeWord(i.op), i.op, i.operands, n)
         /\ Decoded("v8-blockicc-movcc", u, n) = MovccDecoded(MovccOpcode(u), u, n)
         /\ Decoded("v8-blockicc-selcc", u, n) = SelccDecoded(SelccOpcode(u), u, n)
         /\ Decoded("v8-blockpreg-selcc", u, n) = PregDecoded(PregOpcode(u), u, n)
BY DEF Encoded, Decoded

\* the instruction survives its encoding for target t
ReadBack(t, i, n) == Encoded(t, i, n) \in WordType /\ Decoded(t, Encoded(t, i, n), n) = Meant(i)

LEMMA LoopReadBack ==
  ASSUME NEW i, IsResolved(i), i.op \in {"HWLOOP_INIT", "HWLOOP_START"}, InRange(i),
         NEW n \in Int, InReach(i, n)
  PROVE  \A t \in HasHWLoops : ReadBack(t, i, n)
<1> DEFINE w == FormatWord(0, 1)
<1>1. HasHWLoops = {"v8-blockicc-movcc", "v8-blockicc-selcc", "v8-blockpreg-selcc"}
  BY DEF HasHWLoops, Targets
<1>2. CASE i.op = "HWLOOP_INIT"
  <2> DEFINE u == WithLoopInit(w, i.operands, n)
  <2>1. LoopReads(u, i, n)
    BY <1>2, LoopRoundTrip
  <2>2. \A t \in HasHWLoops : Encoded(t, i, n) = u
    BY <1>1, <1>2, TargetFunctions, MovccExtensions, SelccExtensions, PregExtensions
  <2> HIDE DEF u
  <2>3. ExtensionWord(u, 1) /\ HwloopOpcode(u) = "HWLOOP_INIT" /\ DecodedHwloopInit(u, n) = Meant(i)
    BY <1>2, <2>1 DEF LoopReads
  <2>4. \A t \in HasHWLoops : Decoded(t, u, n) = Meant(i)
    BY <1>1, <2>3, ExtensionOpcodes, TargetFunctions, MovccExtensions, SelccExtensions, PregExtensions
  <2> QED
    BY <2>2, <2>3, <2>4 DEF ReadBack, ExtensionWord
<1>3. CASE i.op = "HWLOOP_START"
  <2> DEFINE u == SetRd(w, LoopTypeStart)
  <2>1. i.operands = << >>
    BY <1>3, ResolvedShape, ExtensionOperands
  <2>2. i = Instruction("HWLOOP_START", << >>)
    BY <1>3, <2>1, ResolvedShape DEF Instruction
  <2>3. LoopReads(u, i, n)
    BY <2>2, LoopStartDecoded
  <2>4. Meant(i) = ZeroOperandInstr("HWLOOP_START")
    BY <1>3, <2>2 DEF Meant, ZeroOperandInstr
  <2>5. \A t \in HasHWLoops : Encoded(t, i, n) = u
    BY <1>1, <1>3, TargetFunctions, MovccExtensions, SelccExtensions, PregExtensions
  <2> HIDE DEF u
  <2>6. ExtensionWord(u, 1) /\ HwloopOpcode(u) = "HWLOOP_START"
    BY <1>3, <2>3 DEF LoopReads
  <2>7. \A t \in HasHWLoops : Decoded(t, u, n) = Meant(i)
    BY <1>1, <2>4, <2>6, ExtensionOpcodes, TargetFunctions, MovccExtensions, SelccExtensions, PregExtensions
  <2> QED
    BY <2>5, <2>6, <2>7 DEF ReadBack, ExtensionWord
<1> QED
  BY <1>2, <1>3

LEMMA SelReadBack ==
  ASSUME NEW i, IsResolved(i), i.op = "SEL", InRange(i), NEW n \in Int
  PROVE  \A t \in HasSelCC : ReadBack(t, i, n)
<1> DEFINE u == WithSel(FormatWord(0, 3), i.operands)
<1>1. SelReads(u, i)
  BY SelRoundTrip
<1>2. \A t \in HasSelCC : Encoded(t, i, n) = u
  BY TargetFunctions, SelccExtensions, PregExtensions DEF HasSelCC
<1> HIDE DEF u
<1>3. ExtensionWord(u, 3) /\ DecodedSel(u) = Meant(i)
  BY <1>1 DEF SelReads
<1>4. \A t \in HasSelCC : Decoded(t, u, n) = Meant(i)
  BY <1>3, ExtensionOpcodes, TargetFunctions, SelccExtensions, PregExtensions DEF HasSelCC
<1> QED
  BY <1>2, <1>3, <1>4 DEF ReadBack, ExtensionWord

LEMMA MovReadBack ==
  ASSUME NEW i, IsResolved(i), i.op = "MOV", NEW n \in Int
  PROVE  \A t \in HasMovCC : ReadBack(t, i, n)
<1> DEFINE u == WithMov(FormatWord(0, 3), i.operands)
<1>1. MovReads(u, i)
  BY MovRoundTrip
<1>2. \A t \in HasMovCC : Encoded(t, i, n) = u
  BY TargetFunctions, MovccExtensions DEF HasMovCC
<1> HIDE DEF u
<1>3. ExtensionWord(u, 3) /\ DecodedMov(u) = Meant(i)
  BY <1>1 DEF MovReads
<1>4. \A t \in HasMovCC : Decoded(t, u, n) = Meant(i)
  BY <1>3, ExtensionOpcodes, TargetFunctions, MovccExtensions DEF HasMovCC
<1> QED
  BY <1>2, <1>3, <1>4 DEF ReadBack, ExtensionWord

LEMMA BlockIccReadBack ==
  ASSUME NEW i, IsResolved(i), i.op \in {"PREDBEGIN", "PREDEND"},
         i.op = "PREDBEGIN" => i.operands[1].type = "ICC", NEW n \in Int
  PROVE  \A t \in HasPredBlocksCC : ReadBack(t, i, n)
<1> DEFINE u == WithBlockIcc(FormatWord(0, 5), i.op, i.operands)
<1>1. BlockIccReads(u, i)
  BY BlockIccRoundTrip
<1>2. \A t \in HasPredBlocksCC : Encoded(t, i, n) = u
  BY TargetFunctions, MovccExtensions, SelccExtensions DEF HasPredBlocksCC
<1> HIDE DEF u
<1>3. ExtensionWord(u, 5) /\ BlockIccOpcode(u) = i.op /\ DecodedBlockIcc(i.op, u) = Meant(i)
  BY <1>1 DEF BlockIccReads
<1>4. \A t \in HasPredBlocksCC : Decoded(t, u, n) = Meant(i)
  BY <1>3, ExtensionOpcodes, TargetFunctions, MovccExtensions, SelccExtensions DEF HasPredBlocksCC
<1> QED
  BY <1>2, <1>3, <1>4 DEF ReadBack, ExtensionWord

LEMMA BlockPregReadBack ==
  ASSUME NEW i, IsResolved(i), i.op \in PredicationOps,
         i.op = "PREDBEGIN" => i.operands[1].type # "ICC", NEW n \in Int
  PROVE  \A t \in HasPredBlocksReg : ReadBack(t, i, n)
<1> DEFINE u == WithBlockPreg(FormatWord(0, 5), i.op, i.operands)
<1>1. BlockPregReads(u, i)
  BY BlockPregRoundTrip
<1>2. \A t \in HasPredBlocksReg : Encoded(t, i, n) = u
  <2>1. PregOpcodeWord(i.op) = FormatWord(0, 5)
    BY PregExtensions
  <2>2. PregWithOperands(FormatWord(0, 5), i.op, i.operands, n) = u
    BY PregExtensions
  <2>3. Encoded("v8-blockpreg-selcc", i, n) = PregWithOperands(PregOpcodeWord(i.op), i.op, i.operands, n)
    BY TargetFunctions
  <2> QED
    BY <2>1, <2>2, <2>3 DEF HasPredBlocksReg
<1> HIDE DEF u
<1>3. /\ ExtensionWord(u, 5) /\ BlockPregOpcode(u) = Meant(i).op
      /\ DecodedBlockPreg(Meant(i).op, u) = Meant(i)
  BY <1>1 DEF BlockPregReads
<1>4. Meant(i).op \in PredicationOps
  BY DEF Meant, PredicationOps, PredRegInstr, Instruction
<1>5. \A t \in HasPredBlocksReg : Decoded(t, u, n) = Meant(i)
  <2>1. PregOpcode(u) = Meant(i).op
    BY <1>3, ExtensionOpcodes
  <2>2. PregDecoded(Meant(i).op, u, n) = DecodedBlockPreg(Meant(i).op, u)
    BY <1>4, PregExtensions
  <2>3. Decoded("v8-blockpreg-selcc", u, n) = PregDecoded(PregOpcode(u), u, n)
    BY TargetFunctions
  <2> QED
    BY <1>3, <2>1, <2>2, <2>3 DEF HasPredBlocksReg
<1> QED
  BY <1>2, <1>3, <1>5 DEF ReadBack, ExtensionWord

LEMMA BaseReadBack ==
  ASSUME NEW i, IsResolved(i), i.op \notin ExtensionOps, InRange(i), NEW n \in Int, InReach(i, n)
  PROVE  \A t \in Targets : ReadBack(t, i, n)
<1> DEFINE u == V8WithOperands(V8OpcodeWord(i.op), i.op, i.operands, n)
<1>1. V8Reads(u, i, n)
  BY V8RoundTrip
<1>2. \A t \in Targets : Encoded(t, i, n) = u
  BY BaseEncoded
<1> HIDE DEF u
<1> QED
  BY <1>1, <1>2, BaseDecodes DEF ReadBack, V8Reads

(***************************************************************************)
(* The decoder of every target reads what the encoder of that target has   *)
(* written, if the target supports the instruction, its immediates are in  *)
(* the range the assembler checks and its displacement, which nobody       *)
(* checks, fits into its field.                                            *)
(***************************************************************************)
LEMMA AllReadBack ==
  ASSUME NEW t \in Targets, NEW i, IsResolved(i), NEW guard, Supported(t, i, guard), InRange(i),
         Encodable(t, i), NEW n \in Int, InReach(i, n)
  PROVE  ReadBack(t, i, n)
<1> DEFINE op == i.op
           o == i.operands
<1>1. op \in Opcodes /\ o \in OperandLists(op, AddressOperands, {})
  BY ResolvedShape
<1>2. /\ op = "MOV" => t \in HasMovCC
      /\ op = "SEL" => t \in HasSelCC
      /\ op \in {"HWLOOP_INIT", "HWLOOP_START"} => t \in HasHWLoops
      /\ op = "PREDBEGIN" => t \in IF o[1].type = "ICC" THEN HasPredBlocksCC ELSE HasPredBlocksReg
      /\ op \in {"PREDSET", "PREDCLEAR"} => t \in HasPredBlocksReg
  BY DEF Supported, HasPredInstrsReg
<1>3. HasPredBlocksCC \cap HasPredBlocksReg = {}
  BY DEF HasPredBlocksCC, HasPredBlocksReg
<1>4. op = "PREDEND" => t \in HasPredBlocksCC \cup HasPredBlocksReg
  <2>1. op = "PREDEND" => Len(o) = 0
    BY <1>1, ExtensionOperands
  <2>2. op = "PREDEND" => t # "v8"
    BY <2>1 DEF Encodable, V8Encodable
  <2> QED
    BY <2>2 DEF Targets, HasPredBlocksCC, HasPredBlocksReg
<1>5. CASE op \notin ExtensionOps
  BY <1>5, BaseReadBack
<1>6. CASE op \in {"HWLOOP_INIT", "HWLOOP_START"}
  BY <1>2, <1>6, LoopReadBack
<1>7. CASE op = "SEL"
  BY <1>2, <1>7, SelReadBack
<1>8. CASE op = "MOV"
  BY <1>2, <1>8, MovReadBack
<1>9. CASE op \in PredicationOps
  <2>1. CASE t \in HasPredBlocksCC
    <3>1. op \in {"PREDBEGIN", "PREDEND"} /\ (op = "PREDBEGIN" => o[1].type = "ICC")
      BY <1>2, <1>3, <1>9, <2>1 DEF PredicationOps
    <3> QED
      BY <2>1, <3>1, BlockIccReadBack
  <2>2. CASE t \in HasPredBlocksReg
    <3>1. op = "PREDBEGIN" => o[1].type # "ICC"
      BY <1>2, <1>3, <2>2
    <3> QED
      BY <1>9, <2>2, <3>1, BlockPregReadBack
  <2> QED
    BY <1>2, <1>4, <1>9, <2>1, <2>2 DEF PredicationOps
<1> QED
  BY <1>5, <1>6, <1>7, <1>8, <1>9 DEF ExtensionOps, PredicationOps

LEMMA ReachesInReach ==
  ASSUME NEW i, NEW n \in Int, Reaches(i, n)
  PROVE  InReach(i, n)
<1> SUFFICES ASSUME NEW k \in DOMAIN i.operands, i.operands[k].type = "LABEL_ADDRESS"
             PROVE  LET d == i.operands[k].value - n IN
                    IF i.op = "CALL" THEN -TwoTo(29) <= d /\ d < TwoTo(29) ELSE -TwoTo(21) <= d /\ d < TwoTo(21)
  BY DEF InReach
<1> DEFINE d == i.operands[k].value - n
<1>1. d \in SignedField(IF i.op = "CALL" THEN 30 ELSE 22)
  BY DEF Reaches
<1> HIDE DEF d
<1>2. 30 - 1 = 29 /\ 22 - 1 = 21
  OBVIOUS
<1>3. \A v \in SignedField(30) : -TwoTo(29) <= v /\ v < TwoTo(29)
  BY <1>2, SignedRange
<1>4. \A v \in SignedField(22) : -TwoTo(21) <= v /\ v < TwoTo(21)
  BY <1>2, SignedRange
<1>5. CASE i.op = "CALL"
  <2>1. -TwoTo(29) <= d /\ d < TwoTo(29)
    BY <1>1, <1>3, <1>5
  <2> QED
    BY <1>5, <2>1 DEF d
<1>6. CASE i.op # "CALL"
  <2>1. -TwoTo(21) <= d /\ d < TwoTo(21)
    BY <1>1, <1>4, <1>6
  <2> QED
    BY <1>6, <2>1 DEF d
<1> QED
  BY <1>5, <1>6
-----------------------------------------------------------------------------
(* One instruction on its way through the codec *)
CodecOK ==
  /\ codecTarget \in Targets /\ position \in Int
  /\ IsResolved(instruction) /\ Reaches(instruction, position)
  /\ Supported(codecTarget, instruction, "none") /\ InRange(instruction) /\ Encodable(codecTarget, instruction)
  /\ wordBytes # << >> => wordBytes = WordBytes(Encoded(codecTarget, instruction, position))
  /\ decoded # << >> => decoded[1] = Meant(instruction)

LEMMA CodecStep ==
  ASSUME CodecOK, [CodecNext]_codecVars
  PROVE  CodecOK'
<1>1. CASE PrintInstruction
  BY <1>1 DEF PrintInstruction, CodecOK
<1>2. CASE DecodeWord
  <2> DEFINE w == Encoded(codecTarget, instruction, position)
  <2>1. /\ wordBytes # << >> /\ decoded' = <<Decoded(codecTarget, WordOf(wordBytes), position)>>
        /\ codecTarget' = codecTarget /\ instruction' = instruction /\ position' = position /\ wordBytes' = wordBytes
    BY <1>2 DEF DecodeWord
  <2>2. InReach(instruction, position)
    BY ReachesInReach DEF CodecOK
  <2>3. ReadBack(codecTarget, instruction, position)
    BY <2>2, AllReadBack DEF CodecOK
  <2>4. w \in WordType /\ Decoded(codecTarget, w, position) = Meant(instruction)
    BY <2>3 DEF ReadBack
  <2> HIDE DEF w
  <2>5. WordOf(wordBytes) = w
    BY <2>1, <2>4, WordRead DEF CodecOK, w
  <2>6. decoded'[1] = Meant(instruction)
    BY <2>1, <2>4, <2>5
  <2> QED
    BY <2>1, <2>6 DEF CodecOK
<1>3. CASE UNCHANGED codecVars
  BY <1>3 DEF codecVars, CodecOK
<1> QED
  BY <1>1, <1>2, <1>3 DEF CodecNext

(***************************************************************************)
(* Whatever instruction the assembler accepts and encodes for a target,    *)
(* the decoder of that target makes of the four bytes what it means, at    *)
(* every position and for every operand: as long as displacements, which   *)
(* the assembler does not check, fit into their fields.                    *)
(***************************************************************************)
THEOREM DecodesAlways ==
  CodecSpec => []DecodesAsWritten
<1>1. CodecInit => CodecOK
  BY CodecAssumption DEF CodecInit, CodecOK
<1>2. CodecOK /\ [CodecNext]_codecVars => CodecOK'
  BY CodecStep
<1>3. CodecOK => DecodesAsWritten
  BY DEF CodecOK, DecodesAsWritten
<1> QED
  BY <1>1, <1>2, <1>3, PTL DEF CodecSpec
-----------------------------------------------------------------------------
(* What the assembler has checked of a source holds of what the source means *)

\* only sethi takes the high part of a label
LEMMA HighPartOfSethi ==
  ASSUME NEW labs, NEW o \in OperandLists("HWLOOP_INIT", OperandsOf("LABEL", labs), labs), NEW k \in DOMAIN o
  PROVE  o[k].type # "HI_LABEL"
<1>1. o \in OperandsOf("LOOP_REG", {LoopS, LoopE}) \X OperandsOf("LABEL", labs)
        \/ o \in OperandsOf("LOOP_REG", {LoopB}) \X (RegisterOperands \cup OperandsOf("IMM22", Int))
  BY DEF OperandLists
<1>2. DOMAIN o = {1, 2}
  BY <1>1, Pairs
<1>3. o[1].type = "LOOP_REG" /\ o[2].type \in {"LABEL", "REGISTER", "IMM22"}
  BY <1>1 DEF OperandsOf, RegisterOperands
<1> QED
  BY <1>2, <1>3

LEMMA HighPart ==
  ASSUME NEW v \in Int
  PROVE  (v \div LowRange) % 2^22 \in UnsignedField(22)
<1>1. v \div LowRange \in Int
  BY LowRangeAssumption
<1>2. \A u \in Int : u % 2^22 \in 0 .. 2^22 - 1
  BY SMT
<1> QED
  BY <1>1, <1>2 DEF UnsignedField

LEMMA ResolvedInRange ==
  ASSUME NEW i, IsInstruction(i, Labels), InRange(i), 0 .. LowRange - 1 \subseteq SignedField(13),
         NEW address, \A l \in ReferencesOf(i) : address[l] \in Int
  PROVE  InRange(Resolved(i, address))
<1>1. PICK op \in Opcodes : i \in [op : {op}, operands : OperandLists(op, OperandsOf("LABEL", Labels), Labels)]
  BY DEF IsInstruction
<1>2. i = [op |-> op, operands |-> i.operands]
      /\ i.operands \in OperandLists(op, OperandsOf("LABEL", Labels), Labels)
  BY <1>1
<1> DEFINE o == i.operands
           new == [k \in DOMAIN o |-> ResolvedOperand(o[k], address)]
<1>3. Resolved(i, address).op = i.op /\ Resolved(i, address).operands = new
  BY <1>2 DEF Resolved
<1> SUFFICES ASSUME NEW k \in DOMAIN o
             PROVE  /\ new[k].type = "SIMM13" => new[k].value \in SignedField(13)
                    /\ new[k].type = "SIMM11" => new[k].value \in SignedField(11)
                    /\ new[k].type = "SIMM8" => new[k].value \in SignedField(8)
                    /\ new[k].type = "IMM22" /\ i.op = "SETHI" => new[k].value \in UnsignedField(22)
                    /\ new[k].type = "IMM22" /\ i.op = "HWLOOP_INIT" => new[k].value \in SignedField(22)
  BY <1>3 DEF InRange
<1> DEFINE x == o[k]
<1>4. new[k] = ResolvedOperand(x, address)
  OBVIOUS
<1>5. x.type \in LabelTypes => address[x.value] \in Int
  BY DEF ReferencesOf
<1>6. x.type = "HI_LABEL" => i.op # "HWLOOP_INIT"
  BY <1>2, HighPartOfSethi
<1>7. /\ x.type = "SIMM13" => x.value \in SignedField(13)
      /\ x.type = "SIMM11" => x.value \in SignedField(11)
      /\ x.type = "SIMM8" => x.value \in SignedField(8)
      /\ x.type = "IMM22" /\ i.op = "SETHI" => x.value \in UnsignedField(22)
      /\ x.type = "IMM22" /\ i.op = "HWLOOP_INIT" => x.value \in SignedField(22)
  BY DEF InRange
<1> HIDE DEF new, x
<1>8. CASE x.type = "LABEL"
  BY <1>4, <1>8 DEF ResolvedOperand, Operand
<1>9. CASE x.type = "HI_LABEL"
  <2>1. PICK u : u = (address[x.value] \div LowRange) % 2^22
    OBVIOUS
  <2>2. new[k] = Operand("IMM22", u)
    BY <1>4, <1>9, <2>1, Zenon DEF ResolvedOperand
  <2>3. PICK v \in Int : v = address[x.value]
    BY <1>5, <1>9 DEF LabelTypes
  <2>4. u = (v \div LowRange) % 2^22
    BY <2>1, <2>3, Zenon
  <2>5. u \in UnsignedField(22)
    BY <2>4, HighPart, Zenon
  <2>6. new[k].type = "IMM22" /\ new[k].value = u
    BY <2>2 DEF Operand
  <2> QED
    BY <1>6, <1>9, <2>5, <2>6
<1>10. CASE x.type = "LOW_LABEL"
  <2>1. new[k] = Operand("SIMM13", address[x.value] % LowRange)
    BY <1>4, <1>10 DEF ResolvedOperand
  <2>2. address[x.value] % LowRange \in 0 .. LowRange - 1
    <3>1. address[x.value] \in Int
      BY <1>5, <1>10 DEF LabelTypes
    <3> QED
      BY <3>1, LowRangeAssumption
  <2> QED
    BY <2>1, <2>2 DEF Operand
<1>11. CASE x.type \notin {"LABEL", "HI_LABEL", "LOW_LABEL"}
  BY <1>4, <1>7, <1>11 DEF ResolvedOperand
<1> QED
  BY <1>8, <1>9, <1>10, <1>11
-----------------------------------------------------------------------------
(* The memory and the instructions are those of the file *)

FileWord(bytes, k) == WordOf(Bytes(bytes, 11 + header.memory + 4 * (k - 1), 4))

Filled(bytes) ==
  /\ stage \in {"memory", "instructions", "running"} => memory = Bytes(bytes, 11, header.memory)
  /\ stage \in {"instructions", "running"} =>
       /\ header.instructions = 4 * numInstructions
       /\ \A k \in 1 .. Len(program) : program[k] = Decoded(simTarget, FileWord(bytes, k), k - 1)
  /\ stage = "running" => Len(program) = numInstructions

LEMMA FilledStep ==
  ASSUME LoaderTyped, NEW bytes \in Seq(Byte), Filled(bytes), LoaderNext(bytes)
  PROVE  Filled(bytes)'
<1>1. ASSUME NEW end \in {"failed", "finished"}, CleanUpTo(end)
      PROVE  Filled(bytes)'
  <2>1. stage' \in {"failed", "finished", "undefined"}
    BY <1>1 DEF CleanUpTo
  <2> QED
    BY <2>1 DEF Filled
<1>2. CASE StartSimulator \/ ReadFileHeader(bytes) \/ CheckTargetID
  <2>1. stage' \in {"start", "header", "checked"} \/ CleanUpTo("failed")
    BY <1>2 DEF StartSimulator, ReadFileHeader, CheckTargetID
  <2>2. ASSUME stage' \in {"start", "header", "checked"}
        PROVE  Filled(bytes)'
    BY <2>2 DEF Filled
  <2> QED
    BY <1>1, <2>1, <2>2
<1>3. CASE ReadMemory(bytes)
  <2>1. \/ stage' = "memory" /\ memory' = Bytes(bytes, 11, header.memory) /\ header' = header
        \/ CleanUpTo("failed")
    BY <1>3 DEF ReadMemory
  <2>2. ASSUME stage' = "memory", memory' = Bytes(bytes, 11, header.memory), header' = header
        PROVE  Filled(bytes)'
    BY <2>2 DEF Filled
  <2> QED
    BY <1>1, <2>1, <2>2
<1>4. CASE AllocateInstructions
  <2>1. CASE header.instructions % 4 = 0
    <3>1. /\ stage = "memory" /\ stage' = "instructions" /\ header' = header /\ memory' = memory
          /\ program' = program /\ numInstructions' = header.instructions \div 4
      BY <1>4, <2>1 DEF AllocateInstructions
    <3>2. header.instructions = 4 * numInstructions'
      BY <2>1, <3>1 DEF LoaderTyped
    <3>3. Len(program') = 0
      <4>1. program' = << >> /\ Len(<< >>) = 0
        BY <3>1 DEF LoaderTyped
      <4> QED
        BY <4>1
    <3> QED
      BY <3>1, <3>2, <3>3 DEF Filled
  <2> QED
    BY <1>1, <1>4, <2>1 DEF AllocateInstructions
<1>5. CASE ReadInstruction(bytes)
  <2> DEFINE first == 11 + header.memory + 4 * Len(program)
             next == Decoded(simTarget, WordOf(Bytes(bytes, first, 4)), Len(program))
  <2>1. CASE Readable(bytes, first + 3) /\ next.op # "UNKNOWN"
    <3>1. /\ stage = "instructions" /\ stage' = "instructions" /\ simTarget' = simTarget /\ header' = header
          /\ memory' = memory /\ program' = Append(program, next) /\ numInstructions' = numInstructions
      BY <1>5, <2>1 DEF ReadInstruction
    <3>2. PICK S : program \in Seq(S)
      BY DEF LoaderTyped
    <3>3. PICK len \in Nat : len = Len(program)
      BY <3>2
    <3>4. (len + 1) - 1 = len
      OBVIOUS
    <3>5. next = Decoded(simTarget, FileWord(bytes, len + 1), (len + 1) - 1)
      BY <3>3, <3>4 DEF FileWord
    <3> HIDE DEF next
    <3>6. /\ Len(program') = len + 1
          /\ \A k \in 1 .. len : program'[k] = program[k]
          /\ program'[len + 1] = next
      <4>1. program \in Seq(S \cup {next}) /\ next \in S \cup {next}
        BY <3>2
      <4>2. /\ Len(Append(program, next)) = Len(program) + 1
            /\ \A k \in 1 .. Len(program) : Append(program, next)[k] = program[k]
            /\ Append(program, next)[Len(program) + 1] = next
        BY ONLY <4>1, AppendProperties
      <4> QED
        BY <3>1, <3>3, <4>2
    <3>7. ASSUME NEW k \in 1 .. len + 1
          PROVE  program'[k] = Decoded(simTarget, FileWord(bytes, k), k - 1)
      <4>1. CASE k \in 1 .. len
        BY <3>1, <3>3, <3>6, <4>1 DEF Filled
      <4>2. CASE k = len + 1
        BY <3>5, <3>6, <4>2
      <4> QED
        BY <4>1, <4>2
    <3>8. \A k : FileWord(bytes, k)' = FileWord(bytes, k)
      BY <3>1 DEF FileWord
    <3> QED
      BY <3>1, <3>6, <3>7, <3>8 DEF Filled
  <2>2. CASE ~(Readable(bytes, first + 3) /\ next.op # "UNKNOWN")
    <3>1. CleanUpTo("failed")
      BY <1>5, <2>2 DEF ReadInstruction
    <3> QED
      BY <1>1, <3>1
  <2> QED
    BY <2>1, <2>2
<1>6. CASE StartSimulation
  <2>1. /\ stage = "instructions" /\ stage' = "running" /\ simTarget' = simTarget /\ header' = header
        /\ memory' = memory /\ program' = program /\ numInstructions' = numInstructions
        /\ Len(program) = numInstructions
    BY <1>6 DEF StartSimulation
  <2> QED
    BY <2>1 DEF Filled, FileWord
<1>7. CASE FinishSimulation
  BY <1>1, <1>7 DEF FinishSimulation
<1> QED
  BY <1>2, <1>3, <1>4, <1>5, <1>6, <1>7 DEF LoaderNext

\* of the file that has been handed over
BinaryFilled == binary # << >> => Filled(binary[1])

LEMMA BinaryFilledStep ==
  ASSUME ToolchainOK, BinaryFilled, [ToolchainNext]_toolchain
  PROVE  BinaryFilled'
<1>1. ASSUME UNCHANGED <<loader, binary>>
      PROVE  BinaryFilled'
  BY <1>1 DEF loader, BinaryFilled, Filled, FileWord
<1>2. CASE HandOver
  <2>1. stage = "off" /\ stage' = stage
    BY <1>2 DEF HandOver, loader, ToolchainOK, LoaderOK
  <2> QED
    BY <2>1 DEF BinaryFilled, Filled
<1>3. CASE Simulate
  <2>1. /\ binary # << >> /\ LoaderNext(binary[1]) /\ binary' = binary
    BY <1>3 DEF Simulate
  <2>2. PICK bytes \in Seq(Byte) : binary[1] = bytes
    BY <2>1 DEF ToolchainOK, LoaderOK, HandedOver
  <2>3. Filled(bytes)'
    BY <2>1, <2>2, FilledStep DEF ToolchainOK, LoaderOK, BinaryFilled
  <2>4. binary'[1] = bytes
    BY <2>1, <2>2
  <2> QED
    BY <2>3, <2>4 DEF BinaryFilled
<1> QED
  BY <1>1, <1>2, <1>3 DEF ToolchainNext, Assemble, toolchain
-----------------------------------------------------------------------------
(* What the loader finds in the file of the assembler *)

\* the displacements of the program fit into their fields, which nobody checks
DisplacementsFit ==
  \A k \in DOMAIN MeantInstructions(source) : Reaches(MeantInstructions(source)[k], k - 1)

LEMMA PartOfFile ==
  ASSUME NEW b \in Seq(Byte), NEW first \in Nat \ {0}, NEW n \in Nat, first + n - 1 <= Len(b)
  PROVE  Bytes(b, first, n) = [k \in 1 .. n |-> b[first + k - 1]]
<1>1. Bytes(b, first, n) = SubSeq(b, first, first + n - 1)
  BY DEF Bytes
<1>2. (first + n - 1) - first + 1 = n
  OBVIOUS
<1>3. \A k \in 1 .. n : k + first - 1 = first + k - 1
  OBVIOUS
<1> QED
  BY <1>1, <1>2, <1>3

LEMMA BytesOfWord ==
  ASSUME NEW words \in Seq(WordType), NEW k \in 1 .. Len(words), NEW j \in 1 .. 4
  PROVE  BytesOf(words)[4 * (k - 1) + j] = WordBytes(words[k])[j]
<1> DEFINE b == 4 * (k - 1) + j
<1>1. b \in 1 .. 4 * Len(words) /\ (b + 3) \div 4 = k /\ 1 + ((b - 1) % 4) = j
  OBVIOUS
<1> HIDE DEF b
<1>2. BytesOf(words)[b] = WordBytes(words[k])[j]
  BY <1>1 DEF BytesOf
<1> QED
  BY <1>2 DEF b

LEMMA WordInFile ==
  ASSUME NEW b \in Seq(Byte), NEW words \in Seq(WordType), NEW first \in Nat \ {0},
         Holds(b, first, BytesOf(words)), first + 4 * Len(words) - 1 <= Len(b),
         NEW k \in 1 .. Len(words)
  PROVE  WordOf(Bytes(b, first + 4 * (k - 1), 4)) = words[k]
<1>1. PICK n \in Nat : n = Len(words)
  OBVIOUS
<1>2. words[k] \in WordType
  OBVIOUS
<1>3. WordBytes(words[k]) \in [1 .. 4 -> Byte]
  BY <1>2, WordBytesType DEF Byte
<1>4. PICK f \in Nat \ {0} : f = first + 4 * (k - 1)
  BY <1>1
<1>5. f + 4 - 1 <= Len(b)
  <2>1. k <= n /\ k \in Nat /\ Len(b) \in Nat
    BY <1>1
  <2> QED
    BY <1>1, <1>4, <2>1
<1>6. ASSUME NEW j \in 1 .. 4
      PROVE  b[f + j - 1] = WordBytes(words[k])[j]
  <2>1. Len(BytesOf(words)) = 4 * n
    BY <1>1, BytesOfType
  <2>2. 4 * (k - 1) + j \in 1 .. 4 * n /\ first + (4 * (k - 1) + j) - 1 = f + j - 1
    BY <1>1, <1>4
  <2>3. b[first + (4 * (k - 1) + j) - 1] = BytesOf(words)[4 * (k - 1) + j]
    BY <2>1, <2>2 DEF Holds
  <2> QED
    BY <2>2, <2>3, BytesOfWord
<1>7. Bytes(b, f, 4) = WordBytes(words[k])
  <2>1. Bytes(b, f, 4) = [j \in 1 .. 4 |-> b[f + j - 1]]
    BY <1>5, PartOfFile
  <2> QED
    BY <1>3, <1>6, <2>1
<1> QED
  BY <1>2, <1>4, <1>7, WordRead

\* an instruction of the program, from the source to the array of the simulator
LEMMA InstructionReadBack ==
  ASSUME NEW s, IsSource(s), NEW t \in Targets, NEW i, MeantStatement(s, t, i), Encodable(t, i),
         NEW n \in Int, Reaches(i, n), 0 .. LowRange - 1 \subseteq SignedField(13)
  PROVE  Encoded(t, i, n) \in WordType /\ Decoded(t, Encoded(t, i, n), n) = Meant(i)
<1>1. PICK m \in Positions(s, {"instruction"}) :
        /\ i = Resolved(s[m].instruction, AddressOf(s))
        /\ IsInstruction(s[m].instruction, Labels)
        /\ InRange(s[m].instruction) /\ Supported(t, s[m].instruction, s[m].guard)
        /\ \A l \in ReferencesOf(s[m].instruction) : AddressOf(s)[l] \in Int
  BY DEF MeantStatement
<1>2. IsResolved(i) /\ InRange(i) /\ Supported(t, i, s[m].guard)
  BY <1>1, ResolvedType, ResolvedInRange, SupportedResolved
<1>3. ReadBack(t, i, n)
  BY <1>2, ReachesInReach, AllReadBack
<1> QED
  BY <1>3 DEF ReadBack

\* the parts of a file in the arrays of the simulator
LEMMA FilledFrom ==
  ASSUME NEW b \in Seq(Byte), NEW id, NEW m \in Seq(Byte), NEW words \in Seq(WordType),
         Laid(b, id, m, BytesOf(words)), Len(b) < 10 + BlankSize,
         stage = "running", Loading(b), Filled(b), LoaderTyped
  PROVE  /\ memory = m
         /\ program \in [1 .. Len(words) -> {Decoded(simTarget, words[k], k - 1) : k \in 1 .. Len(words)}]
         /\ \A k \in 1 .. Len(words) : program[k] = Decoded(simTarget, words[k], k - 1)
<1>1. PICK lm \in Nat, n \in Nat, lb \in Nat : lm = Len(m) /\ n = Len(words) /\ lb = Len(b)
  OBVIOUS
<1>2. BytesOf(words) \in Seq(Byte) /\ Len(BytesOf(words)) = 4 * n
  BY <1>1, BytesOfType DEF Byte
<1>3. lb = 10 + lm + 4 * n
  BY <1>1, <1>2 DEF Laid
<1>4. 10 <= Len(b) /\ 4 * n \in Nat
  BY <1>1, <1>3, SMT
<1>12. lm < 4294967296 /\ 4 * n < 4294967296
  BY <1>1, <1>3, SMT DEF BlankSize
<1>5. header.memory = lm
  <2>1. Holds(b, 3, Field(lm, 4))
    BY <1>1 DEF Laid
  <2>2. UInt32(Bytes(b, 3, 4)) = lm
    BY <1>4, <1>12, <2>1, HeldNumbers, SMT
  <2> QED
    BY <2>2 DEF Loading, AfterHeader
<1>6. header.instructions = 4 * n
  <2>1. PICK w \in Nat : w = 4 * n
    BY <1>4
  <2>2. Holds(b, 7, Field(w, 4))
    BY <1>2, <2>1 DEF Laid
  <2>3. UInt32(Bytes(b, 7, 4)) = w
    BY <1>4, <1>12, <2>1, <2>2, HeldNumbers, SMT
  <2> QED
    BY <2>1, <2>3 DEF Loading, AfterHeader
<1>7. memory = m
  <2>1. m \in [1 .. lm -> Byte] /\ 11 + lm - 1 <= Len(b)
    BY <1>1, <1>3
  <2>2. \A k \in 1 .. lm : b[11 + k - 1] = m[k]
    BY <1>1 DEF Laid, Holds
  <2>3. Bytes(b, 11, lm) = [k \in 1 .. lm |-> b[11 + k - 1]]
    BY <2>1, PartOfFile
  <2>4. Bytes(b, 11, lm) = m
    BY <2>1, <2>2, <2>3
  <2> QED
    BY <1>5, <2>4 DEF Filled
<1>8. PICK len \in Nat : len = Len(program) /\ len = n
  <2>1. header.instructions = 4 * numInstructions /\ Len(program) = numInstructions /\ numInstructions \in Nat
    BY DEF Filled, LoaderTyped
  <2> QED
    BY <1>6, <2>1
<1>9. ASSUME NEW k \in 1 .. n
      PROVE  program[k] = Decoded(simTarget, words[k], k - 1)
  <2>1. program[k] = Decoded(simTarget, FileWord(b, k), k - 1)
    BY <1>8 DEF Filled
  <2>2. /\ 11 + lm \in Nat \ {0} /\ Holds(b, 11 + lm, BytesOf(words))
        /\ (11 + lm) + 4 * Len(words) - 1 <= Len(b) /\ k \in 1 .. Len(words)
    BY <1>1, <1>3 DEF Laid
  <2>3. WordOf(Bytes(b, (11 + lm) + 4 * (k - 1), 4)) = words[k]
    BY <2>2, WordInFile
  <2>4. FileWord(b, k) = words[k]
    BY <1>5, <2>3 DEF FileWord
  <2> QED
    BY <2>1, <2>4
<1>10. PICK S : program \in Seq(S)
  BY DEF LoaderTyped
<1>11. program \in [1 .. n -> S]
  <2>1. program \in [1 .. Len(program) -> S]
    BY <1>10
  <2> QED
    BY <1>8, <2>1
<1> QED
  BY <1>1, <1>7, <1>9, <1>11

LEMMA LoadedAsMeant ==
  ASSUME ToolchainOK, BinaryFilled, FilesFit, DisplacementsFit, 0 .. LowRange - 1 \subseteq SignedField(13)
  PROVE  LoadsWhatWasAssembled
<1> DEFINE meant == MeantInstructions(source)
<1> SUFFICES ASSUME stage = "running"
             PROVE  /\ memory = MeantMemory(source)
                    /\ program = [k \in DOMAIN meant |-> Meant(meant[k])]
  BY DEF LoadsWhatWasAssembled
<1>1. phase = "done" /\ ~writeError /\ binary = <<file>> /\ simTarget = target
  BY WholeFiles DEF RunsOnlyWholeFiles
<1>2. FileWritten /\ Given
  BY <1>1 DEF ToolchainOK, Assembling
<1>3. /\ target \in Targets /\ IsSource(source) /\ Correct(target, source) /\ file \in Seq(Byte)
      /\ MeantMemory(source) \in Seq(Byte)
      /\ \A k \in DOMAIN meant : Encodable(target, meant[k])
      /\ Laid(file, TargetID(target), MeantMemory(source), MeantWords)
  BY <1>1, <1>2 DEF FileWritten, Given
<1>4. /\ LoaderTyped /\ Loading(file) /\ Filled(file)
  <2>1. binary # << >> /\ binary[1] = file
    BY <1>1
  <2> QED
    BY <1>1, <1>3, <2>1 DEF ToolchainOK, LoaderOK, BinaryFilled
<1>5. PICK n \in Nat : n = Len(meant) /\ DOMAIN meant = 1 .. n /\ \A k \in 1 .. n : MeantStatement(source, target, meant[k])
  BY <1>3, InstructionsMeant
<1>6. \A k \in 1 .. n : Reaches(meant[k], k - 1)
  BY <1>5 DEF DisplacementsFit
<1> DEFINE words == [k \in DOMAIN meant |-> Encoded(target, meant[k], k - 1)]
<1>7. MeantWords = BytesOf(words)
  BY DEF MeantWords
<1> HIDE DEF meant
<1>8. ASSUME NEW k \in 1 .. n
      PROVE  /\ Encoded(target, meant[k], k - 1) \in WordType
             /\ Decoded(target, Encoded(target, meant[k], k - 1), k - 1) = Meant(meant[k])
  <2>1. k - 1 \in Int /\ k \in DOMAIN meant
    BY <1>5
  <2>2. MeantStatement(source, target, meant[k]) /\ Encodable(target, meant[k]) /\ Reaches(meant[k], k - 1)
    BY <1>3, <1>5, <1>6, <2>1
  <2> QED
    BY <1>3, <2>1, <2>2, InstructionReadBack
<1>9. /\ words \in [1 .. n -> WordType]
      /\ \A k \in 1 .. n : words[k] = Encoded(target, meant[k], k - 1)
  BY <1>5, <1>8
<1> HIDE DEF words
<1>10. words \in Seq(WordType) /\ Len(words) = n
  BY <1>9
<1>11. /\ memory = MeantMemory(source)
       /\ program \in [1 .. n -> {Decoded(simTarget, words[k], k - 1) : k \in 1 .. n}]
       /\ \A k \in 1 .. n : program[k] = Decoded(simTarget, words[k], k - 1)
  <2>1. Laid(file, TargetID(target), MeantMemory(source), BytesOf(words)) /\ Len(file) < 10 + BlankSize
    BY <1>3, <1>7 DEF FilesFit
  <2>2. words \in Seq(WordType) /\ file \in Seq(Byte) /\ MeantMemory(source) \in Seq(Byte) /\ stage = "running"
    BY <1>3, <1>10
  <2>3. /\ memory = MeantMemory(source)
        /\ program \in [1 .. Len(words) -> {Decoded(simTarget, words[k], k - 1) : k \in 1 .. Len(words)}]
        /\ \A k \in 1 .. Len(words) : program[k] = Decoded(simTarget, words[k], k - 1)
    BY <1>4, <2>1, <2>2, FilledFrom, Zenon
  <2> QED
    BY <1>10, <2>3, Zenon
<1>12. \A k \in 1 .. n : program[k] = Meant(meant[k])
  BY <1>1, <1>8, <1>9, <1>11
<1>13. program = [k \in 1 .. n |-> Meant(meant[k])]
  BY <1>11, <1>12
<1> QED
  BY <1>5, <1>11, <1>13 DEF meant

(***************************************************************************)
(* A program that runs is the program its source means, in the data memory *)
(* it means: whatever the targets, the writes that fail and the bytes that *)
(* are lost on the way.  As long as a file has less than half a gigabyte   *)
(* (see OnlyWholeFilesRun), displacements fit into their fields, and %lo   *)
(* yields what an immediate can hold: the assembler checks none of these.  *)
(***************************************************************************)
THEOREM LoadsAsMeant ==
  ASSUME 0 .. LowRange - 1 \subseteq SignedField(13)
  PROVE  ToolchainSpec /\ []FilesFit /\ []DisplacementsFit => []LoadsWhatWasAssembled
<1>1. ToolchainInit => ToolchainOK /\ BinaryFilled
  BY ToolchainOKInit DEF ToolchainInit, BinaryFilled
<1>2. (ToolchainOK /\ BinaryFilled) /\ [ToolchainNext]_toolchain => (ToolchainOK /\ BinaryFilled)'
  BY ToolchainOKStep, BinaryFilledStep
<1>3. ToolchainOK /\ BinaryFilled /\ FilesFit /\ DisplacementsFit => LoadsWhatWasAssembled
  BY LoadedAsMeant
<1> QED
  BY <1>1, <1>2, <1>3, PTL DEF ToolchainSpec
=============================================================================
