------------------------- MODULE SimulateStep_proofs -------------------------
(***************************************************************************)
(* Proofs about the composed simulator core, for every set of well-formed  *)
(* programs, every data memory and every word width: each step of the core *)
(* is a step of its components, and what the components promise holds of   *)
(* the whole.                                                              *)
(***************************************************************************)
EXTENDS MixedSteps, RegisterWindows_proofs, ControlFlow_proofs, SparcAlu_proofs

DataTypes ==
  /\ icc \in IccType /\ y \in Word
  /\ predicate \in PredicateStates
  /\ preg \subseteq PredicateBits
  /\ memory \in Memory
  /\ cycles \in Word /\ localCycles \in Word

(***************************************************************************)
(* The inductive invariant: those of the two components, and the types of  *)
(* the rest.  The components need each other: a write is a register write  *)
(* because the decoders' operands are well-formed, which the program of    *)
(* the control part knows, and a jump goes to a word because the register  *)
(* file holds words.                                                       *)
(***************************************************************************)
CoreInvariant == ControlInvariant /\ WindowInvariant /\ DataTypes

\* the operands of the fetched instruction are what its opcode needs
LEMMA FetchedWellFormed ==
  ASSUME CoreInvariant, Fetching
  PROVE  /\ Fetched.op \in DestinationOps => Fetched.rd \in Registers
         /\ Fetched.op \in Source1Ops => Fetched.rs1 \in Operands
         /\ Fetched.op \in {"SAVE", "RESTORE"} => Fetched.rs1 \in Registers
         /\ Fetched.op \in Source2Ops => Fetched.src2 \in Operands
         /\ Fetched.op = "HWLOOP_INIT" /\ Fetched.reg = "LOOPB" => Fetched.src2 \in Operands
         /\ Fetched.op = "SETHI" => Fetched.imm \in Nat
         /\ Fetched.op = "PREDBEGIN" => Fetched.condition \in PredicateStates
         /\ Fetched.op \in {"PREDSET", "PREDCLEAR"} => Fetched.preg \in PredicateRegisters
<1>1. program \in Programs /\ pc \in DOMAIN program
  BY DEF CoreInvariant, ControlInvariant, Fetching
<1> QED
  BY <1>1, OperandsAssumption DEF Fetched

LEMMA SourceWords ==
  ASSUME CoreInvariant, Fetching
  PROVE  /\ Fetched.op \in Source1Ops => Source1 \in Word
         /\ Fetched.op \in Source2Ops => Source2 \in Word /\ EffectiveAddress \in Word
         /\ Fetched.op = "HWLOOP_INIT" /\ Fetched.reg = "LOOPB" => Source2 \in Word
<1>1. \A o \in Operands : OperandValue(o) \in Word
  <2>1. G0 \in Registers
    BY WindowsAssumption DEF G0, Registers, Offsets
  <2> QED
    BY <2>1, OperandType DEF CoreInvariant
<1>2. Fetched.op \in Source2Ops => Fetched.op \in Source1Ops
  BY DEF Source2Ops
<1>3. /\ Fetched.op \in Source1Ops => Source1 \in Word
      /\ Fetched.op \in Source2Ops => Source2 \in Word
      /\ Fetched.op = "HWLOOP_INIT" /\ Fetched.reg = "LOOPB" => Source2 \in Word
  BY <1>1, FetchedWellFormed DEF Source1, Source2
<1> QED
  BY <1>2, <1>3, AddWType DEF EffectiveAddress

LEMMA ConditionBoolean ==
  /\ Executed \in BOOLEAN
  /\ \A cc, i : EvaluateICC(cc, i) \in BOOLEAN
BY DEF Executed, EvaluateICC

\* registers read as words
LEMMA ReadWord ==
  ASSUME CoreInvariant, NEW r \in Registers
  PROVE  Read(r) \in Word
BY OperandType DEF CoreInvariant, Operands
-----------------------------------------------------------------------------
(***************************************************************************)
(* What memory accesses move are bytes and words.                          *)
(***************************************************************************)
\* 256 * 256 * 256 * 256 = 2^32, by halves
LEMMA ByteWeights ==
  /\ ByteRange \in Nat /\ ByteRange >= 2
  /\ ByteRange * ByteRange \in Nat /\ ByteRange * ByteRange >= ByteRange
  /\ (ByteRange * ByteRange) * (ByteRange * ByteRange) = Modulus
  /\ Modulus \in Nat /\ ByteRange * ByteRange <= Modulus /\ ByteRange <= Modulus
<1>1. ByteRange \in Nat /\ Modulus \in Nat \ {0}
  BY MemoryAssumption, HalfRangeAssumption DEF Modulus
<1>2. ByteRange >= 2
  <2>1. ByteRange # 0
    BY <1>1, MemoryAssumption
  <2> QED
    BY <1>1, <2>1, MemoryAssumption
<1>3. ByteRange * ByteRange \in Nat /\ ByteRange * ByteRange >= ByteRange
  BY <1>1, <1>2
<1>4. (ByteRange * ByteRange) * (ByteRange * ByteRange) = Modulus
  BY <1>1, MemoryAssumption
<1>5. \A n \in Nat : n * n >= n
  OBVIOUS
<1>6. ByteRange * ByteRange <= (ByteRange * ByteRange) * (ByteRange * ByteRange)
  <2> DEFINE n == ByteRange * ByteRange
  <2>1. n \in Nat
    BY <1>3
  <2> HIDE DEF n
  <2>2. n <= n * n
    BY <1>5, <2>1
  <2> QED
    BY <2>2 DEF n
<1> QED
  BY <1>1, <1>2, <1>3, <1>4, <1>6

\* two digits make a number of two digits
LEMMA TwoDigits ==
  ASSUME NEW range \in Nat, NEW h \in 0 .. range - 1, NEW l \in 0 .. range - 1
  PROVE  h * range + l \in 0 .. range * range - 1
<1>1. h \in Nat /\ l \in Nat /\ h + 1 <= range /\ l <= range - 1
  OBVIOUS
<1>2. h * range \in Nat /\ (h + 1) * range <= range * range
  BY <1>1
<1>3. (h + 1) * range = h * range + range
  BY <1>1
<1> QED
  BY <1>1, <1>2, <1>3

LEMMA SignExtendedType ==
  ASSUME NEW range \in Nat, range <= Modulus, NEW v \in 0 .. range - 1
  PROVE  SignExtended(v, range) \in Word
BY HalfRangeAssumption DEF SignExtended, Word, Modulus

\* the whole aligned word around a load's address is in memory
LEMMA AlignedInBounds ==
  ASSUME NEW a \in Word, LoadInBounds(a)
  PROVE  /\ a \in Addresses
         /\ a % 2 = 0 => a + 1 \in Addresses
         /\ a % 4 = 0 => a + 1 \in Addresses /\ a + 2 \in Addresses /\ a + 3 \in Addresses
<1>1. /\ a \in Nat /\ MemoryBytes \in Nat /\ MemoryBytes % 4 = 0
      /\ a - (a % 4) <= MemoryBytes - 1
  BY MemoryAssumption, HalfRangeAssumption DEF LoadInBounds, Addresses, Word, Modulus
<1>2. a - (a % 4) + 3 <= MemoryBytes - 1
  BY <1>1
<1> QED
  BY <1>1, <1>2 DEF Addresses

LEMMA LoadedType ==
  ASSUME NEW op \in LoadOps \ {"LDD"}, NEW m \in Memory, NEW a \in Word,
         LoadInBounds(a), ~Misaligned(op, a)
  PROVE  Loaded(op, m, a) \in Word
<1>1. \A x \in Addresses : m[x] \in 0 .. ByteRange - 1
  BY DEF Memory, Byte
<1>2. m[a] \in 0 .. ByteRange - 1
  BY <1>1, AlignedInBounds
<1>3. CASE op \in ByteLoads
  <2>1. Loaded(op, m, a) \in {m[a], SignExtended(m[a], ByteRange)}
    BY <1>3 DEF Loaded, ByteLoads
  <2>2. m[a] \in Word /\ SignExtended(m[a], ByteRange) \in Word
    <3>1. ByteRange \in Nat /\ Modulus \in Nat /\ ByteRange <= Modulus
      BY ByteWeights
    <3>2. m[a] \in Word
      BY <1>2, <3>1 DEF Word
    <3> QED
      BY <1>2, <3>1, <3>2, SignExtendedType
  <2> QED
    BY <2>1, <2>2
<1>4. ASSUME a % 2 = 0 PROVE HalfAt(m, a) \in 0 .. ByteRange * ByteRange - 1
  <2>1. m[a + 1] \in 0 .. ByteRange - 1
    BY <1>1, <1>4, AlignedInBounds
  <2> QED
    BY <1>2, <2>1, TwoDigits, ByteWeights DEF HalfAt
<1>5. CASE op \in HalfLoads
  <2>1. Loaded(op, m, a) \in {HalfAt(m, a), SignExtended(HalfAt(m, a), ByteRange * ByteRange)}
    BY <1>5 DEF Loaded, HalfLoads
  <2>2. a % 2 = 0
    BY <1>5 DEF Misaligned
  <2>3. HalfAt(m, a) \in 0 .. ByteRange * ByteRange - 1
    BY <1>4, <2>2
  <2>4. /\ HalfAt(m, a) \in Word
        /\ SignExtended(HalfAt(m, a), ByteRange * ByteRange) \in Word
    BY <2>3, ByteWeights, SignExtendedType DEF Word
  <2> QED
    BY <2>1, <2>4
<1>6. CASE op = "LD"
  <2>1. Loaded(op, m, a) = WordAt(m, a)
    BY <1>6 DEF Loaded
  <2>2. a \in Nat /\ a % 4 = 0
    BY <1>6, HalfRangeAssumption DEF Misaligned, Word, Modulus
  <2>3. a % 2 = 0 /\ (a + 2) + 1 = a + 3
    BY <2>2
  <2>4. HalfAt(m, a) \in 0 .. ByteRange * ByteRange - 1
    BY <1>4, <2>3
  <2>5. m[a + 2] \in 0 .. ByteRange - 1 /\ m[(a + 2) + 1] \in 0 .. ByteRange - 1
    BY <1>1, <2>2, <2>3, AlignedInBounds
  <2>6. HalfAt(m, a + 2) \in 0 .. ByteRange * ByteRange - 1
    BY <2>5, TwoDigits, ByteWeights DEF HalfAt
  <2>7. HalfAt(m, a) * (ByteRange * ByteRange) + HalfAt(m, a + 2) \in Word
    BY <2>4, <2>6, TwoDigits, ByteWeights DEF Word
  <2>8. HalfAt(m, a) * ByteRange * ByteRange = HalfAt(m, a) * (ByteRange * ByteRange)
    BY <2>4, ByteWeights
  <2> QED
    BY <2>1, <2>7, <2>8 DEF WordAt
<1> QED
  BY <1>3, <1>5, <1>6 DEF LoadOps

\* a store replaces bytes by bytes
LEMMA StoredType ==
  ASSUME NEW op \in StoreOps, NEW m \in Memory, NEW a \in Word, NEW v \in Word
  PROVE  Stored(op, m, a, v) \in Memory
<1>1. \A k \in 0 .. 3 : ByteOf(v, k) \in Byte
  <2> SUFFICES ASSUME NEW k \in 0 .. 3 PROVE ByteOf(v, k) \in Byte
    OBVIOUS
  <2>1. ByteWeight(k) \in Nat \ {0}
    <3>1. ByteRange * ByteRange * ByteRange \in Nat \ {0}
      BY ByteWeights
    <3> QED
      BY <3>1, ByteWeights DEF ByteWeight
  <2>2. v \in Nat
    BY ByteWeights DEF Word
  <2>3. v \div ByteWeight(k) \in Int
    BY <2>1, <2>2
  <2> QED
    BY <2>3, ByteWeights DEF ByteOf, Byte
<1>2. StoredBytes(op) \in 1 .. 4
  BY DEF StoredBytes
<1>3. ASSUME NEW x \in Addresses, x \in a .. a + StoredBytes(op) - 1
      PROVE  a + StoredBytes(op) - 1 - x \in 0 .. 3
  BY <1>2, <1>3, ByteWeights, MemoryAssumption DEF Addresses, Word
<1> QED
  BY <1>1, <1>3 DEF Stored, Memory
-----------------------------------------------------------------------------
(***************************************************************************)
(* Every step of the core is a step of the control component.              *)
(***************************************************************************)
AllOps == DestinationOps \cup Source1Ops \cup Unimplemented
          \cup {"NOP", "CYCLE_PRINT", "CYCLE_CLEAR", "PREDBEGIN", "PREDEND", "PREDSET", "PREDCLEAR"}

\* no opcode of the straight cases is one that transfers control
LEMMA StraightOps ==
  ASSUME NEW op \in AllOps \ {"JUMPL"}
  PROVE  op \notin TransferOps
BY DEF AllOps, DestinationOps, Source1Ops, Unimplemented, TransferOps, LoadOps, ByteLoads,
       HalfLoads, StoreOps, ByteStores, HalfStores, AluOps, AddOps, SubOps, AddxOps, SubxOps,
       UmulOps, SmulOps, UdivOps, SdivOps, DivOps, LogicOps, ShiftOps

LEMMA ControlStep == CoreInvariant /\ [Next]_vars => [NextControl]_controlVars
<1> SUFFICES ASSUME CoreInvariant, [Next]_vars PROVE [NextControl]_controlVars
  OBVIOUS
<1>1. CASE CallLabel
  BY <1>1 DEF CallLabel, NextControl
<1>2. CASE BranchOnICC
  BY <1>2, ConditionBoolean DEF BranchOnICC, NextControl
<1>3. CASE JumpAndLink
  <2>1. EffectiveAddress \in Word
    <3>1. Fetching /\ Fetched.op = "JUMPL"
      BY <1>3 DEF JumpAndLink, Is
    <3>2. "JUMPL" \in Source2Ops
      BY DEF Source2Ops, Source1Ops
    <3> QED
      BY <3>1, <3>2, SourceWords
  <2> QED
    BY <1>3, <2>1, ConditionBoolean DEF JumpAndLink, NextControl
<1>4. CASE InitLoopRegister
  <2>1. (IF Fetched.reg = "LOOPB" THEN Source2 ELSE 0) \in Word
    <3>1. Fetching /\ Fetched.op = "HWLOOP_INIT"
      BY <1>4 DEF InitLoopRegister, Is
    <3> QED
      BY <3>1, SourceWords, ControlWords
  <2> QED
    BY <1>4, <2>1 DEF InitLoopRegister, NextControl
<1>5. CASE StartLoop
  BY <1>5 DEF StartLoop, NextControl
<1>6. ASSUME Fetching, Fetched.op \in AllOps \ {"JUMPL"}, ProceedInSequence
      PROVE  NextControl
  BY <1>6, StraightOps DEF Sequential, NextControl
<1>7. CASE ClearCycles \/ OnlyTakeTime
  <2>1. {"NOP", "CYCLE_PRINT", "CYCLE_CLEAR"} \cup Unimplemented \subseteq AllOps \ {"JUMPL"}
    BY DEF AllOps, Unimplemented
  <2>2. Fetching /\ ProceedInSequence
    BY <1>7 DEF ClearCycles, OnlyTakeTime, Is
  <2>3. Fetched.op \in {"NOP", "CYCLE_PRINT", "CYCLE_CLEAR"} \cup Unimplemented
    BY <1>7 DEF ClearCycles, OnlyTakeTime, Is
  <2> QED
    BY <1>6, <2>1, <2>2, <2>3
<1>8. CASE SetHigh \/ ReadYRegister \/ WriteYRegister \/ ConditionalMove \/ TurnWindow
  BY <1>6, <1>8 DEF SetHigh, ReadYRegister, WriteYRegister, ConditionalMove, TurnWindow, Is,
                    AllOps, DestinationOps, Source1Ops
<1>9. CASE Arithmetic
  <2>1. "JUMPL" \notin AluOps
    BY DEF AluOps, AddOps, SubOps, AddxOps, SubxOps, UmulOps, SmulOps, UdivOps, SdivOps,
           DivOps, LogicOps, ShiftOps
  <2> QED
    BY <1>6, <1>9, <2>1 DEF Arithmetic, Is, AllOps, DestinationOps
<1>10. CASE Load \/ Store
  <2>1. "JUMPL" \notin LoadOps \cup StoreOps
    BY DEF LoadOps, ByteLoads, HalfLoads, StoreOps, ByteStores, HalfStores
  <2> QED
    BY <1>6, <1>10, <2>1 DEF Load, Store, Is, AllOps, DestinationOps
<1>11. CASE BeginPredicatedBlock \/ EndPredicatedBlock \/ SetPredicate
  BY <1>6, <1>11 DEF BeginPredicatedBlock, EndPredicatedBlock, SetPredicate, Is, AllOps
<1>12. CASE StopWithError \/ BehaveUndefined
  BY <1>12 DEF StopWithError, BehaveUndefined, NextControl
<1>13. CASE UNCHANGED vars
  BY <1>13 DEF vars, controlVars
<1> QED
  BY <1>1, <1>2, <1>3, <1>4, <1>5, <1>7, <1>8, <1>9, <1>10, <1>11, <1>12, <1>13 DEF Next
-----------------------------------------------------------------------------
(***************************************************************************)
(* Every step of the core is a step of the register windows: a write of a  *)
(* word through the pointers in force, a turn, or nothing.                 *)
(***************************************************************************)
LEMMA DestinationStep ==
  ASSUME CoreInvariant, Fetching, Fetched.op \in DestinationOps, NEW v \in Word,
         WriteDestination(v)
  PROVE  NextWindows
<1>1. Fetched.rd \in Registers /\ Executed \in BOOLEAN
  BY FetchedWellFormed, ConditionBoolean
<1> QED
  BY <1>1 DEF WriteDestination, NextWindows

\* an executed load that is kept loads a word
LEMMA LoadStep ==
  ASSUME CoreInvariant, Load, CommitsLoad, Fetched.op # "LDD"
  PROVE  Loaded(Fetched.op, memory, EffectiveAddress) \in Word
<1>1. Fetching /\ Fetched.op \in LoadOps /\ LoadInBounds(EffectiveAddress) /\ ~LoadMisaligned
  BY DEF Load, Is
<1>2. Fetched.op \in Source2Ops
  BY <1>1 DEF Source2Ops, Source1Ops, LoadOps, ByteLoads, HalfLoads
<1>3. EffectiveAddress \in Word
  BY <1>1, <1>2, SourceWords
<1>4. ~Misaligned(Fetched.op, EffectiveAddress)
  BY <1>1 DEF LoadMisaligned
<1>5. memory \in Memory
  BY DEF CoreInvariant, DataTypes
<1> QED
  BY <1>1, <1>3, <1>4, <1>5, LoadedType

\* byte addresses of words, and the other computed words
LEMMA ComputedWords ==
  ASSUME CoreInvariant
  PROVE  /\ (pc * 4) % Modulus \in Word
         /\ \A imm \in Nat : (imm * SethiScale) % Modulus \in Word
<1>1. pc * 4 \in Int
  BY HalfRangeAssumption DEF CoreInvariant, ControlInvariant, ControlTypeOK, Word, Modulus
<1>2. \A imm \in Nat : imm * SethiScale \in Int
  BY SimulateAssumption
<1> QED
  BY <1>1, <1>2, LowWordType

\* the outcome of an arithmetic step is one of well-typed values
LEMMA ArithmeticTyped ==
  ASSUME CoreInvariant, Arithmetic
  PROVE  /\ Fetching /\ Fetched.op \in DestinationOps
         /\ \E r \in AluOutcomes(Fetched.op, Source1, Source2, icc, y) :
              /\ WriteDestination(r.value)
              /\ icc' = IF Executed THEN r.icc ELSE icc
              /\ y' = IF Executed THEN r.y ELSE y
              /\ r.value \in Word /\ r.y \in Word /\ r.icc \in IccType
<1>1. Fetching /\ Fetched.op \in AluOps /\ (Fetched.op \in DivOps => Source2 # 0)
  BY DEF Arithmetic, Is, DivisionByZero
<1>2. AluOps \subseteq DestinationOps /\ AluOps \subseteq Source2Ops
  <2>1. "MOV" \notin AluOps
    BY DEF AluOps, AddOps, SubOps, AddxOps, SubxOps, UmulOps, SmulOps, UdivOps, SdivOps,
           DivOps, LogicOps, ShiftOps
  <2> QED
    BY <2>1 DEF DestinationOps, Source2Ops, Source1Ops
<1>3. Source1 \in Word /\ Source2 \in Word
  BY <1>1, <1>2, SourceWords DEF Source2Ops
<1>4. icc \in IccType /\ y \in Word
  BY DEF CoreInvariant, DataTypes
<1>5. PICK r \in AluOutcomes(Fetched.op, Source1, Source2, icc, y) :
        /\ WriteDestination(r.value)
        /\ icc' = IF Executed THEN r.icc ELSE icc
        /\ y' = IF Executed THEN r.y ELSE y
  BY DEF Arithmetic
<1>6. r.value \in Word /\ r.y \in Word /\ r.icc \in IccType
  BY <1>1, <1>3, <1>4, AluOutcomesType
<1> QED
  BY <1>1, <1>2, <1>5, <1>6

LEMMA WindowStep == CoreInvariant /\ [Next]_vars => [NextWindows]_windowVars
<1> SUFFICES ASSUME CoreInvariant, [Next]_vars PROVE [NextWindows]_windowVars
  OBVIOUS
<1>1. CASE CallLabel
  <2>1. CallAddress \in Registers
    BY WindowsAssumption DEF CallAddress, Registers, Offsets
  <2> QED
    BY <1>1, <2>1, ComputedWords DEF CallLabel, NextWindows
<1>2. CASE JumpAndLink
  <2>1. Fetching /\ Fetched.op \in DestinationOps
    BY <1>2 DEF JumpAndLink, Is, DestinationOps
  <2> QED
    BY <1>2, <2>1, ComputedWords, DestinationStep DEF JumpAndLink
<1>3. CASE SetHigh
  <2>1. Fetching /\ Fetched.op = "SETHI" /\ Fetched.op \in DestinationOps
    BY <1>3 DEF SetHigh, Is, DestinationOps
  <2>2. Fetched.imm \in Nat
    BY <2>1, FetchedWellFormed
  <2> QED
    BY <1>3, <2>1, <2>2, ComputedWords, DestinationStep DEF SetHigh
<1>4. CASE Arithmetic
  BY <1>4, ArithmeticTyped, DestinationStep
<1>5. CASE ReadYRegister
  <2>1. Fetching /\ Fetched.op \in DestinationOps
    BY <1>5 DEF ReadYRegister, Is, DestinationOps
  <2>2. y \in Word
    BY DEF CoreInvariant, DataTypes
  <2> QED
    BY <1>5, <2>1, <2>2, DestinationStep DEF ReadYRegister
<1>6. CASE ConditionalMove
  <2>1. Fetching /\ Fetched.op \in {"MOV", "SEL"}
    BY <1>6 DEF ConditionalMove, Is
  <2>2. /\ Fetched.op \in DestinationOps /\ Fetched.op \in Source1Ops
        /\ Fetched.op = "SEL" => Fetched.op \in Source2Ops
    BY <2>1 DEF DestinationOps, Source1Ops, Source2Ops
  <2>3. Source1 \in Word /\ (Fetched.op = "SEL" => Source2 \in Word)
    BY <2>1, <2>2, SourceWords
  <2>4. Read(Fetched.rd) \in Word
    BY <2>1, <2>2, FetchedWellFormed, ReadWord
  <2>5. (IF EvaluateICC(Fetched.cc, icc) THEN Source1
         ELSE IF Fetched.op = "SEL" THEN Source2
         ELSE Read(Fetched.rd)) \in Word
    BY <2>3, <2>4
  <2> QED
    BY <1>6, <2>1, <2>2, <2>5, DestinationStep DEF ConditionalMove
<1>7. CASE TurnWindow
  <2>1. Fetching /\ Fetched.op \in {"SAVE", "RESTORE"}
    BY <1>7 DEF TurnWindow, Is
  <2>2. Fetched.op \in DestinationOps /\ Fetched.op \in Source2Ops
    BY <2>1 DEF DestinationOps, Source1Ops, Source2Ops
  <2>3. Fetched.rd \in Registers /\ Fetched.rs1 \in Registers /\ Fetched.src2 \in Operands
    BY <2>1, <2>2, FetchedWellFormed
  <2> QED
    BY <1>7, <2>3, ConditionBoolean DEF TurnWindow, NextWindows
<1>8. CASE Load
  <2>1. CASE CommitsLoad /\ Fetched.op # "LDD"
    <3>1. Loaded(Fetched.op, memory, EffectiveAddress) \in Word
      BY <1>8, <2>1, LoadStep
    <3>2. Fetching /\ Fetched.op \in DestinationOps
      BY <1>8 DEF Load, Is, DestinationOps
    <3> QED
      BY <1>8, <2>1, <3>1, <3>2, DestinationStep DEF Load
  <2>2. CASE ~(CommitsLoad /\ Fetched.op # "LDD")
    BY <1>8, <2>2 DEF Load
  <2> QED
    BY <2>1, <2>2
<1>9. CASE BranchOnICC \/ InitLoopRegister \/ StartLoop \/ ClearCycles \/ OnlyTakeTime
  BY <1>9 DEF BranchOnICC, InitLoopRegister, StartLoop, ClearCycles, OnlyTakeTime
<1>10. CASE WriteYRegister \/ Store \/ BeginPredicatedBlock \/ EndPredicatedBlock
            \/ SetPredicate \/ StopWithError \/ BehaveUndefined
  BY <1>10 DEF WriteYRegister, Store, BeginPredicatedBlock, EndPredicatedBlock, SetPredicate,
               StopWithError, BehaveUndefined
<1>11. CASE UNCHANGED vars
  BY <1>11 DEF vars, windowVars
<1> QED
  BY <1>1, <1>2, <1>3, <1>4, <1>5, <1>6, <1>7, <1>8, <1>9, <1>10, <1>11 DEF Next
-----------------------------------------------------------------------------
(***************************************************************************)
(* Every step of the core keeps the types of what is in neither component. *)
(***************************************************************************)
LEMMA TakesType ==
  ASSUME CoreInvariant, NEW n \in Nat, Takes(n)
  PROVE  cycles' \in Word /\ localCycles' \in Word
<1>1. cycles + n \in Int /\ localCycles + n \in Int
  BY HalfRangeAssumption DEF CoreInvariant, DataTypes, Word, Modulus
<1> QED
  BY <1>1, LowWordType DEF Takes, AddW

\* a step that leaves the data alone but for the time it takes
LEMMA KeepsData ==
  ASSUME CoreInvariant, NEW n \in Nat, Takes(n),
         UNCHANGED <<conditionVars, predicateVars, memory>>
  PROVE  DataTypes'
<1>1. cycles' \in Word /\ localCycles' \in Word
  BY TakesType
<1>2. icc' = icc /\ y' = y /\ predicate' = predicate /\ preg' = preg /\ memory' = memory
  BY DEF conditionVars, predicateVars
<1>3. DataTypes
  BY DEF CoreInvariant
<1> QED
  BY <1>1, <1>2, <1>3 DEF DataTypes

LEMMA StoreStep ==
  ASSUME CoreInvariant, Store
  PROVE  memory' \in Memory
<1>1. Fetching /\ Fetched.op \in StoreOps
  BY DEF Store, Is
<1>2. Fetched.op \in DestinationOps /\ Fetched.op \in Source2Ops
  BY <1>1 DEF DestinationOps, Source2Ops, Source1Ops, StoreOps, ByteStores, HalfStores
<1>3. EffectiveAddress \in Word /\ Read(Fetched.rd) \in Word
  BY <1>1, <1>2, SourceWords, FetchedWellFormed, ReadWord
<1>4. memory \in Memory
  BY DEF CoreInvariant, DataTypes
<1>5. Stored(Fetched.op, memory, EffectiveAddress, Read(Fetched.rd)) \in Memory
  BY <1>1, <1>3, <1>4, StoredType
<1> QED
  BY <1>4, <1>5 DEF Store

LEMMA DataStep == CoreInvariant /\ [Next]_vars => DataTypes'
<1> SUFFICES ASSUME CoreInvariant, [Next]_vars PROVE DataTypes'
  OBVIOUS
<1>1. DataTypes
  BY DEF CoreInvariant
<1>2. CASE CallLabel \/ BranchOnICC \/ JumpAndLink \/ InitLoopRegister \/ StartLoop
  <2>1. Takes(1) /\ UNCHANGED <<conditionVars, predicateVars, memory>>
    BY <1>2 DEF CallLabel, BranchOnICC, JumpAndLink, InitLoopRegister, StartLoop
  <2> QED
    BY <2>1, KeepsData
<1>3. CASE ClearCycles
  <2>1. 0 \in Word
    BY ControlWords
  <2> QED
    BY <1>1, <1>3, <2>1 DEF ClearCycles, DataTypes, conditionVars, predicateVars
<1>4. CASE OnlyTakeTime
  <2>1. \A op : (CASE op = "NOP"             -> 1
                   [] op \in {"LDA", "LDDA"} -> 3
                   [] op \in {"STD", "STDA"} -> 4
                   [] OTHER                  -> 0) \in Nat
    OBVIOUS
  <2> QED
    BY <1>4, <2>1, KeepsData DEF OnlyTakeTime
<1>5. CASE SetHigh \/ ReadYRegister \/ ConditionalMove \/ TurnWindow
  <2>1. Takes(1) /\ UNCHANGED <<conditionVars, predicateVars, memory>>
    BY <1>5 DEF SetHigh, ReadYRegister, ConditionalMove, TurnWindow
  <2> QED
    BY <2>1, KeepsData
<1>6. CASE Load
  <2>1. Takes(2) /\ UNCHANGED <<conditionVars, predicateVars, memory>>
    BY <1>6 DEF Load
  <2> QED
    BY <2>1, KeepsData
<1>7. CASE Arithmetic
  <2>1. icc' \in IccType /\ y' \in Word
    BY <1>1, <1>7, ArithmeticTyped DEF DataTypes
  <2>2. ArithmeticCycles(Fetched.op) \in Nat
    BY DEF ArithmeticCycles
  <2>3. cycles' \in Word /\ localCycles' \in Word
    BY <1>7, <2>2, TakesType DEF Arithmetic
  <2> QED
    BY <1>1, <1>7, <2>1, <2>3 DEF Arithmetic, DataTypes, predicateVars
<1>8. CASE WriteYRegister
  <2>1. y' \in Word
    BY <1>1, <1>8, BitwiseType DEF WriteYRegister, DataTypes
  <2>2. cycles' \in Word /\ localCycles' \in Word
    BY <1>8, TakesType DEF WriteYRegister
  <2> QED
    BY <1>1, <1>8, <2>1, <2>2 DEF WriteYRegister, DataTypes, predicateVars
<1>9. CASE Store
  <2>1. memory' \in Memory
    BY <1>9, StoreStep
  <2>2. cycles' \in Word /\ localCycles' \in Word
    BY <1>9, TakesType DEF Store
  <2> QED
    BY <1>1, <1>9, <2>1, <2>2 DEF Store, DataTypes, conditionVars, predicateVars
<1>10. CASE BeginPredicatedBlock \/ EndPredicatedBlock
  <2>1. predicate' \in PredicateStates
    <3>1. CASE BeginPredicatedBlock
      <4>1. Fetching /\ Fetched.op = "PREDBEGIN"
        BY <3>1 DEF BeginPredicatedBlock, Is
      <4> QED
        BY <3>1, <4>1, FetchedWellFormed DEF BeginPredicatedBlock
    <3>2. CASE EndPredicatedBlock
      BY <3>2 DEF EndPredicatedBlock, PredicateStates
    <3> QED
      BY <1>10, <3>1, <3>2
  <2>2. Takes(1) /\ UNCHANGED <<conditionVars, preg, memory>>
    BY <1>10 DEF BeginPredicatedBlock, EndPredicatedBlock
  <2>3. cycles' \in Word /\ localCycles' \in Word
    BY <2>2, TakesType
  <2> QED
    BY <1>1, <2>1, <2>2, <2>3 DEF DataTypes, conditionVars
<1>11. CASE SetPredicate
  <2>1. preg' \subseteq PredicateBits
    <3>1. Fetched.preg \in PredicateRegisters
      <4>1. Fetching /\ Fetched.op \in {"PREDSET", "PREDCLEAR"}
        BY <1>11 DEF SetPredicate, Is
      <4> QED
        BY <4>1, FetchedWellFormed
    <3>2. BitsSet(Fetched.preg) \subseteq PredicateBits
      BY <3>1 DEF BitsSet, PredicateBits
    <3> QED
      BY <1>1, <1>11, <3>2 DEF SetPredicate, DataTypes
  <2>2. Takes(1) /\ UNCHANGED <<conditionVars, predicate, memory>>
    BY <1>11 DEF SetPredicate
  <2>3. cycles' \in Word /\ localCycles' \in Word
    BY <2>2, TakesType
  <2> QED
    BY <1>1, <2>1, <2>2, <2>3 DEF DataTypes, conditionVars
<1>12. CASE StopWithError \/ BehaveUndefined
  BY <1>1, <1>12 DEF StopWithError, BehaveUndefined, DataTypes, conditionVars, predicateVars
<1>13. CASE UNCHANGED vars
  BY <1>1, <1>13 DEF vars, DataTypes
<1> QED
  BY <1>2, <1>3, <1>4, <1>5, <1>6, <1>7, <1>8, <1>9, <1>10, <1>11, <1>12, <1>13 DEF Next
-----------------------------------------------------------------------------
LEMMA CoreInit == Init => CoreInvariant
<1> SUFFICES ASSUME Init PROVE CoreInvariant
  OBVIOUS
<1>1. ControlInvariant
  BY ControlInit DEF Init
<1>2. WindowInvariant
  BY InvariantInit DEF Init
<1>3. DataTypes
  BY ControlWords, SimulateAssumption DEF Init, DataTypes, IccType, IccClear, PredicateStates
<1> QED
  BY <1>1, <1>2, <1>3 DEF CoreInvariant

LEMMA CoreNext == CoreInvariant /\ [Next]_vars => CoreInvariant'
<1> SUFFICES ASSUME CoreInvariant, [Next]_vars PROVE CoreInvariant'
  OBVIOUS
<1>1. ControlInvariant'
  BY ControlStep, ControlNext DEF CoreInvariant
<1>2. WindowInvariant'
  BY WindowStep, InvariantNext DEF CoreInvariant
<1>3. DataTypes'
  BY DataStep
<1> QED
  BY <1>1, <1>2, <1>3 DEF CoreInvariant

THEOREM CoreInvariantHolds == Spec => []CoreInvariant
BY CoreInit, CoreNext, PTL DEF Spec
-----------------------------------------------------------------------------
(***************************************************************************)
(* The whole state of the simulator keeps its types: registers, y, memory, *)
(* both program counters, the loop registers and the cycle counters stay   *)
(* words or bytes, whatever the program, its data and the word width.      *)
(***************************************************************************)
THEOREM TypeCorrect == Spec => []TypeOK
<1>1. CoreInvariant => TypeOK
  BY DEF CoreInvariant, ControlInvariant, WindowInvariant, DataTypes, TypeOK
<1> QED
  BY <1>1, CoreInvariantHolds, PTL

(***************************************************************************)
(* %g0 reads as zero and the pointers follow the psr, whichever of the     *)
(* opcode cases wrote a register.                                          *)
(***************************************************************************)
THEOREM RegisterFileAlwaysSound == Spec => []RegisterFileSound
<1>1. WindowInvariant => ZeroRegister
  BY WindowsAssumption
     DEF WindowInvariant, PointersFollowCWP, ZeroRegister, Read, Pointers, G0, Registers, Offsets
<1>2. CoreInvariant => RegisterFileSound
  BY <1>1 DEF CoreInvariant, WindowInvariant, RegisterFileSound
<1> QED
  BY <1>2, CoreInvariantHolds, PTL

(***************************************************************************)
(* The core implements ControlFlow: which instruction comes next is        *)
(* decided as there, whatever the instructions compute.                    *)
(***************************************************************************)
THEOREM ControlRefined == Spec => ImplementsControlFlow
<1>1. Init => ResetControl
  BY DEF Init
<1> QED
  BY <1>1, ControlStep, CoreInvariantHolds, PTL DEF Spec, ImplementsControlFlow, SpecControl

(***************************************************************************)
(* The core implements RegisterWindows: no opcode case reaches the         *)
(* register file other than by a register write, a SAVE or a RESTORE.      *)
(***************************************************************************)
THEOREM WindowsRefined == Spec => ImplementsWindows
<1>1. Init => ResetWindows
  BY DEF Init
<1> QED
  BY <1>1, WindowStep, CoreInvariantHolds, PTL DEF Spec, ImplementsWindows, SpecWindows

\* no step of an instruction that is predicated off leaves a trace in the data,
\* and only the begin and the end of a block move its predicate
LEMMA PredicatedOffStep ==
  ASSUME Next, Fetching, ~Executed
  PROVE  /\ UNCHANGED <<memory, icc, y, preg>>
         /\ Fetched.op # "CALL" => UNCHANGED regs
         /\ Fetched.op \notin {"PREDBEGIN", "PREDEND"} => UNCHANGED predicate
<1>1. ASSUME NEW v, WriteDestination(v) PROVE UNCHANGED regs
  BY <1>1 DEF WriteDestination, WriteRegister, Written
<1>2. CASE CallLabel
  BY <1>2 DEF CallLabel, Call, conditionVars, predicateVars
<1>3. CASE BranchOnICC \/ InitLoopRegister \/ StartLoop \/ ClearCycles \/ OnlyTakeTime
  BY <1>3 DEF BranchOnICC, InitLoopRegister, StartLoop, ClearCycles, OnlyTakeTime,
              conditionVars, predicateVars, windowVars
<1>4. CASE JumpAndLink \/ SetHigh \/ ReadYRegister \/ ConditionalMove
  BY <1>1, <1>4 DEF JumpAndLink, SetHigh, ReadYRegister, ConditionalMove,
                    conditionVars, predicateVars
<1>5. CASE Arithmetic
  BY <1>1, <1>5 DEF Arithmetic, predicateVars
<1>6. CASE TurnWindow
  BY <1>6 DEF TurnWindow, Save, Restore, Written, conditionVars, predicateVars
<1>7. CASE WriteYRegister
  BY <1>7 DEF WriteYRegister, windowVars, predicateVars
<1>8. CASE Load
  <2>1. ~CommitsLoad
    BY DEF CommitsLoad
  <2> QED
    BY <1>8, <2>1 DEF Load, windowVars, conditionVars, predicateVars
<1>9. CASE Store
  BY <1>9 DEF Store, windowVars, conditionVars, predicateVars
<1>10. CASE BeginPredicatedBlock \/ EndPredicatedBlock
  BY <1>10 DEF Is, BeginPredicatedBlock, EndPredicatedBlock, windowVars, conditionVars
<1>11. CASE SetPredicate
  BY <1>11 DEF SetPredicate, windowVars, conditionVars
<1>12. CASE StopWithError \/ BehaveUndefined
  BY <1>12 DEF StopWithError, BehaveUndefined, windowVars, conditionVars, predicateVars
<1> QED
  BY <1>2, <1>3, <1>4, <1>5, <1>6, <1>7, <1>8, <1>9, <1>10, <1>11, <1>12 DEF Next

(***************************************************************************)
(* An instruction that is predicated off leaves memory, y, the condition   *)
(* codes and the predicate registers alone, and, unless it is a call, all  *)
(* registers: the guard is repeated in eleven cases of the opcode switch.  *)
(***************************************************************************)
THEOREM PredicatedOffKeeps == Spec => PredicatedOffKeepsData
<1>1. [Next]_vars => [Fetching /\ ~Executed =>
                        /\ UNCHANGED <<memory, icc, y, preg>>
                        /\ Fetched.op # "CALL" => UNCHANGED regs]_vars
  BY PredicatedOffStep
<1> QED
  BY <1>1, PTL DEF Spec, PredicatedOffKeepsData

(***************************************************************************)
(* A predicated block that is off stays off to its end: executed is        *)
(* computed anew at every instruction, from condition codes and predicate  *)
(* registers that the skipped instructions cannot have changed.            *)
(***************************************************************************)
THEOREM BlockAlwaysStaysOff == Spec => BlockStaysOff
<1>1. ASSUME Next, Fetching, ~Executed, Fetched.op \notin {"PREDBEGIN", "PREDEND"}
      PROVE  ~Executed'
  <2>1. predicate' = predicate /\ icc' = icc /\ preg' = preg
    BY <1>1, PredicatedOffStep
  <2> QED
    BY <1>1, <2>1 DEF Executed
<1>2. [Next]_vars => [Fetching /\ ~Executed /\ Fetched.op \notin {"PREDBEGIN", "PREDEND"} => ~Executed']_vars
  BY <1>1
<1> QED
  BY <1>2, PTL DEF Spec, BlockStaysOff
=============================================================================
