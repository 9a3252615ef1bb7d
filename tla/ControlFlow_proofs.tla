------------------------- MODULE ControlFlow_proofs -------------------------
(***************************************************************************)
(* Proofs about pc, npc and the hardware loop, for every set of programs   *)
(* and every word width.                                                   *)
(***************************************************************************)
EXTENDS ControlFlow, TLAPS

LEMMA ControlWords ==
  /\ \A a, b \in Word : AddW(a, b) \in Word /\ SubW(a, b) \in Word
  /\ \A a \in Word : a \div 4 \in Word
  /\ 0 \in Word /\ 1 \in Word
BY HalfRangeAssumption DEF AddW, SubW, Word, Modulus

(***************************************************************************)
(* The inductive invariant: the types, and a program of the set, whose     *)
(* targets are words.                                                      *)
(***************************************************************************)
ControlInvariant == ControlTypeOK /\ program \in Programs

LEMMA ControlInit == ResetControl => ControlInvariant
BY ControlWords DEF ResetControl, ControlInvariant, ControlTypeOK, HwloopType

\* the fetch leaves words behind, also where the loop counter wraps
LEMMA FetchTyped ==
  ASSUME ControlTypeOK
  PROVE  SequentialNpc \in Word /\ SteppedLoop \in HwloopType
<1>1. LoopCounter \in Word
  BY ControlWords DEF ControlTypeOK, HwloopType, LoopCounter
<1>2. SequentialNpc \in Word
  BY ControlWords DEF ControlTypeOK, HwloopType, SequentialNpc
<1>3. \A c \in Word, b \in BOOLEAN : [hwloop EXCEPT !.counter = c, !.active = b] \in HwloopType
  BY DEF ControlTypeOK, HwloopType
<1>4. (hwloop.active /\ (AtLoopEnd => LoopsBack)) \in BOOLEAN
  OBVIOUS
<1>5. SteppedLoop = [hwloop EXCEPT !.counter = LoopCounter,
                                   !.active = hwloop.active /\ (AtLoopEnd => LoopsBack)]
  BY DEF ControlTypeOK, HwloopType, SteppedLoop
<1> QED
  BY <1>1, <1>2, <1>3, <1>4, <1>5

\* the target of an instruction that has one
LEMMA TargetType ==
  ASSUME ControlInvariant, Fetching,
         \/ Fetched.op = "CALL"
         \/ Fetched.op = "BRANCH"
         \/ Fetched.op = "HWLOOP_INIT" /\ Fetched.reg # "LOOPB"
  PROVE  Fetched.target \in Word
<1>1. program \in Programs /\ pc \in DOMAIN program
  BY DEF ControlInvariant, Fetching
<1> QED
  BY <1>1, TargetsAssumption DEF Fetched

LEMMA ProceedTyped ==
  ASSUME ControlInvariant, NEW nextNpc \in Word, NEW nextLoop \in HwloopType,
         Proceed(nextNpc, nextLoop)
  PROVE  ControlInvariant'
BY DEF Proceed, ControlInvariant, ControlTypeOK, HwloopType, Word, Modulus

LEMMA ControlNext == ControlInvariant /\ [NextControl]_controlVars => ControlInvariant'
<1> SUFFICES ASSUME ControlInvariant, [NextControl]_controlVars PROVE ControlInvariant'
  OBVIOUS
<1>1. SequentialNpc \in Word /\ SteppedLoop \in HwloopType
  BY FetchTyped DEF ControlInvariant
<1>2. CASE Sequential
  BY <1>1, <1>2, ProceedTyped DEF Sequential, ProceedInSequence
<1>3. CASE Call
  <2>1. Fetched.target \in Word
    BY <1>3, TargetType DEF Call
  <2> QED
    BY <1>1, <1>3, <2>1, ProceedTyped DEF Call
<1>4. ASSUME NEW taken \in BOOLEAN, Branch(taken) PROVE ControlInvariant'
  <2>1. Fetched.target \in Word
    BY <1>4, TargetType DEF Branch
  <2>2. (IF taken THEN Fetched.target ELSE SequentialNpc) \in Word
    BY <1>1, <2>1
  <2> QED
    BY <1>1, <1>4, <2>2, ProceedTyped DEF Branch
<1>5. ASSUME NEW address \in Word, NEW executed \in BOOLEAN, Jumpl(address, executed)
      PROVE  ControlInvariant'
  <2>1. (IF executed THEN address \div 4 ELSE SequentialNpc) \in Word
    BY <1>1, ControlWords
  <2> QED
    BY <1>1, <1>5, <2>1, ProceedTyped DEF Jumpl
<1>6. ASSUME NEW bound \in Word, HwloopInit(bound) PROVE ControlInvariant'
  <2>1. Fetched.reg # "LOOPB" => Fetched.target \in Word
    BY <1>6, TargetType DEF HwloopInit
  <2>2. /\ \A t \in Word : [SteppedLoop EXCEPT !.start = t] \in HwloopType
        /\ \A t \in Word : [SteppedLoop EXCEPT !.end = t] \in HwloopType
        /\ [SteppedLoop EXCEPT !.counter = bound] \in HwloopType
    BY <1>1 DEF HwloopType
  <2> QED
    BY <1>1, <1>6, <2>1, <2>2, ProceedTyped DEF HwloopInit
<1>7. CASE HwloopStart
  <2>1. [SteppedLoop EXCEPT !.active = TRUE] \in HwloopType
    BY <1>1 DEF HwloopType
  <2> QED
    BY <1>1, <1>7, <2>1, ProceedTyped DEF HwloopStart
<1>8. CASE Fail \/ Undefined
  BY <1>8 DEF Fail, Undefined, ControlInvariant, ControlTypeOK, HwloopType, Word, Modulus
<1>9. CASE UNCHANGED controlVars
  BY <1>9 DEF controlVars, ControlInvariant, ControlTypeOK, HwloopType, Word, Modulus
<1> QED
  BY <1>2, <1>3, <1>4, <1>5, <1>6, <1>7, <1>8, <1>9 DEF NextControl

(***************************************************************************)
(* pc, npc and the loop registers stay words under every program, also     *)
(* where npc or the loop counter wraps.                                    *)
(***************************************************************************)
THEOREM ControlTypeCorrect == SpecControl => []ControlTypeOK
<1>1. ControlInvariant => ControlTypeOK
  BY DEF ControlInvariant
<1> QED
  BY <1>1, ControlInit, ControlNext, PTL DEF SpecControl
=============================================================================
