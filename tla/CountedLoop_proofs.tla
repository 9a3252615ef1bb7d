------------------------- MODULE CountedLoop_proofs -------------------------
(***************************************************************************)
(* Proofs about hardware loops, for every word width, gap, length and      *)
(* bound: what TLC counts on a few loops holds of all of them.             *)
(***************************************************************************)
EXTENDS CountedLoop, ControlFlow_proofs

(***************************************************************************)
(* What every program of LoopPrograms has in common.                       *)
(***************************************************************************)
LoopShape ==
  /\ First \in Nat /\ End \in Nat /\ StartAddress < First /\ First < End
  /\ End + 6 < EndOfProgram
  /\ DOMAIN program = 0 .. End + 6
  /\ program[0].op = "HWLOOP_INIT" /\ program[0].reg = "LOOPS"
  /\ program[1].op = "HWLOOP_INIT" /\ program[1].reg = "LOOPE"
  /\ program[2].op = "HWLOOP_INIT" /\ program[2].reg = "LOOPB" /\ Bound \in Word
  /\ program[StartAddress].op = "HWLOOP_START"
  /\ program[End + 1].op = "BRANCH" /\ program[End + 1].target \in {0, StartAddress}
  /\ program[End + 3].op = "JUMPL" /\ program[Callee].op = "JUMPL"
  /\ \A a \in (StartAddress + 1 .. First - 1) \cup {End, End + 2, End + 4, End + 6} :
       program[a].op = "NOP"
  /\ HasTransfer => TransferAt \in Body
  /\ \A a \in Body : ~HasTransfer \/ a # TransferAt => program[a].op = "NOP"
  /\ HasTransfer => \/ program[TransferAt].op = "BRANCH" /\ BranchTarget \in First .. End
                    \/ program[TransferAt].op = "CALL"
  /\ HasTransfer => program[TransferAt].target = BranchTarget

\* a body without a transfer, with a branch within the loop, or with a call
BodyTransfer(t, first, end) ==
  \/ t.op = "NOP" /\ t.at = 0
  \/ t.op = "BRANCH" /\ t.at \in first .. end - 1 /\ t.target \in first .. end
  \/ t.op = "CALL" /\ t.at \in first .. end - 1

LEMMA InstructionTable ==
  ASSUME NEW first \in Nat, NEW end \in Nat, StartAddress < first, first < end,
         NEW t, BodyTransfer(t, first, end), NEW b, NEW again
  PROVE  LET at(a) == LoopInstruction(a, first, end, b, t, again)
         IN  /\ at(0) = [op |-> "HWLOOP_INIT", reg |-> "LOOPS", target |-> first]
             /\ at(1) = [op |-> "HWLOOP_INIT", reg |-> "LOOPE", target |-> end]
             /\ at(2) = [op |-> "HWLOOP_INIT", reg |-> "LOOPB", bound |-> b]
             /\ at(StartAddress) = [op |-> "HWLOOP_START"]
             /\ at(end + 1) = [op |-> "BRANCH", target |-> again]
             /\ at(end + 3) = [op |-> "JUMPL"] /\ at(end + 5) = [op |-> "JUMPL"]
             /\ \A a \in (StartAddress + 1 .. first - 1) \cup {end, end + 2, end + 4, end + 6} :
                  at(a) = [op |-> "NOP"]
             /\ \A a \in first .. end - 1 :
                  /\ a # t.at \/ t.op = "NOP" => at(a) = [op |-> "NOP"]
                  /\ a = t.at /\ t.op = "BRANCH" => at(a) = [op |-> "BRANCH", target |-> t.target]
                  /\ a = t.at /\ t.op = "CALL" => at(a) = [op |-> "CALL", target |-> end + 5]
<1>1. StartAddress = 3
  BY DEF StartAddress
<1>2. \A a \in Nat : a \notin first .. end - 1 =>
        ~(a = t.at /\ a > 0 /\ t.op = "BRANCH") /\ ~(a = t.at /\ a > 0 /\ t.op = "CALL")
  BY DEF BodyTransfer
<1> DEFINE at(a) == LoopInstruction(a, first, end, b, t, again)
<1>3. /\ at(0) = [op |-> "HWLOOP_INIT", reg |-> "LOOPS", target |-> first]
      /\ at(1) = [op |-> "HWLOOP_INIT", reg |-> "LOOPE", target |-> end]
      /\ at(2) = [op |-> "HWLOOP_INIT", reg |-> "LOOPB", bound |-> b]
      /\ at(StartAddress) = [op |-> "HWLOOP_START"]
  <2>1. \A a \in 0 .. 3 : /\ a \in Nat /\ a \notin first .. end - 1
                          /\ a # end + 1 /\ a # end + 3 /\ a # end + 5
    BY <1>1
  <2>2. \A a \in 0 .. 3 : /\ ~(a = t.at /\ a > 0 /\ t.op = "BRANCH")
                          /\ ~(a = t.at /\ a > 0 /\ t.op = "CALL")
                          /\ a # end + 1 /\ a \notin {end + 3, end + 5}
    BY <1>2, <2>1
  <2>3. at(0) = [op |-> "HWLOOP_INIT", reg |-> "LOOPS", target |-> first]
    BY <1>1, <2>2 DEF LoopInstruction
  <2>4. at(1) = [op |-> "HWLOOP_INIT", reg |-> "LOOPE", target |-> end]
    BY <1>1, <2>2 DEF LoopInstruction
  <2>5. at(2) = [op |-> "HWLOOP_INIT", reg |-> "LOOPB", bound |-> b]
    BY <1>1, <2>2 DEF LoopInstruction
  <2>6. at(3) = [op |-> "HWLOOP_START"]
    BY <1>1, <2>2 DEF LoopInstruction
  <2> QED
    BY <1>1, <2>3, <2>4, <2>5, <2>6
<1>4. at(end + 1) = [op |-> "BRANCH", target |-> again]
  BY <1>1, <1>2 DEF LoopInstruction
<1>5. at(end + 3) = [op |-> "JUMPL"] /\ at(end + 5) = [op |-> "JUMPL"]
  BY <1>1, <1>2 DEF LoopInstruction
<1>6. \A a \in (StartAddress + 1 .. first - 1) \cup {end, end + 2, end + 4, end + 6} :
        at(a) = [op |-> "NOP"]
  BY <1>1, <1>2 DEF LoopInstruction
<1>7. ASSUME NEW a \in first .. end - 1
      PROVE  /\ a # t.at \/ t.op = "NOP" => at(a) = [op |-> "NOP"]
             /\ a = t.at /\ t.op = "BRANCH" => at(a) = [op |-> "BRANCH", target |-> t.target]
             /\ a = t.at /\ t.op = "CALL" => at(a) = [op |-> "CALL", target |-> end + 5]
  BY <1>1 DEF LoopInstruction
<1> QED
  BY <1>3, <1>4, <1>5, <1>6, <1>7

LEMMA TransferShape ==
  ASSUME NEW g \in Nat, NEW l \in Nat, NEW t \in Transfers(g, l)
  PROVE  BodyTransfer(t, StartAddress + 1 + g, StartAddress + 1 + g + l)
<1> DEFINE first == StartAddress + 1 + g
<1>1. \/ \E a \in first .. first + l - 1, d \in first .. first + l : t = BranchTo(a, d)
      \/ \E a \in first .. first + l - 1 : t = CallAt(a)
  BY DEF Transfers
<1>2. ASSUME NEW a \in first .. first + l - 1, NEW d \in first .. first + l, t = BranchTo(a, d)
      PROVE  BodyTransfer(t, first, first + l)
  BY <1>2 DEF BodyTransfer, BranchTo, StartAddress
<1>3. ASSUME NEW a \in first .. first + l - 1, t = CallAt(a)
      PROVE  BodyTransfer(t, first, first + l)
  BY <1>3 DEF BodyTransfer, CallAt, StartAddress
<1> QED
  BY <1>1, <1>2, <1>3

LEMMA EveryProgramShaped ==
  ASSUME program \in LoopPrograms
  PROVE  LoopShape
<1>1. PICK g \in Gaps, l \in BodyLengths, b \in Word, again \in {0, StartAddress} :
        \E t \in {Straight} \cup Transfers(g, l) : program = LoopProgram(g, l, b, t, again)
  <2>1. Bounds \subseteq Word /\ BranchBounds \subseteq Word
    BY LoopAssumption
  <2> QED
    BY <2>1 DEF LoopPrograms
<1>2. PICK t \in {Straight} \cup Transfers(g, l) : program = LoopProgram(g, l, b, t, again)
  BY <1>1
<1> DEFINE first == StartAddress + 1 + g
           end == first + l
<1>3. /\ first \in Nat /\ end \in Nat /\ StartAddress < first /\ first < end
      /\ end + 6 < EndOfProgram
  BY LoopAssumption DEF StartAddress
<1>4. /\ DOMAIN program = 0 .. end + 6
      /\ \A a \in 0 .. end + 6 : program[a] = LoopInstruction(a, first, end, b, t, again)
  BY <1>2 DEF LoopProgram
<1>5. BodyTransfer(t, first, end)
  <2>1. CASE t = Straight
    BY <2>1 DEF BodyTransfer, Straight
  <2>2. CASE t \in Transfers(g, l)
    BY <2>2, TransferShape, LoopAssumption
  <2> QED
    BY <2>1, <2>2
<1> HIDE DEF first, end
<1> DEFINE at(a) == LoopInstruction(a, first, end, b, t, again)
<1>6. /\ at(0) = [op |-> "HWLOOP_INIT", reg |-> "LOOPS", target |-> first]
      /\ at(1) = [op |-> "HWLOOP_INIT", reg |-> "LOOPE", target |-> end]
      /\ at(2) = [op |-> "HWLOOP_INIT", reg |-> "LOOPB", bound |-> b]
      /\ at(StartAddress) = [op |-> "HWLOOP_START"]
      /\ at(end + 1) = [op |-> "BRANCH", target |-> again]
      /\ at(end + 3) = [op |-> "JUMPL"] /\ at(end + 5) = [op |-> "JUMPL"]
      /\ \A a \in (StartAddress + 1 .. first - 1) \cup {end, end + 2, end + 4, end + 6} :
           at(a) = [op |-> "NOP"]
      /\ \A a \in first .. end - 1 :
           /\ a # t.at \/ t.op = "NOP" => at(a) = [op |-> "NOP"]
           /\ a = t.at /\ t.op = "BRANCH" => at(a) = [op |-> "BRANCH", target |-> t.target]
           /\ a = t.at /\ t.op = "CALL" => at(a) = [op |-> "CALL", target |-> end + 5]
  BY <1>3, <1>5, InstructionTable
<1>7. \A a \in 0 .. end + 6 : program[a] = at(a)
  BY <1>4
<1> HIDE DEF at
<1>8. /\ program[0] = [op |-> "HWLOOP_INIT", reg |-> "LOOPS", target |-> first]
      /\ program[1] = [op |-> "HWLOOP_INIT", reg |-> "LOOPE", target |-> end]
      /\ program[2] = [op |-> "HWLOOP_INIT", reg |-> "LOOPB", bound |-> b]
      /\ program[StartAddress] = [op |-> "HWLOOP_START"]
  <2>1. {0, 1, 2, StartAddress} \subseteq 0 .. end + 6
    BY <1>3 DEF StartAddress
  <2> QED
    BY <1>6, <1>7, <2>1
<1>9. First = first /\ End = end /\ Bound = b
  BY <1>8 DEF First, End, Bound
<1>10. /\ program[end + 1] = [op |-> "BRANCH", target |-> again]
       /\ program[end + 3] = [op |-> "JUMPL"] /\ program[end + 5] = [op |-> "JUMPL"]
  BY <1>3, <1>6, <1>7
<1>11. \A a \in (StartAddress + 1 .. first - 1) \cup {end, end + 2, end + 4, end + 6} :
         program[a].op = "NOP"
  <2>1. \A a \in (StartAddress + 1 .. first - 1) \cup {end, end + 2, end + 4, end + 6} :
          a \in 0 .. end + 6
    BY <1>3 DEF StartAddress
  <2> QED
    BY <1>6, <1>7, <2>1
<1>12. \A a \in Body :
         /\ a # t.at \/ t.op = "NOP" => program[a] = [op |-> "NOP"]
         /\ a = t.at /\ t.op = "BRANCH" => program[a] = [op |-> "BRANCH", target |-> t.target]
         /\ a = t.at /\ t.op = "CALL" => program[a] = [op |-> "CALL", target |-> end + 5]
  <2>1. \A a \in Body : a \in first .. end - 1 /\ a \in 0 .. end + 6
    BY <1>3, <1>9 DEF Body
  <2> QED
    BY <1>6, <1>7, <2>1
<1>13. HasTransfer => TransferAt \in Body /\ program[TransferAt].op # "NOP"
  BY DEF HasTransfer, TransferAt
<1>14. HasTransfer => TransferAt = t.at /\ t.op \in {"BRANCH", "CALL"}
  BY <1>5, <1>12, <1>13 DEF BodyTransfer
<1>15. \A a \in Body : ~HasTransfer \/ a # TransferAt => program[a].op = "NOP"
  <2> SUFFICES ASSUME NEW a \in Body, program[a].op # "NOP" PROVE HasTransfer /\ a = TransferAt
    OBVIOUS
  <2>1. HasTransfer
    BY DEF HasTransfer
  <2>2. a = t.at
    BY <1>12
  <2> QED
    BY <2>1, <2>2, <1>14
<1>16. ASSUME HasTransfer
       PROVE  /\ \/ program[TransferAt].op = "BRANCH" /\ BranchTarget \in First .. End
                 \/ program[TransferAt].op = "CALL"
              /\ program[TransferAt].target = BranchTarget
  <2>1. CASE t.op = "BRANCH"
    <3>1. program[TransferAt] = [op |-> "BRANCH", target |-> t.target]
      BY <1>12, <1>13, <1>14, <1>16, <2>1
    <3> QED
      BY <1>5, <1>9, <2>1, <3>1 DEF BranchTarget, BodyTransfer
  <2>2. CASE t.op = "CALL"
    <3>1. program[TransferAt] = [op |-> "CALL", target |-> end + 5]
      BY <1>12, <1>13, <1>14, <1>16, <2>2
    <3> QED
      BY <1>9, <3>1 DEF BranchTarget, Callee
  <2> QED
    BY <1>14, <1>16, <2>1, <2>2
<1> QED
  BY <1>3, <1>4, <1>8, <1>9, <1>10, <1>11, <1>13, <1>15, <1>16 DEF LoopShape, Callee
-----------------------------------------------------------------------------
\* where a program with room for its transfer can be while it runs
Position ==
  \/ pc \in 0 .. End + 3 /\ npc = pc + 1
  \/ pc = End - 1 /\ npc = First
  \/ pc = End + 2 /\ npc \in {0, StartAddress} /\ round = 2
  \/ pc = End + 4 /\ npc = EndOfProgram
  \/ /\ HasTransfer /\ program[TransferAt].op = "BRANCH"
     /\ pc = TransferAt + 1 /\ npc = BranchTarget /\ taken > 0
  \/ /\ HasTransfer /\ program[TransferAt].op = "CALL"
     /\ \/ pc = TransferAt + 1 /\ npc = Callee
        \/ pc = Callee /\ npc = Callee + 1
        \/ pc = Callee + 1 /\ npc = TransferAt + 2

\* the loop registers are those of the program once they have been set
LoopRegisters ==
  /\ pc # 0 \/ round = 2 => hwloop.start = First
  /\ pc \notin {0, 1} \/ round = 2 => hwloop.end = End
  /\ pc <= StartAddress /\ round = 1 => ~hwloop.active

\* how often the loop runs, and how often its last instruction has seen it run
Times == IF count = 0 THEN Modulus ELSE count
Ended == visits[End - 1]

Counted == IF HasTransfer THEN {First, End - 1} ELSE Body

InLoop == pc \in (StartAddress + 1 .. End - 1) \cup {Callee, Callee + 1}

\* a body of one instruction whose end is not looked for, or only by "hwloop start"
Unseen ==
  /\ pc = First /\ npc = End /\ First = End - 1
  /\ hwloop.active
  /\ Ended = 0

(***************************************************************************)
(* Inside the loop, the counter is what is left after as many iterations   *)
(* as the last instruction has seen; that instruction is reached with one  *)
(* iteration more paid for, and only its arrival decides what comes next.  *)
(***************************************************************************)
CounterRight ==
  /\ pc # End - 1 =>
       /\ hwloop.active
       /\ Ended = 0 => hwloop.counter = count
       /\ Ended > 0 => hwloop.counter = Times - Ended /\ hwloop.counter > 0
  /\ pc = End - 1 =>
       /\ hwloop.counter = Times - (Ended + 1)
       /\ hwloop.active <=> hwloop.counter > 0
       /\ npc = IF hwloop.counter > 0 THEN First ELSE End

\* the instructions before pc are one iteration ahead of those behind
IterationsRight ==
  ~Broken => \A a \in Counted \ {End - 1} : visits[a] = IF a < pc THEN Ended + 1 ELSE Ended

\* a branch to the end of the loop leaves it at once
LeavesAtOnce ==
  Broken /\ BranchTarget = End => HasTransfer /\ pc = TransferAt + 1 /\ npc = End

Underway ==
  /\ Position
  /\ LoopRegisters
  /\ InLoop => IF ~EndIsSeen \/ RevivedByStart THEN Unseen
               ELSE CounterRight /\ IterationsRight /\ LeavesAtOnce

LoopInvariant ==
  /\ ControlInvariant
  /\ LoopTypeOK
  /\ LoopShape
  /\ status \in {"running", "halted"}
  /\ status = "halted" => pc = EndOfProgram
  /\ status = "running" /\ RoomForTransfer => Underway
  /\ LoopRunsBoundTimes
  /\ LoopEndsWithBody
-----------------------------------------------------------------------------
\* the addresses of the program are words, far below the end of the address space
LEMMA SmallWords ==
  ASSUME LoopShape
  PROVE  /\ \A a \in 0 .. End + 6 : a \in Word /\ AddW(a, 1) = a + 1 /\ a # EndOfProgram
         /\ EndOfProgram \in Word /\ (Modulus - 1) \div 4 = EndOfProgram
         /\ \A a \in 0 .. End - 1 : 4 * a + 8 \in Word /\ (4 * a + 8) \div 4 = a + 2
<1>1. EndOfProgram \in Nat /\ 4 * EndOfProgram <= Modulus - 1
  BY HalfRangeAssumption DEF EndOfProgram, Modulus
<1>2. End \in Nat /\ End + 6 < EndOfProgram
  BY DEF LoopShape
<1> HIDE DEF EndOfProgram
<1>3. Modulus \in Nat
  BY HalfRangeAssumption DEF Modulus
<1>4. \A a \in 0 .. End + 6 : a \in Word /\ AddW(a, 1) = a + 1 /\ a # EndOfProgram
  BY <1>1, <1>2, <1>3 DEF Word, AddW
<1>5. \A a \in 0 .. End - 1 : 4 * a + 8 \in Word /\ (4 * a + 8) \div 4 = a + 2
  BY <1>1, <1>2, <1>3 DEF Word
<1> QED
  BY <1>1, <1>3, <1>4, <1>5 DEF Word, EndOfProgram

\* what depends on the program alone does not change
LEMMA SameProgram ==
  ASSUME program' = program
  PROVE  /\ First' = First /\ End' = End /\ Bound' = Bound /\ Callee' = Callee
         /\ Body' = Body /\ HasTransfer' = HasTransfer
         /\ TransferAt' = TransferAt /\ BranchTarget' = BranchTarget
         /\ RoomForTransfer' = RoomForTransfer /\ Counted' = Counted
<1>1. First' = First /\ End' = End /\ Bound' = Bound
  BY DEF First, End, Bound
<1>2. Callee' = Callee /\ Body' = Body
  BY <1>1 DEF Callee, Body
<1> DEFINE has(p, B) == \E a \in B : p[a].op # "NOP"
           at(p, B) == CHOOSE a \in B : p[a].op # "NOP"
<1>3. HasTransfer = has(program, Body) /\ HasTransfer' = has(program', Body')
  BY DEF HasTransfer
<1>4. TransferAt = at(program, Body) /\ TransferAt' = at(program', Body')
  BY DEF TransferAt
<1> HIDE DEF has, at
<1>5. HasTransfer' = HasTransfer /\ TransferAt' = TransferAt
  BY <1>2, <1>3, <1>4
<1>6. BranchTarget' = BranchTarget
  BY <1>2, <1>5 DEF BranchTarget
<1>7. RoomForTransfer' = RoomForTransfer
  BY <1>1, <1>5 DEF RoomForTransfer
<1>8. Counted' = Counted
  BY <1>1, <1>2, <1>5 DEF Counted
<1> QED
  BY <1>1, <1>2, <1>5, <1>6, <1>7, <1>8

LEMMA SameShape == LoopShape /\ program' = program => LoopShape'
BY SameProgram DEF LoopShape
-----------------------------------------------------------------------------
\* what the fetch leaves in npc and in the loop registers
LEMMA FetchEffect ==
  ASSUME ControlTypeOK
  PROVE  /\ ~AtLoopEnd => SequentialNpc = AddW(npc, 1) /\ SteppedLoop = hwloop
         /\ SteppedLoop \in HwloopType
         /\ SteppedLoop.start = hwloop.start /\ SteppedLoop.end = hwloop.end
         /\ AtLoopEnd =>
              LET left == SubW(hwloop.counter, 1)
              IN  /\ SequentialNpc = IF left > 0 THEN hwloop.start ELSE AddW(npc, 1)
                  /\ SteppedLoop.counter = left
                  /\ SteppedLoop.active <=> left > 0
<1>1. SteppedLoop \in HwloopType
  BY FetchTyped
<1>2. /\ SteppedLoop.start = hwloop.start /\ SteppedLoop.end = hwloop.end
      /\ SteppedLoop.counter = LoopCounter
      /\ SteppedLoop.active <=> hwloop.active /\ (AtLoopEnd => LoopsBack)
  BY DEF SteppedLoop, ControlTypeOK, HwloopType
<1>3. ASSUME ~AtLoopEnd
      PROVE  SequentialNpc = AddW(npc, 1) /\ SteppedLoop = hwloop
  <2>1. LoopCounter = hwloop.counter /\ ~LoopsBack
    BY <1>3 DEF LoopCounter, LoopsBack
  <2>2. SteppedLoop.active = hwloop.active
    BY <1>1, <1>2, <1>3 DEF ControlTypeOK, HwloopType
  <2> QED
    BY <1>1, <1>2, <2>1, <2>2 DEF SequentialNpc, ControlTypeOK, HwloopType
<1>4. ASSUME AtLoopEnd
      PROVE  /\ SequentialNpc = IF SubW(hwloop.counter, 1) > 0 THEN hwloop.start
                                ELSE AddW(npc, 1)
             /\ SteppedLoop.counter = SubW(hwloop.counter, 1)
             /\ SteppedLoop.active <=> SubW(hwloop.counter, 1) > 0
  BY <1>2, <1>4 DEF LoopCounter, LoopsBack, SequentialNpc, AtLoopEnd
<1> QED
  BY <1>1, <1>2, <1>3, <1>4

\* the opcode at pc decides which action is taken
LEMMA StepByOpcode ==
  ASSUME Step
  PROVE  /\ Fetching /\ Count /\ program' = program /\ pc' = npc
         /\ status' = IF npc = EndOfProgram THEN "halted" ELSE "running"
         /\ program[pc].op = "NOP" => SequentialStep
         /\ program[pc].op = "HWLOOP_INIT" => InitStep
         /\ program[pc].op = "HWLOOP_START" => StartStep
         /\ program[pc].op \in {"BRANCH", "CALL"} => TransferStep \/ AgainStep
         /\ program[pc].op = "JUMPL" => ReturnStep
<1>1. CASE SequentialStep
  BY <1>1 DEF Step, SequentialStep, Sequential, ProceedInSequence, Proceed, Fetched, Fetching, TransferOps
<1>2. CASE InitStep
  BY <1>2 DEF Step, InitStep, HwloopInit, Proceed, Fetched, Fetching
<1>3. CASE StartStep
  BY <1>3 DEF Step, StartStep, HwloopStart, Proceed, Fetched, Fetching
<1>4. CASE TransferStep
  BY <1>4 DEF Step, TransferStep, Call, Branch, Proceed, Fetched, Fetching
<1>5. CASE AgainStep
  BY <1>5 DEF Step, AgainStep, Branch, Proceed, Fetched, Fetching
<1>6. CASE ReturnStep
  BY <1>6 DEF Step, ReturnStep, Jumpl, Proceed, Fetched, Fetching
<1> QED
  BY <1>1, <1>2, <1>3, <1>4, <1>5, <1>6 DEF Step

\* an instruction without effect on the control
LEMMA NopStep ==
  ASSUME ControlTypeOK, Step, program[pc].op = "NOP"
  PROVE  /\ UNCHANGED <<taken, round, count, stale>>
         /\ pc # StartAddress => visits' = [visits EXCEPT ![pc] = @ + 1]
         /\ ~AtLoopEnd => npc' = AddW(npc, 1) /\ hwloop' = hwloop
         /\ hwloop'.start = hwloop.start /\ hwloop'.end = hwloop.end
         /\ AtLoopEnd => /\ hwloop'.counter = SubW(hwloop.counter, 1)
                         /\ hwloop'.active <=> hwloop'.counter > 0
                         /\ npc' = IF hwloop'.counter > 0 THEN hwloop.start ELSE AddW(npc, 1)
<1>1. SequentialStep /\ Count
  BY StepByOpcode
<1>2. npc' = SequentialNpc /\ hwloop' = SteppedLoop
  BY <1>1 DEF SequentialStep, Sequential, ProceedInSequence, Proceed
<1> QED
  BY <1>1, <1>2, FetchEffect DEF SequentialStep, Count

\* every step is one of the control flow's
LEMMA StepIsControlStep ==
  ASSUME LoopInvariant, Step
  PROVE  NextControl
<1>1. LoopShape /\ LoopTypeOK /\ status = "running" /\ ControlInvariant
  BY StepByOpcode DEF LoopInvariant, Fetching
<1>2. CASE SequentialStep
  BY <1>2 DEF SequentialStep, NextControl
<1>3. CASE InitStep
  <2>1. (IF pc = 2 THEN Bound ELSE 0) \in Word
    BY <1>1, ControlWords DEF LoopShape
  <2> QED
    BY <1>3, <2>1 DEF InitStep, NextControl
<1>4. CASE StartStep
  BY <1>4 DEF StartStep, NextControl
<1>5. CASE TransferStep \/ AgainStep
  BY <1>5 DEF TransferStep, AgainStep, NextControl
<1>6. CASE ReturnStep
  <2>1. pc = Callee => TransferAt \in 0 .. End - 1
    <3>1. ASSUME pc = Callee PROVE HasTransfer
      <4>1. ASSUME ~HasTransfer PROVE FALSE
        <5>1. Position
          BY <1>1, <4>1 DEF LoopInvariant, Underway, RoomForTransfer
        <5> QED
          BY <1>1, <3>1, <4>1, <5>1 DEF Position, LoopShape, Callee
      <4> QED
        BY <4>1
    <3> QED
      BY <1>1, <3>1 DEF LoopShape, Body
  <2>2. (IF pc = Callee THEN 4 * TransferAt + 8 ELSE Modulus - 1) \in Word
    BY <1>1, <2>1, SmallWords, HalfRangeAssumption DEF Modulus, Word
  <2> QED
    BY <1>6, <2>2 DEF ReturnStep, NextControl
<1> QED
  BY <1>2, <1>3, <1>4, <1>5, <1>6 DEF Step
-----------------------------------------------------------------------------
LEMMA LoopInit == Init => LoopInvariant
<1> SUFFICES ASSUME Init PROVE LoopInvariant
  OBVIOUS
<1>1. ControlInvariant /\ program \in LoopPrograms
  BY ControlInit, LoopProgramsAssumption DEF Init, ResetControl
<1>2. LoopShape
  BY <1>1, EveryProgramShaped
<1>3. LoopTypeOK
  BY <1>1, ControlWords DEF ControlInvariant, LoopTypeOK, Init
<1>4. /\ pc = 0 /\ npc = 1 /\ status = "running" /\ round = 1 /\ ~hwloop.active
      /\ pc \in 0 .. End + 3 /\ ~InLoop /\ pc # End
  BY <1>2 DEF Init, ResetControl, LoopShape, InLoop, StartAddress, Callee
<1>5. Position /\ LoopRegisters
  BY <1>4 DEF Position, LoopRegisters
<1> QED
  BY <1>1, <1>2, <1>3, <1>4, <1>5 DEF LoopInvariant, Underway, LoopRunsBoundTimes, LoopEndsWithBody

\* the types, and the program, under every step
LEMMA TypesKept ==
  ASSUME LoopInvariant, Step
  PROVE  /\ ControlInvariant' /\ LoopTypeOK' /\ LoopShape'
         /\ status' \in {"running", "halted"}
         /\ status' = "halted" => pc' = EndOfProgram
<1>1. LoopShape /\ LoopTypeOK /\ ControlTypeOK /\ ControlInvariant
  BY DEF LoopInvariant, LoopTypeOK
<1>2. ControlInvariant'
  BY <1>1, StepIsControlStep, ControlNext
<1>3. program' = program /\ Count /\ pc \in DOMAIN program /\ pc' = npc
      /\ status' = IF npc = EndOfProgram THEN "halted" ELSE "running"
  BY StepByOpcode DEF Fetching
<1>4. visits' \in [DOMAIN program' -> Nat]
  BY <1>1, <1>3 DEF LoopTypeOK, Count
<1>5. taken' \in Nat /\ round' \in {1, 2} /\ count' \in Word /\ stale' \in BOOLEAN
  <2>1. hwloop.counter \in Word /\ hwloop.active \in BOOLEAN
    BY <1>1 DEF ControlTypeOK, HwloopType
  <2>2. taken \in Nat /\ round \in {1, 2} /\ count \in Word /\ stale \in BOOLEAN
    BY <1>1 DEF LoopTypeOK
  <2>3. taken' \in {taken, taken + 1, 0} /\ round' \in {round, 2}
    BY DEF Step, SequentialStep, InitStep, StartStep, TransferStep, AgainStep, ReturnStep
  <2>4. \/ count' = count /\ stale' = stale
        \/ count' = hwloop.counter /\ stale' = hwloop.active
    BY DEF Step, SequentialStep, InitStep, StartStep, TransferStep, AgainStep, ReturnStep
  <2>5. taken' \in Nat /\ round' \in {1, 2}
    BY <2>2, <2>3
  <2>6. count' \in Word
    BY <2>1, <2>2, <2>4
  <2>7. stale' \in BOOLEAN
    BY <2>1, <2>2, <2>4
  <2> QED
    BY <2>5, <2>6, <2>7
<1>6. LoopTypeOK'
  BY <1>2, <1>4, <1>5 DEF ControlInvariant, LoopTypeOK
<1>7. status' \in {"running", "halted"} /\ (status' = "halted" => pc' = EndOfProgram)
  BY <1>3 DEF EndOfProgram
<1> QED
  BY <1>1, <1>2, <1>3, <1>6, <1>7, SameShape
-----------------------------------------------------------------------------
\* what is left to show of a step of a program with room for its transfer
Kept == status = "running" /\ Underway /\ LoopRunsBoundTimes /\ LoopEndsWithBody

\* where the next step finds the program, in terms of the addresses known now
LEMMA NextPosition ==
  ASSUME program' = program
  PROVE  Position' <=>
           \/ pc' \in 0 .. End + 3 /\ npc' = pc' + 1
           \/ pc' = End - 1 /\ npc' = First
           \/ pc' = End + 2 /\ npc' \in {0, StartAddress} /\ round' = 2
           \/ pc' = End + 4 /\ npc' = EndOfProgram
           \/ /\ HasTransfer /\ program[TransferAt].op = "BRANCH"
              /\ pc' = TransferAt + 1 /\ npc' = BranchTarget /\ taken' > 0
           \/ /\ HasTransfer /\ program[TransferAt].op = "CALL"
              /\ \/ pc' = TransferAt + 1 /\ npc' = Callee
                 \/ pc' = Callee /\ npc' = Callee + 1
                 \/ pc' = Callee + 1 /\ npc' = TransferAt + 2
BY SameProgram DEF Position, EndOfProgram, Modulus

LEMMA NextInSequence ==
  ASSUME program' = program, pc' \in Nat, pc' <= End + 3, End \in Nat, npc' = pc' + 1
  PROVE  Position'
<1>1. pc' \in 0 .. End' + 3 /\ npc' = pc' + 1
  BY SameProgram
<1> QED
  BY <1>1 DEF Position

LEMMA NextRegisters ==
  ASSUME program' = program
  PROVE  LoopRegisters' <=>
           /\ pc' # 0 \/ round' = 2 => hwloop'.start = First
           /\ pc' \notin {0, 1} \/ round' = 2 => hwloop'.end = End
           /\ pc' <= StartAddress /\ round' = 1 => ~hwloop'.active
BY SameProgram DEF LoopRegisters, StartAddress

LEMMA NextInLoop ==
  ASSUME program' = program
  PROVE  InLoop' <=> pc' \in (StartAddress + 1 .. End - 1) \cup {Callee, Callee + 1}
BY SameProgram DEF InLoop, StartAddress

\* outside the loop and not right behind it, only the place matters
LEMMA KeptOutside ==
  ASSUME program' = program, status' = "running", Position', LoopRegisters',
         pc' # End, pc' \notin (StartAddress + 1 .. End - 1) \cup {Callee, Callee + 1}
  PROVE  Kept'
BY NextInLoop, SameProgram DEF Kept, Underway, LoopRunsBoundTimes, LoopEndsWithBody

\* the state a step starts from
LEMMA StepContext ==
  ASSUME LoopInvariant, RoomForTransfer, Step
  PROVE  /\ ControlTypeOK /\ LoopShape /\ Position /\ LoopRegisters /\ Underway
         /\ hwloop.counter \in Word /\ count \in Word /\ taken \in Nat /\ round \in {1, 2}
         /\ visits \in [0 .. End + 6 -> Nat]
<1>1. status = "running"
  BY StepByOpcode DEF Fetching
<1>2. ControlTypeOK /\ LoopTypeOK /\ LoopShape /\ Underway
  BY <1>1 DEF LoopInvariant, LoopTypeOK
<1>3. DOMAIN program = 0 .. End + 6
  BY <1>2 DEF LoopShape
<1>4. hwloop.counter \in Word
  BY <1>2 DEF ControlTypeOK, HwloopType
<1> QED
  BY <1>1, <1>2, <1>3, <1>4 DEF LoopTypeOK, Underway

\* what every step does
LEMMA StepMoves ==
  ASSUME Step
  PROVE  /\ program' = program /\ pc' = npc
         /\ status' = IF npc = EndOfProgram THEN "halted" ELSE "running"
BY StepByOpcode

\* the addresses of the program, and where its transfer has room
LEMMA Addresses ==
  ASSUME LoopInvariant, RoomForTransfer, Step
  PROVE  /\ LoopShape
         /\ First \in Nat /\ End \in Nat /\ 3 < First /\ First < End
         /\ StartAddress = 3 /\ Callee = End + 5
         /\ pc \in Nat /\ pc <= End + 6
         /\ HasTransfer => TransferAt \in Nat /\ First <= TransferAt /\ TransferAt + 3 <= End
<1>1. LoopShape /\ pc \in DOMAIN program
  BY StepByOpcode DEF LoopInvariant, Fetching
<1>2. /\ First \in Nat /\ End \in Nat /\ 3 < First /\ First < End
      /\ StartAddress = 3 /\ Callee = End + 5
      /\ DOMAIN program = 0 .. End + 6
  BY <1>1 DEF LoopShape, StartAddress, Callee
<1>3. HasTransfer => TransferAt \in Nat /\ First <= TransferAt /\ TransferAt + 3 <= End
  BY <1>1, <1>2 DEF LoopShape, RoomForTransfer, Body
<1> QED
  BY <1>1, <1>2, <1>3

\* the instruction fetched next, by the place of this one
PlaceOfNext ==
  /\ pc < First \/ pc = End \/ pc = End + 1 \/ pc = End + 3 => npc = pc + 1
  /\ pc = End + 2 => npc = pc + 1 \/ ((npc = 0 \/ npc = StartAddress) /\ round = 2)
  /\ pc = End + 4 => npc = EndOfProgram
  /\ First <= pc /\ pc < End =>
       \/ npc = pc + 1
       \/ pc = End - 1 /\ npc = First
       \/ /\ HasTransfer /\ program[TransferAt].op = "BRANCH"
          /\ pc = TransferAt + 1 /\ npc = BranchTarget /\ taken > 0
       \/ /\ HasTransfer /\ program[TransferAt].op = "CALL"
          /\ pc = TransferAt + 1 /\ npc = Callee
  /\ pc = Callee \/ pc = Callee + 1 =>
       /\ HasTransfer /\ program[TransferAt].op = "CALL"
       /\ npc = IF pc = Callee THEN Callee + 1 ELSE TransferAt + 2

LEMMA NextPlace ==
  ASSUME LoopInvariant, RoomForTransfer, Step
  PROVE  PlaceOfNext
<1>0. /\ First \in Nat /\ End \in Nat /\ 3 < First /\ First < End
      /\ StartAddress = 3 /\ Callee = End + 5 /\ pc \in Nat
      /\ HasTransfer => TransferAt \in Nat /\ First <= TransferAt /\ TransferAt + 3 <= End
  BY Addresses
<1>1. CASE pc \in 0 .. End + 3 /\ npc = pc + 1
  BY <1>1, <1>0 DEF PlaceOfNext
<1>2. CASE pc = End - 1 /\ npc = First
  BY <1>2, <1>0 DEF PlaceOfNext
<1>3. CASE pc = End + 2 /\ npc \in {0, StartAddress} /\ round = 2
  BY <1>3, <1>0 DEF PlaceOfNext
<1>4. CASE pc = End + 4 /\ npc = EndOfProgram
  BY <1>4, <1>0 DEF PlaceOfNext
<1>5. CASE /\ HasTransfer /\ program[TransferAt].op = "BRANCH"
           /\ pc = TransferAt + 1 /\ npc = BranchTarget /\ taken > 0
  BY <1>5, <1>0 DEF PlaceOfNext
<1>6. CASE /\ HasTransfer /\ program[TransferAt].op = "CALL"
           /\ \/ pc = TransferAt + 1 /\ npc = Callee
              \/ pc = Callee /\ npc = Callee + 1
              \/ pc = Callee + 1 /\ npc = TransferAt + 2
  BY <1>6, <1>0 DEF PlaceOfNext
<1>7. Position
  BY StepContext
<1> QED
  BY <1>1, <1>2, <1>3, <1>4, <1>5, <1>6, <1>7 DEF Position
-----------------------------------------------------------------------------
(***************************************************************************)
(* The steps outside the loop: the three "hwloop init", the instructions   *)
(* behind the loop and the return from main.                               *)
(***************************************************************************)
LEMMA InitStepKept ==
  ASSUME LoopInvariant, RoomForTransfer, Step, pc \in {0, 1, 2}
  PROVE  Kept'
<1>1. npc = pc + 1
  BY Addresses, NextPlace DEF PlaceOfNext
<1>2. AddW(npc, 1) = npc + 1 /\ npc # EndOfProgram
  BY <1>1, Addresses, SmallWords
<1>3. ~AtLoopEnd
  <2>1. LoopRegisters /\ (round = 1 \/ round = 2)
    BY StepContext
  <2>2. hwloop.active => hwloop.end = End
    BY <2>1, Addresses DEF LoopRegisters
  <2> QED
    BY <1>1, <1>2, <2>2, Addresses DEF AtLoopEnd
<1>4. InitStep /\ program[pc].op = "HWLOOP_INIT"
  BY StepContext, StepByOpcode DEF LoopShape
<1>5. SequentialNpc = npc + 1 /\ SteppedLoop = hwloop
  BY <1>2, <1>3, StepContext, FetchEffect
<1>6. /\ npc' = npc + 1 /\ round' = round
      /\ pc = 0 => hwloop' = [hwloop EXCEPT !.start = First]
      /\ pc = 1 => hwloop' = [hwloop EXCEPT !.end = End]
      /\ pc = 2 => hwloop' = [hwloop EXCEPT !.counter = Bound]
  BY <1>4, <1>5, StepContext
     DEF InitStep, HwloopInit, Proceed, Fetched, LoopShape, First, End
<1>7. /\ pc = 0 => hwloop'.start = First
      /\ pc # 0 => hwloop'.start = hwloop.start
      /\ pc = 1 => hwloop'.end = End
      /\ pc # 1 => hwloop'.end = hwloop.end
      /\ hwloop'.active = hwloop.active
  BY <1>6, StepContext DEF ControlTypeOK, HwloopType
<1>8. status' = "running"
  BY <1>2, StepMoves
<1>9. Position'
  BY <1>1, <1>6, Addresses, StepMoves, NextPosition
<1>10. LoopRegisters'
  <2>1. LoopRegisters
    BY StepContext
  <2> QED
    BY <1>1, <1>6, <1>7, <2>1, Addresses, StepMoves, NextRegisters DEF LoopRegisters
<1> QED
  BY <1>1, <1>8, <1>9, <1>10, Addresses, StepMoves, KeptOutside

\* behind the loop nothing is the end of the loop any more
LEMMA FetchBehindLoop ==
  ASSUME LoopInvariant, RoomForTransfer, Step, End <= pc, pc <= End + 3
  PROVE  /\ AddW(npc, 1) = npc + 1 /\ npc # EndOfProgram /\ npc # End
         /\ npc \in 0 .. StartAddress \cup End + 1 .. End + 4
         /\ ~AtLoopEnd
         /\ SequentialNpc = npc + 1 /\ SteppedLoop = hwloop
<1>1. npc \in 0 .. StartAddress \cup End + 1 .. End + 4
  <2>1. \/ npc = pc + 1
        \/ npc = 0 \/ npc = StartAddress
    BY Addresses, NextPlace DEF PlaceOfNext
  <2> QED
    BY <2>1, Addresses
<1>2. AddW(npc, 1) = npc + 1 /\ npc # EndOfProgram /\ npc # End
  BY <1>1, Addresses, SmallWords
<1>3. hwloop.end = End
  BY Addresses, StepContext DEF LoopRegisters
<1>4. ~AtLoopEnd
  BY <1>1, <1>2, <1>3, Addresses DEF AtLoopEnd
<1> QED
  BY <1>1, <1>2, <1>4, StepContext, FetchEffect

LEMMA BehindLoopKept ==
  ASSUME LoopInvariant, RoomForTransfer, Step, End <= pc, pc <= End + 3
  PROVE  Kept'
<1>1. status' = "running" /\ pc' = npc
  BY FetchBehindLoop, StepMoves
<1>2. /\ hwloop.start = First /\ hwloop.end = End
      /\ pc' <= StartAddress => round = 2
  <2>1. hwloop.start = First /\ hwloop.end = End
    <3>1. LoopRegisters
      BY StepContext
    <3> QED
      BY <3>1, Addresses DEF LoopRegisters
  <2>2. npc <= StartAddress => round = 2
    BY Addresses, NextPlace DEF PlaceOfNext
  <2> QED
    BY <1>1, <2>1, <2>2
<1>3. ASSUME hwloop' = hwloop, round' = round \/ round' = 2, Position'
      PROVE  Kept'
  <2>1. LoopRegisters'
    BY <1>1, <1>2, <1>3, StepMoves, NextRegisters
  <2>2. pc' # End /\ pc' \notin (StartAddress + 1 .. End - 1) \cup {Callee, Callee + 1}
    BY <1>1, FetchBehindLoop, Addresses
  <2> QED
    BY <1>1, <1>3, <2>1, <2>2, StepMoves, KeptOutside
<1>4. CASE pc = End \/ pc = End + 2
  <2>1. program[pc].op = "NOP"
    BY <1>4, StepContext DEF LoopShape
  <2>2. npc' = npc + 1 /\ hwloop' = hwloop /\ round' = round
    BY <2>1, FetchBehindLoop, StepContext, NopStep
  <2>3. npc \in 0 .. End + 3
    BY <1>4, Addresses, NextPlace DEF PlaceOfNext
  <2>4. Position'
    BY <1>1, <2>2, <2>3, StepMoves, NextPosition
  <2> QED
    BY <1>3, <2>2, <2>4
<1>5. CASE pc = End + 1
  <2>1. program[pc].op = "BRANCH" /\ program[pc].target \in {0, StartAddress} /\ pc \notin Body
    BY <1>5, StepContext DEF LoopShape, Body
  <2>2. AgainStep
    BY <2>1, StepByOpcode DEF TransferStep
  <2>3. /\ hwloop' = hwloop
        /\ \/ npc' = npc + 1 /\ round' = round
           \/ npc' \in {0, StartAddress} /\ round' = 2
    BY <2>1, <2>2, FetchBehindLoop DEF AgainStep, Branch, Proceed, Fetched
  <2>4. npc = End + 2
    BY <1>5, Addresses, NextPlace DEF PlaceOfNext
  <2>5. Position'
    BY <1>1, <2>3, <2>4, Addresses, StepMoves, NextPosition
  <2> QED
    BY <1>3, <2>3, <2>5
<1>6. CASE pc = End + 3
  <2>1. program[pc].op = "JUMPL" /\ pc # Callee
    BY <1>6, Addresses, StepContext DEF LoopShape
  <2>2. hwloop' = hwloop /\ npc' = EndOfProgram /\ round' = round
    BY <2>1, FetchBehindLoop, StepByOpcode DEF ReturnStep, Jumpl, Proceed, EndOfProgram
  <2>3. npc = End + 4
    BY <1>6, Addresses, NextPlace DEF PlaceOfNext
  <2>4. Position'
    BY <1>1, <2>2, <2>3, StepMoves, NextPosition
  <2> QED
    BY <1>3, <2>2, <2>4
<1> QED
  BY <1>4, <1>5, <1>6, Addresses

\* the delay slot of the return ends the simulation
LEMMA ReturnHalts ==
  ASSUME LoopInvariant, RoomForTransfer, Step, pc = End + 4
  PROVE  status' = "halted" /\ pc' = EndOfProgram
<1>1. npc = EndOfProgram
  BY NextPlace DEF PlaceOfNext
<1> QED
  BY <1>1, StepMoves
-----------------------------------------------------------------------------
\* what the next state says of the loop, in terms of the addresses known now
LEMMA NextEnded == program' = program => Ended' = visits'[End - 1]
BY SameProgram DEF Ended

LEMMA NextTimes == Times' = IF count' = 0 THEN Modulus ELSE count'
BY DEF Times, Modulus

LEMMA NextBroken ==
  program' = program => (Broken' <=> taken' > 0 /\ BranchTarget \in {First, End})
BY SameProgram DEF Broken

LEMMA NextSeen ==
  program' = program => /\ EndIsSeen' <=> End - 2 > StartAddress \/ stale'
                        /\ RevivedByStart' <=> End - 2 = StartAddress /\ stale' /\ count' = 1
BY SameProgram DEF EndIsSeen, RevivedByStart, StartAddress

LEMMA NextUnseen ==
  ASSUME program' = program
  PROVE  Unseen' <=> /\ pc' = First /\ npc' = End /\ First = End - 1
                     /\ hwloop'.active /\ Ended' = 0
BY SameProgram DEF Unseen

LEMMA NextCounter ==
  ASSUME program' = program
  PROVE  CounterRight' <=>
           /\ pc' # End - 1 =>
                /\ hwloop'.active
                /\ Ended' = 0 => hwloop'.counter = count'
                /\ Ended' > 0 => hwloop'.counter = Times' - Ended' /\ hwloop'.counter > 0
           /\ pc' = End - 1 =>
                /\ hwloop'.counter = Times' - (Ended' + 1)
                /\ hwloop'.active <=> hwloop'.counter > 0
                /\ npc' = IF hwloop'.counter > 0 THEN First ELSE End
BY SameProgram DEF CounterRight

LEMMA NextIterations ==
  ASSUME program' = program
  PROVE  IterationsRight' <=>
           (~Broken' => \A a \in Counted \ {End - 1} :
                          visits'[a] = IF a < pc' THEN Ended' + 1 ELSE Ended')
BY SameProgram DEF IterationsRight

LEMMA NextLeaving ==
  ASSUME program' = program
  PROVE  LeavesAtOnce' <=>
           (Broken' /\ BranchTarget = End => HasTransfer /\ pc' = TransferAt + 1 /\ npc' = End)
BY SameProgram DEF LeavesAtOnce

\* inside the loop, nothing is said yet of its end
LEMMA KeptInside ==
  ASSUME program' = program, status' = "running", Position', LoopRegisters', pc' # End,
         IF ~EndIsSeen' \/ RevivedByStart' THEN Unseen'
         ELSE CounterRight' /\ IterationsRight' /\ LeavesAtOnce'
  PROVE  Kept'
BY SameProgram DEF Kept, Underway, LoopRunsBoundTimes, LoopEndsWithBody

\* a loop counter of zero wraps
LEMMA CountDown ==
  ASSUME NEW c \in Word
  PROVE  /\ SubW(c, 1) = IF c = 0 THEN Modulus - 1 ELSE c - 1
         /\ Modulus \in Nat /\ Modulus >= 2
BY HalfRangeAssumption DEF SubW, Word, Modulus

(***************************************************************************)
(* "hwloop start" begins the count.  Only for a body of one instruction    *)
(* right behind it can its own fetch be where the end of the loop is       *)
(* looked for, and only if the loop was active before.                     *)
(***************************************************************************)
LEMMA StartStepKept ==
  ASSUME LoopInvariant, RoomForTransfer, Step, pc = StartAddress
  PROVE  Kept'
<1> DEFINE left == SubW(hwloop.counter, 1)
<1>1. npc = 4 /\ AddW(npc, 1) = 5 /\ npc # EndOfProgram /\ pc' = 4
  BY Addresses, StepContext, StepMoves, NextPlace, SmallWords DEF PlaceOfNext
<1>2. hwloop.end = End /\ hwloop.start = First
  BY Addresses, StepContext DEF LoopRegisters
<1>3. AtLoopEnd <=> hwloop.active /\ End = 5
  BY <1>1, <1>2 DEF AtLoopEnd
<1>4. StartStep /\ Count
  BY StepContext, StepByOpcode DEF LoopShape
<1>5. /\ npc' = SequentialNpc /\ hwloop' = [SteppedLoop EXCEPT !.active = TRUE]
      /\ count' = hwloop.counter /\ stale' = hwloop.active /\ taken' = 0 /\ round' = round
  BY <1>4 DEF StartStep, HwloopStart, Proceed
<1>6. /\ hwloop'.start = First /\ hwloop'.end = End /\ hwloop'.active
      /\ AtLoopEnd => hwloop'.counter = left /\ npc' = IF left > 0 THEN First ELSE 5
      /\ ~AtLoopEnd => hwloop'.counter = count' /\ npc' = 5
  BY <1>1, <1>2, <1>5, StepContext, FetchEffect DEF HwloopType
<1>7. \A a \in 0 .. End + 6 : visits'[a] = 0
  BY <1>4, StepContext DEF Count, LoopShape
<1>8. /\ status' = "running" /\ ~Broken' /\ Ended' = 0
      /\ LoopRegisters' /\ LeavesAtOnce'
  <2>1. status' = "running" /\ ~Broken' /\ Ended' = 0
    BY <1>1, <1>5, <1>7, Addresses, StepMoves, NextEnded, NextBroken
  <2>2. LoopRegisters'
    BY <1>1, <1>6, Addresses, StepMoves, NextRegisters
  <2>3. LeavesAtOnce'
    BY <2>1, StepMoves, NextLeaving
  <2> QED
    BY <2>1, <2>2, <2>3
<1>9. CASE End > 5
  <2>1. npc' = 5 /\ hwloop'.counter = count'
    BY <1>3, <1>6, <1>9
  <2>2. EndIsSeen' /\ ~RevivedByStart'
    BY <1>9, Addresses, StepMoves, NextSeen
  <2>3. CounterRight'
    BY <1>1, <1>6, <1>8, <1>9, <2>1, StepMoves, NextCounter
  <2>4. \A a \in Counted : a \in 0 .. End + 6 /\ First <= a
    BY Addresses DEF Counted, Body
  <2>5. IterationsRight'
    BY <1>1, <1>7, <1>8, <2>4, Addresses, StepMoves, NextIterations
  <2>6. Position'
    BY <1>1, <1>9, <2>1, Addresses, StepMoves, NextPosition
  <2> QED
    BY <1>1, <1>8, <1>9, <2>2, <2>3, <2>5, <2>6, StepMoves, KeptInside
<1>10. CASE End = 5
  <2>1. First = 4 /\ pc' # End /\ Counted \ {End - 1} = {}
    BY <1>1, <1>10, Addresses DEF Counted, Body
  <2>2. npc' \in {First, End}
    BY <1>6, <1>10, <2>1
  <2>3. Position'
    BY <1>1, <1>10, <2>1, <2>2, StepMoves, NextPosition
  <2>4. CASE ~hwloop.active
    <3>1. ~EndIsSeen'
      BY <1>5, <1>10, <2>4, Addresses, StepMoves, NextSeen
    <3>2. Unseen'
      BY <1>1, <1>3, <1>6, <1>8, <1>10, <2>1, <2>4, StepMoves, NextUnseen
    <3> QED
      BY <1>8, <2>1, <2>3, <3>1, <3>2, StepMoves, KeptInside
  <2>5. CASE hwloop.active
    <3>1. /\ hwloop'.counter = left /\ npc' = IF left > 0 THEN First ELSE End
          /\ EndIsSeen' /\ (RevivedByStart' <=> count' = 1)
      BY <1>3, <1>5, <1>6, <1>10, <2>5, Addresses, StepMoves, NextSeen
    <3>2. left = Times' - 1 /\ (left > 0 <=> count' # 1)
      BY <1>5, StepContext, NextTimes, CountDown DEF Word
    <3>3. RevivedByStart' => Unseen'
      BY <1>1, <1>6, <1>8, <1>10, <2>1, <3>1, <3>2, StepMoves, NextUnseen
    <3>4. ~RevivedByStart' => CounterRight'
      BY <1>1, <1>6, <1>8, <1>10, <2>1, <3>1, <3>2, StepMoves, NextCounter
    <3>5. IterationsRight'
      BY <2>1, StepMoves, NextIterations
    <3> QED
      BY <1>8, <2>1, <2>3, <3>1, <3>3, <3>4, <3>5, StepMoves, KeptInside
  <2> QED
    BY <2>4, <2>5
<1> QED
  BY <1>9, <1>10, Addresses
-----------------------------------------------------------------------------
(***************************************************************************)
(* The steps inside the loop.  The next instruction is fetched there, or   *)
(* in the procedure, or right behind the loop; the end of the loop is      *)
(* found when its last instruction is the next one.                        *)
(***************************************************************************)
Inside == (StartAddress < pc /\ pc < End) \/ pc = Callee \/ pc = Callee + 1

LEMMA FetchInside ==
  ASSUME LoopInvariant, RoomForTransfer, Step, Inside
  PROVE  /\ hwloop.start = First /\ hwloop.end = End
         /\ StartAddress < npc /\ npc \in 0 .. End + 6 /\ AddW(npc, 1) = npc + 1
         /\ status' = "running"
         /\ hwloop.active => (AtLoopEnd <=> npc = End - 1)
<1>1. hwloop.start = First /\ hwloop.end = End
  BY Addresses, StepContext DEF LoopRegisters, Inside
<1>2. HasTransfer /\ program[TransferAt].op = "BRANCH" => BranchTarget \in First .. End
  BY StepContext DEF LoopShape
<1>3. StartAddress < npc /\ npc \in 0 .. End + 6
  <2>1. CASE pc < First
    BY <2>1, Addresses, NextPlace DEF Inside, PlaceOfNext
  <2>2. CASE First <= pc /\ pc < End
    <3>1. \/ npc = pc + 1
          \/ npc = First
          \/ HasTransfer /\ program[TransferAt].op = "BRANCH" /\ npc = BranchTarget
          \/ npc = Callee
      BY <2>2, NextPlace DEF PlaceOfNext
    <3> QED
      BY <1>2, <2>2, <3>1, Addresses
  <2>3. CASE pc = Callee \/ pc = Callee + 1
    BY <2>3, Addresses, NextPlace DEF PlaceOfNext
  <2> QED
    BY <2>1, <2>2, <2>3, Addresses DEF Inside
<1>4. AddW(npc, 1) = npc + 1 /\ npc # EndOfProgram
  BY <1>3, StepContext, SmallWords
<1>5. hwloop.active => (AtLoopEnd <=> npc = End - 1)
  BY <1>1, <1>3, <1>4, Addresses DEF AtLoopEnd
<1> QED
  BY <1>1, <1>3, <1>4, <1>5, StepMoves

\* the counter goes down on the way to the last instruction, and only there
CountsDown ==
  /\ hwloop'.start = hwloop.start /\ hwloop'.end = hwloop.end
  /\ pc' # End - 1 => hwloop' = hwloop
  /\ pc' = End - 1 =>
       /\ hwloop'.counter = SubW(hwloop.counter, 1)
       /\ hwloop'.active <=> hwloop'.counter > 0
       /\ npc' = IF hwloop'.counter > 0 THEN First ELSE End

LEMMA NopInside ==
  ASSUME LoopInvariant, RoomForTransfer, Step, Inside, program[pc].op = "NOP", hwloop.active
  PROVE  /\ UNCHANGED <<taken, round, count, stale>>
         /\ visits' = [visits EXCEPT ![pc] = @ + 1]
         /\ pc' # End - 1 => npc' = pc' + 1
         /\ CountsDown
<1>1. pc # StartAddress
  BY Addresses DEF Inside
<1>2. ControlTypeOK
  BY StepContext
<1>3. /\ UNCHANGED <<taken, round, count, stale>>
      /\ visits' = [visits EXCEPT ![pc] = @ + 1]
      /\ hwloop'.start = hwloop.start /\ hwloop'.end = hwloop.end
  BY <1>1, <1>2, NopStep
<1>4. pc' = npc /\ (AtLoopEnd <=> pc' = End - 1) /\ AddW(npc, 1) = npc + 1 /\ hwloop.start = First
  BY FetchInside, StepMoves
<1>5. pc' # End - 1 => npc' = pc' + 1 /\ hwloop' = hwloop
  BY <1>2, <1>4, NopStep
<1>6. pc' = End - 1 => /\ hwloop'.counter = SubW(hwloop.counter, 1)
                       /\ hwloop'.active <=> hwloop'.counter > 0
                       /\ npc' = IF hwloop'.counter > 0 THEN First ELSE pc' + 1
  BY <1>2, <1>4, NopStep
<1> QED
  BY <1>3, <1>5, <1>6, Addresses DEF CountsDown

LEMMA CounterStep ==
  ASSUME LoopInvariant, RoomForTransfer, Step, CounterRight, pc # End - 1,
         Ended' = Ended, count' = count, CountsDown
  PROVE  CounterRight'
<1>1. Ended \in Nat
  BY Addresses, StepContext DEF Ended
<1>2. Times' = Times /\ Times \in Nat \ {0} /\ (count = 0 => Times = Modulus) /\ (count # 0 => Times = count)
  BY StepContext, CountDown, NextTimes DEF Times, Word
<1>3. /\ hwloop.active
      /\ Ended = 0 => hwloop.counter = count
      /\ Ended > 0 => hwloop.counter = Times - Ended /\ hwloop.counter > 0
  BY DEF CounterRight
<1>4. CASE pc' # End - 1
  BY <1>2, <1>3, <1>4, StepMoves, NextCounter DEF CountsDown
<1>5. CASE pc' = End - 1
  <2>1. SubW(hwloop.counter, 1) = Times - (Ended + 1)
    <3>1. CASE Ended = 0
      BY <1>2, <1>3, <3>1, StepContext, CountDown DEF Word
    <3>2. CASE Ended > 0
      BY <1>1, <1>2, <1>3, <3>2, StepContext, CountDown DEF Word
    <3> QED
      BY <1>1, <3>1, <3>2
  <2> QED
    BY <1>2, <1>5, <2>1, StepMoves, NextCounter DEF CountsDown
<1> QED
  BY <1>4, <1>5

\* a step within the loop, before its last instruction
LEMMA InnerStepKept ==
  ASSUME LoopInvariant, RoomForTransfer, Step, Inside, pc # End - 1,
         EndIsSeen, ~RevivedByStart, CounterRight, IterationsRight,
         UNCHANGED <<round, count, stale>>,
         visits' = [visits EXCEPT ![pc] = @ + 1],
         CountsDown, Position', LeavesAtOnce', pc' # End,
         ~Broken' => /\ ~Broken
                     /\ \A a \in Counted \ {End - 1} : a < pc' <=> a <= pc
  PROVE  Kept'
<1>1. Ended' = Ended
  BY StepMoves, NextEnded DEF Ended
<1>2. CounterRight'
  BY <1>1, CounterStep
<1>3. IterationsRight'
  <2>1. \A a \in Counted : a \in Nat /\ a \in 0 .. End + 6
    BY Addresses DEF Counted, Body
  <2>2. \A a \in Counted : visits'[a] = IF a = pc THEN visits[a] + 1 ELSE visits[a]
    BY <2>1, StepContext
  <2>3. ASSUME ~Broken', NEW a \in Counted \ {End - 1}
        PROVE  visits'[a] = IF a < pc' THEN Ended' + 1 ELSE Ended'
    BY <1>1, <2>1, <2>2, <2>3, Addresses DEF IterationsRight
  <2> QED
    BY <2>3, StepMoves, NextIterations
<1>4. EndIsSeen' /\ ~RevivedByStart'
  BY StepMoves, NextSeen DEF EndIsSeen, RevivedByStart
<1>5. LoopRegisters'
  BY FetchInside, Addresses, StepMoves, NextRegisters DEF CountsDown
<1> QED
  BY <1>2, <1>3, <1>4, <1>5, FetchInside, StepMoves, KeptInside

\* the loop is left for the instruction behind it
LEMMA NextEnd ==
  ASSUME program' = program, status' = "running", pc' = End, Position', LoopRegisters',
         RoomForTransfer, LoopShape,
         ~Broken' => \A a \in Counted :
                       visits'[a] = IF ~EndIsSeen' THEN 1 ELSE Times',
         hwloop'.active <=> ~EndIsSeen' \/ RevivedByStart' \/ (Broken' /\ BranchTarget = End)
  PROVE  Kept'
<1>1. First \in Nat /\ End \in Nat /\ Callee = End + 5
  BY DEF LoopShape, Callee
<1>2. ~InLoop'
  BY <1>1, NextInLoop
<1>3. LoopEndsWithBody'
  BY SameProgram DEF LoopEndsWithBody
<1>4. LoopRunsBoundTimes'
  BY SameProgram DEF LoopRunsBoundTimes, Counted, Times
<1> QED
  BY <1>2, <1>3, <1>4 DEF Kept, Underway

LEMMA UnseenStepKept ==
  ASSUME LoopInvariant, RoomForTransfer, Step, Inside, ~EndIsSeen \/ RevivedByStart, Unseen
  PROVE  Kept'
<1>1. pc = First /\ npc = End /\ First = End - 1 /\ hwloop.active /\ visits[First] = 0
  BY DEF Unseen, Ended
<1>2. ~HasTransfer /\ pc \in Body /\ Counted = {First}
  BY <1>1, Addresses DEF Counted, Body
<1>3. program[pc].op = "NOP"
  BY <1>2, StepContext DEF LoopShape
<1>4. /\ UNCHANGED <<taken, round, count, stale>> /\ hwloop' = hwloop
      /\ visits'[First] = 1 /\ npc' = pc' + 1 /\ pc' = End
  BY <1>1, <1>3, Addresses, StepContext, StepMoves, NopInside DEF CountsDown
<1>5. Position' /\ LoopRegisters'
  BY <1>4, FetchInside, Addresses, StepMoves, NextPosition, NextRegisters
<1>6. (EndIsSeen' <=> EndIsSeen) /\ (RevivedByStart' <=> RevivedByStart)
  BY <1>4, StepMoves, NextSeen DEF EndIsSeen, RevivedByStart
<1>7. RevivedByStart => Times' = 1
  BY <1>4, NextTimes DEF RevivedByStart
<1> QED
  BY <1>1, <1>2, <1>4, <1>5, <1>6, <1>7, FetchInside, StepContext, StepMoves, NextEnd

\* after the last instruction the loop begins again, or is over
LEMMA LastStepKept ==
  ASSUME LoopInvariant, RoomForTransfer, Step, Inside, pc = End - 1,
         EndIsSeen, ~RevivedByStart, CounterRight, IterationsRight, LeavesAtOnce
  PROVE  Kept'
<1>1. pc \in Body /\ ~(HasTransfer /\ pc = TransferAt) /\ ~(HasTransfer /\ pc = TransferAt + 1)
  BY Addresses DEF Body
<1>2. program[pc].op = "NOP"
  BY <1>1, StepContext DEF LoopShape
<1>3. Ended \in Nat
  BY Addresses, StepContext DEF Ended
<1>4. /\ hwloop.counter = Times - (Ended + 1)
      /\ hwloop.active <=> hwloop.counter > 0
      /\ npc = IF hwloop.counter > 0 THEN First ELSE End
  BY DEF CounterRight
<1>5. /\ UNCHANGED <<taken, round, count, stale>>
      /\ visits' = [visits EXCEPT ![pc] = @ + 1]
  BY <1>2, Addresses, StepContext, NopStep
<1>6. /\ Broken' <=> Broken
      /\ EndIsSeen' /\ ~RevivedByStart' /\ Times' = Times
      /\ Ended' = Ended + 1
  BY <1>5, Addresses, StepContext, StepMoves, NextEnded, NextTimes, NextBroken, NextSeen DEF EndIsSeen, RevivedByStart, Broken, Times, Ended
<1>7. ~Broken => \A a \in Counted : visits'[a] = Ended + 1
  <2>1. \A a \in Counted : a \in 0 .. End + 6 /\ a < End
    BY Addresses DEF Counted, Body
  <2>2. \A a \in Counted : visits'[a] = IF a = End - 1 THEN Ended + 1 ELSE visits[a]
    BY <1>5, <2>1, StepContext DEF Ended
  <2> QED
    BY <2>1, <2>2, Addresses DEF IterationsRight
<1>8. CASE hwloop.counter > 0
  <2>1. hwloop.active /\ npc = First /\ pc' = First /\ pc' # End
    BY <1>4, <1>8, Addresses, StepMoves
  <2>2. CountsDown /\ (pc' # End - 1 => npc' = pc' + 1)
    BY <1>2, <2>1, NopInside
  <2>3. LoopRegisters'
    BY <2>1, <2>2, FetchInside, Addresses, StepMoves, NextRegisters DEF CountsDown
  <2>4. Position'
    BY <2>1, <2>2, Addresses, StepMoves, NextPosition DEF CountsDown
  <2>5. CounterRight'
    <3>1. CASE pc' # End - 1
      BY <1>3, <1>4, <1>6, <1>8, <2>1, <2>2, <3>1, StepMoves, NextCounter DEF CountsDown
    <3>2. CASE pc' = End - 1
      <4>1. SubW(hwloop.counter, 1) = hwloop.counter - 1
        BY <1>8, StepContext, CountDown DEF Word
      <4>2. hwloop'.counter = hwloop.counter - 1
        BY <2>2, <3>2, <4>1 DEF CountsDown
      <4>3. Times \in Nat
        BY StepContext, CountDown DEF Times, Word
      <4>4. hwloop'.counter = Times' - (Ended' + 1)
        BY <1>3, <1>4, <1>6, <4>2, <4>3
      <4> QED
        BY <2>2, <3>2, <4>4, StepMoves, NextCounter DEF CountsDown
    <3> QED
      BY <3>1, <3>2
  <2>6. IterationsRight'
    <3>1. \A a \in Counted : ~(a < First)
      BY Addresses DEF Counted, Body
    <3> QED
      BY <1>6, <1>7, <2>1, <3>1, StepMoves, NextIterations
  <2>7. LeavesAtOnce'
    BY <1>1, <1>6, StepMoves, NextLeaving DEF LeavesAtOnce
  <2> QED
    BY <1>6, <2>1, <2>3, <2>4, <2>5, <2>6, <2>7, FetchInside, StepMoves, KeptInside
<1>9. CASE ~(hwloop.counter > 0)
  <2>1. ~hwloop.active /\ npc = End /\ pc' = End
    BY <1>4, <1>9, StepMoves
  <2>2. Times \in Nat
    BY StepContext, CountDown DEF Times, Word
  <2>3. Times' = Ended + 1
    BY <1>3, <1>4, <1>6, <1>9, <2>2, StepContext DEF Word
  <2>4. npc' = End + 1 /\ hwloop' = hwloop
    BY <1>2, <2>1, FetchInside, StepContext, NopStep DEF AtLoopEnd
  <2>5. Position' /\ LoopRegisters'
    BY <2>1, <2>4, FetchInside, StepMoves, NextPosition, NextRegisters
  <2>6. ~(Broken' /\ BranchTarget = End)
    BY <1>1, <1>6 DEF LeavesAtOnce
  <2> QED
    BY <1>6, <1>7, <2>1, <2>3, <2>4, <2>5, <2>6, FetchInside, StepContext, StepMoves, NextEnd
<1> QED
  BY <1>8, <1>9

\* the other instructions of the body, and the delay slot of the callee's return
LEMMA PlainStepKept ==
  ASSUME LoopInvariant, RoomForTransfer, Step, Inside, pc # End - 1, pc # Callee,
         ~(HasTransfer /\ pc = TransferAt),
         EndIsSeen, ~RevivedByStart, CounterRight, IterationsRight, LeavesAtOnce
  PROVE  Kept'
<1>1. program[pc].op = "NOP"
  <2>1. \/ pc \in StartAddress + 1 .. First - 1 \/ pc = End + 6
        \/ pc \in Body
    BY Addresses DEF Inside, Body
  <2> QED
    BY <2>1, StepContext DEF LoopShape
<1>2. hwloop.active
  BY DEF CounterRight
<1>3. /\ UNCHANGED <<taken, round, count, stale>>
      /\ visits' = [visits EXCEPT ![pc] = @ + 1]
      /\ pc' # End - 1 => npc' = pc' + 1
      /\ CountsDown /\ pc' = npc /\ npc \in 0 .. End + 6
  BY <1>1, <1>2, NopInside, FetchInside, StepMoves
<1>4. Broken' <=> Broken
  BY <1>3, StepMoves, NextBroken DEF Broken
<1>5. \A a \in Counted \ {End - 1} : /\ a \in Nat /\ First <= a /\ a < End - 1
                                     /\ HasTransfer => a = First
  BY Addresses DEF Counted, Body
<1>6. (pc' <= End /\ pc' # End - 1) => Position'
  BY <1>3, Addresses, StepMoves, NextPosition
<1>7. pc' = End - 1 => Position'
  BY <1>3, Addresses, StepMoves, NextPosition DEF CountsDown
<1>8. ASSUME pc' # End, Position', ~(Broken /\ BranchTarget = End),
             ~Broken' => \A a \in Counted \ {End - 1} : a < pc' <=> a <= pc
      PROVE  Kept'
  <2>1. LeavesAtOnce'
    BY <1>4, <1>8, StepMoves, NextLeaving
  <2> QED
    BY <1>3, <1>4, <1>8, <2>1, InnerStepKept
<1>9. CASE npc = pc + 1 /\ pc < End
  <2>1. pc' # End /\ Position'
    BY <1>3, <1>6, <1>7, <1>9, Addresses DEF Inside
  <2>2. ~(Broken /\ BranchTarget = End)
    BY <1>3, <1>9, <2>1 DEF LeavesAtOnce
  <2>3. \A a \in Counted \ {End - 1} : a < pc' <=> a <= pc
    BY <1>3, <1>5, <1>9, Addresses
  <2> QED
    BY <1>8, <2>1, <2>2, <2>3
<1>10. CASE /\ HasTransfer /\ program[TransferAt].op = "BRANCH"
            /\ pc = TransferAt + 1 /\ npc = BranchTarget /\ taken > 0
  <2>1. BranchTarget \in First .. End
    BY <1>10, StepContext DEF LoopShape
  <2>2. Broken <=> BranchTarget = First \/ BranchTarget = End
    BY <1>10 DEF Broken
  <2>3. CASE BranchTarget = End
    <3>1. pc' = End /\ npc' = End + 1 /\ hwloop' = hwloop
      BY <1>3, <1>10, <2>3, Addresses DEF CountsDown
    <3>2. Position' /\ LoopRegisters'
      BY <3>1, FetchInside, Addresses, StepMoves, NextPosition, NextRegisters
    <3>3. Broken' /\ BranchTarget = End
      BY <1>4, <2>2, <2>3
    <3> QED
      BY <1>2, <3>1, <3>2, <3>3, FetchInside, StepContext, StepMoves, NextEnd
  <2>4. CASE BranchTarget # End
    <3>1. pc' # End /\ Position'
      BY <1>3, <1>6, <1>7, <1>10, <2>1, <2>4
    <3>2. ~Broken' => \A a \in Counted \ {End - 1} : a < pc' <=> a <= pc
      BY <1>3, <1>4, <1>5, <1>10, <2>1, <2>2, Addresses
    <3> QED
      BY <1>8, <2>4, <3>1, <3>2
  <2> QED
    BY <2>3, <2>4
<1>11. CASE /\ HasTransfer /\ program[TransferAt].op = "CALL"
            /\ pc = TransferAt + 1 /\ npc = Callee
  <2>1. pc' # End /\ Position'
    BY <1>3, <1>11, Addresses, StepMoves, NextPosition
  <2>2. BranchTarget = Callee /\ ~(BranchTarget = End)
    BY <1>11, Addresses DEF BranchTarget
  <2>3. \A a \in Counted \ {End - 1} : a < pc' <=> a <= pc
    BY <1>3, <1>5, <1>11, Addresses
  <2> QED
    BY <1>8, <2>1, <2>2, <2>3
<1>12. CASE pc = Callee + 1
  <2>1. HasTransfer /\ program[TransferAt].op = "CALL" /\ npc = TransferAt + 2
    BY <1>12, NextPlace DEF PlaceOfNext
  <2>2. pc' # End /\ Position'
    BY <1>3, <1>6, <1>7, <2>1, Addresses
  <2>3. BranchTarget = Callee /\ ~(BranchTarget = End)
    BY <2>1, Addresses DEF BranchTarget
  <2>4. \A a \in Counted \ {End - 1} : a < pc' <=> a <= pc
    BY <1>3, <1>5, <1>12, <2>1, Addresses
  <2> QED
    BY <1>8, <2>2, <2>3, <2>4
<1> QED
  <2>1. pc < First => npc = pc + 1
    BY NextPlace DEF PlaceOfNext
  <2>2. First <= pc /\ pc < End =>
          \/ npc = pc + 1
          \/ /\ HasTransfer /\ program[TransferAt].op = "BRANCH"
             /\ pc = TransferAt + 1 /\ npc = BranchTarget /\ taken > 0
          \/ /\ HasTransfer /\ program[TransferAt].op = "CALL"
             /\ pc = TransferAt + 1 /\ npc = Callee
    BY NextPlace DEF PlaceOfNext
  <2> QED
    BY <2>1, <2>2, <1>9, <1>10, <1>11, <1>12, Addresses DEF Inside

\* the branch or the call of the body, and the return of the callee
LEMMA TransferStepKept ==
  ASSUME LoopInvariant, RoomForTransfer, Step, Inside, pc # End - 1,
         (HasTransfer /\ pc = TransferAt) \/ pc = Callee,
         EndIsSeen, ~RevivedByStart, CounterRight, IterationsRight, LeavesAtOnce
  PROVE  Kept'
<1>1. HasTransfer /\ pc' = npc /\ npc = pc + 1
  BY Addresses, StepMoves, NextPlace DEF PlaceOfNext
<1>2. ~AtLoopEnd
  <2>1. hwloop.active
    BY DEF CounterRight
  <2>2. npc # End - 1
    BY <1>1, Addresses
  <2> QED
    BY <2>1, <2>2, FetchInside
<1>3. SequentialNpc = npc + 1 /\ SteppedLoop = hwloop
  BY <1>2, FetchInside, FetchEffect, StepContext
<1>4. \A a \in Counted \ {End - 1} : a = First
  BY <1>1 DEF Counted
<1>5. pc' # End /\ pc' # End - 1 /\ (First < pc' <=> First <= pc)
  BY <1>1, Addresses
<1>6. ~(Broken /\ BranchTarget = End)
  BY <1>1, Addresses DEF LeavesAtOnce
<1>7. Count /\ pc # StartAddress
  BY StepByOpcode, Addresses
<1>8. visits' = [visits EXCEPT ![pc] = @ + 1]
  BY <1>7 DEF Count
<1>9. ASSUME hwloop' = hwloop, UNCHANGED <<round, count, stale>>, Position', LeavesAtOnce',
             ~Broken' => ~Broken
      PROVE  Kept'
  <2>1. CountsDown
    BY <1>5, <1>9 DEF CountsDown
  <2> QED
    BY <1>4, <1>5, <1>8, <1>9, <2>1, InnerStepKept
<1>10. CASE pc = TransferAt
  <2>1. pc \in Body /\ program[pc].op \in {"BRANCH", "CALL"} /\ program[pc].target = BranchTarget
    BY <1>1, <1>10, StepContext DEF LoopShape
  <2>2. TransferStep
    <3>1. pc # End + 1
      BY <1>1, <1>10, Addresses
    <3>2. TransferStep \/ AgainStep
      BY <2>1, StepByOpcode
    <3> QED
      BY <3>1, <3>2 DEF AgainStep
  <2>3. CASE program[pc].op = "CALL"
    <3>1. /\ hwloop' = hwloop /\ UNCHANGED <<round, count, stale>>
          /\ npc' = BranchTarget /\ BranchTarget = Callee
      BY <1>3, <1>10, <2>1, <2>2, <2>3
         DEF TransferStep, Call, Branch, Proceed, Fetched, BranchTarget
    <3>2. ~Broken /\ ~Broken'
      BY <3>1, Addresses, StepMoves, NextBroken DEF Broken
    <3>3. Position' /\ LeavesAtOnce'
      BY <1>1, <1>10, <2>3, <3>1, <3>2, StepMoves, NextPosition, NextLeaving
    <3> QED
      BY <1>9, <3>1, <3>2, <3>3
  <2>4. CASE program[pc].op = "BRANCH"
    <3>1. /\ hwloop' = hwloop /\ UNCHANGED <<round, count, stale>>
          /\ \/ npc' = npc + 1 /\ taken' = taken
             \/ npc' = BranchTarget /\ taken' = taken + 1
      BY <1>3, <2>1, <2>2, <2>4 DEF TransferStep, Call, Branch, Proceed, Fetched
    <3>2. CASE npc' = npc + 1 /\ taken' = taken
      <4>1. Broken' <=> Broken
        BY <3>2, StepMoves, NextBroken DEF Broken
      <4>2. Position'
        BY <1>1, <1>10, <3>2, Addresses, StepMoves, NextPosition
      <4>3. LeavesAtOnce'
        BY <1>6, <4>1, StepMoves, NextLeaving
      <4> QED
        BY <1>9, <3>1, <4>1, <4>2, <4>3
    <3>3. CASE npc' = BranchTarget /\ taken' = taken + 1
      <4>1. taken' > 0
        BY <3>3, StepContext
      <4>2. ~Broken' => ~Broken
        BY <4>1, StepMoves, NextBroken DEF Broken
      <4>3. pc' = TransferAt + 1 /\ program[TransferAt].op = "BRANCH"
        BY <1>1, <1>10, <2>4
      <4>4. Position'
        BY <1>1, <3>3, <4>1, <4>3, StepMoves, NextPosition
      <4>5. LeavesAtOnce'
        BY <1>1, <3>3, <4>3, StepMoves, NextLeaving
      <4> QED
        BY <1>9, <3>1, <4>2, <4>4, <4>5
    <3> QED
      BY <3>1, <3>2, <3>3
  <2> QED
    BY <2>1, <2>3, <2>4
<1>11. CASE pc = Callee
  <2>1. program[TransferAt].op = "CALL" /\ program[pc].op = "JUMPL"
    BY <1>11, StepContext, NextPlace DEF PlaceOfNext, LoopShape
  <2>2. /\ hwloop' = hwloop /\ UNCHANGED <<taken, round, count, stale>>
        /\ npc' = (4 * TransferAt + 8) \div 4
    BY <1>3, <1>11, <2>1, StepByOpcode DEF ReturnStep, Jumpl, Proceed
  <2>3. npc' = TransferAt + 2
    <3>1. TransferAt \in 0 .. End - 1 /\ LoopShape
      BY <1>1, Addresses
    <3> QED
      BY <2>2, <3>1, SmallWords
  <2>4. (Broken' <=> Broken) /\ BranchTarget # End
    BY <2>1, <2>2, Addresses, StepMoves, NextBroken DEF Broken, BranchTarget
  <2>5. Position' /\ LeavesAtOnce'
    BY <1>1, <1>11, <2>1, <2>3, <2>4, StepMoves, NextPosition, NextLeaving
  <2> QED
    BY <1>9, <2>2, <2>4, <2>5
<1> QED
  BY <1>10, <1>11
-----------------------------------------------------------------------------
(***************************************************************************)
(* Every step keeps the invariant.  A program without room for its         *)
(* transfer only keeps its types; a step that ends the simulation leaves   *)
(* nothing to show.                                                        *)
(***************************************************************************)
LEMMA RoomyStepKept ==
  ASSUME LoopInvariant, RoomForTransfer, Step
  PROVE  Kept' \/ (status' = "halted" /\ pc' = EndOfProgram)
<1>1. CASE pc \in {0, 1, 2}
  BY <1>1, InitStepKept
<1>2. CASE pc = StartAddress
  BY <1>2, StartStepKept
<1>3. CASE Inside
  <2>1. InLoop
    BY <1>3, Addresses DEF Inside, InLoop
  <2>2. CASE ~EndIsSeen \/ RevivedByStart
    <3>1. Unseen
      BY <2>1, <2>2, StepContext DEF Underway
    <3> QED
      BY <1>3, <2>2, <3>1, UnseenStepKept
  <2>3. CASE EndIsSeen /\ ~RevivedByStart
    <3>1. CounterRight /\ IterationsRight /\ LeavesAtOnce
      BY <2>1, <2>3, StepContext DEF Underway
    <3> QED
      BY <1>3, <2>3, <3>1, LastStepKept, PlainStepKept, TransferStepKept
  <2> QED
    BY <2>2, <2>3
<1>4. CASE End <= pc /\ pc <= End + 3
  BY <1>4, BehindLoopKept
<1>5. CASE pc = End + 4
  BY <1>5, ReturnHalts
<1> QED
  BY <1>1, <1>2, <1>3, <1>4, <1>5, Addresses DEF Inside

LEMMA LoopNext == LoopInvariant /\ [Step]_loopVars => LoopInvariant'
<1> SUFFICES ASSUME LoopInvariant, [Step]_loopVars PROVE LoopInvariant'
  OBVIOUS
<1>1. CASE Step
  <2>1. /\ ControlInvariant' /\ LoopTypeOK' /\ LoopShape'
        /\ status' \in {"running", "halted"}
        /\ status' = "halted" => pc' = EndOfProgram
    BY <1>1, TypesKept
  <2>2. program' = program /\ LoopShape
    BY <1>1, StepByOpcode DEF LoopInvariant
  <2>3. (RoomForTransfer' <=> RoomForTransfer) /\ EndOfProgram' = EndOfProgram /\ End' = End
        /\ End # EndOfProgram
    BY <2>2, SameProgram, SmallWords DEF EndOfProgram, Modulus, LoopShape
  <2>4. CASE ~RoomForTransfer
    BY <2>1, <2>3, <2>4 DEF LoopInvariant, LoopRunsBoundTimes, LoopEndsWithBody
  <2>5. CASE RoomForTransfer
    <3>1. CASE Kept'
      BY <2>1, <2>3, <3>1 DEF LoopInvariant, Kept
    <3>2. CASE status' = "halted" /\ pc' = EndOfProgram
      BY <2>1, <2>3, <3>2 DEF LoopInvariant, LoopRunsBoundTimes, LoopEndsWithBody
    <3> QED
      BY <1>1, <2>5, <3>1, <3>2, RoomyStepKept
  <2> QED
    BY <2>4, <2>5
<1>2. CASE UNCHANGED loopVars
  <2>1. /\ program' = program /\ pc' = pc /\ npc' = npc /\ hwloop' = hwloop /\ status' = status
        /\ visits' = visits /\ taken' = taken /\ round' = round
        /\ count' = count /\ stale' = stale
    BY <1>2 DEF loopVars
  <2>2. ControlInvariant'
    BY <2>1, ControlNext DEF LoopInvariant, controlVars
  <2>3. LoopTypeOK' /\ LoopShape' /\ EndOfProgram' = EndOfProgram
    BY <2>1, <2>2, SameShape, ControlWords
       DEF LoopInvariant, LoopTypeOK, ControlInvariant, EndOfProgram, Modulus, Word
  <2>4. /\ (EndIsSeen' <=> EndIsSeen) /\ (RevivedByStart' <=> RevivedByStart)
        /\ (Broken' <=> Broken) /\ Ended' = Ended /\ Times' = Times
    BY <2>1, NextEnded, NextTimes, NextBroken, NextSeen DEF EndIsSeen, RevivedByStart, Broken, Ended, Times
  <2>5. /\ Position' <=> Position
        /\ LoopRegisters' <=> LoopRegisters
        /\ InLoop' <=> InLoop
    BY <2>1, NextPosition, NextRegisters, NextInLoop DEF Position, LoopRegisters, InLoop
  <2>6. /\ Unseen' <=> Unseen
        /\ CounterRight' <=> CounterRight
        /\ IterationsRight' <=> IterationsRight
        /\ LeavesAtOnce' <=> LeavesAtOnce
    BY <2>1, <2>4, NextUnseen, NextCounter, NextIterations, NextLeaving
       DEF Unseen, CounterRight, IterationsRight, LeavesAtOnce
  <2>7. Underway' <=> Underway
    BY <2>4, <2>5, <2>6 DEF Underway
  <2>8. LoopRunsBoundTimes' /\ LoopEndsWithBody'
    BY <2>1, <2>4, SameProgram DEF LoopInvariant, LoopRunsBoundTimes, LoopEndsWithBody, Modulus
  <2> QED
    BY <2>1, <2>2, <2>3, <2>7, <2>8, SameProgram DEF LoopInvariant
<1> QED
  BY <1>1, <1>2

(***************************************************************************)
(* The loop counter and the loop registers stay words under every loop,    *)
(* also where a counter of zero is decremented.                            *)
(***************************************************************************)
THEOREM LoopTypeCorrect == Spec => []LoopTypeOK
<1>1. LoopInvariant => LoopTypeOK
  BY DEF LoopInvariant
<1> QED
  BY <1>1, LoopInit, LoopNext, PTL DEF Spec

(***************************************************************************)
(* For every word width, every length of the body and of the gap           *)
(* before it, every bound and every branch or call with room, the loop     *)
(* executes its body exactly as often as its counter says.                 *)
(***************************************************************************)
THEOREM BodyRunsBoundTimes == Spec => []LoopRunsBoundTimes
<1>1. LoopInvariant => LoopRunsBoundTimes
  BY DEF LoopInvariant
<1> QED
  BY <1>1, LoopInit, LoopNext, PTL DEF Spec

(***************************************************************************)
(* The loop is active behind its end only if its end went by unseen, if    *)
(* its own start revived it or if its branch left it.                      *)
(***************************************************************************)
THEOREM LoopOverAfterBody == Spec => []LoopEndsWithBody
<1>1. LoopInvariant => LoopEndsWithBody
  BY DEF LoopInvariant
<1> QED
  BY <1>1, LoopInit, LoopNext, PTL DEF Spec
-----------------------------------------------------------------------------
(***************************************************************************)
(* The sum of iterations and counter, for every program of LoopPrograms:   *)
(* also where the transfer stands in the last two slots of the body and    *)
(* overrides the way back, so that the count of the iterations says        *)
(* nothing any more.                                                       *)
(***************************************************************************)

\* where any program of LoopPrograms can be, also one without room for its transfer
Place ==
  \/ pc \in 0 .. First - 1 /\ npc = pc + 1
  \/ pc \in Body /\ npc \in First .. End
  \/ pc = End /\ npc \in First .. End + 1
  \/ pc = End + 1 /\ npc \in {End + 1, End + 2}
  \/ pc = End + 2 /\ npc = End + 3
  \/ pc \in {End + 1, End + 2} /\ npc \in {0, StartAddress} /\ round = 2
  \/ pc = End + 3 /\ npc = End + 4
  \/ pc = End + 4 /\ npc = EndOfProgram
  \/ /\ HasTransfer /\ program[TransferAt].op = "CALL"
     /\ \/ pc \in Body \cup {End} /\ npc = Callee
        \/ pc = Callee /\ npc \in {Callee, Callee + 1, TransferAt + 2}
        \/ pc = Callee + 1 /\ npc = TransferAt + 2

(***************************************************************************)
(* In a loop that is active and looks for its end, a transfer is reached   *)
(* in sequence, or, as the last instruction, on the way back to the start; *)
(* the loop is left in sequence or by its branch, and never by way of the  *)
(* procedure.                                                              *)
(***************************************************************************)
InSequence ==
  /\ First < End - 1 /\ HasTransfer /\ pc = TransferAt =>
       npc = IF TransferAt = End - 1 THEN First ELSE TransferAt + 1
  /\ First = End - 1 /\ pc = First => npc = First \/ (HasTransfer /\ npc = BranchTarget)
  /\ First < End - 1 /\ pc = Callee => npc = Callee + 1
  /\ pc = End => npc \in {End, End + 1}

\* the sides of IterationsAddUp
Begun == visits[First] + (IF pc = First THEN 1 ELSE 0) + (IF npc = First THEN 1 ELSE 0)
FoundAt == IF End - 2 \in Body THEN End - 2 ELSE End - 1
Overridden == IF HasTransfer /\ TransferAt = FoundAt THEN taken ELSE 0
Back == IF HasTransfer /\ BranchTarget = First THEN taken ELSE 0
Excess == Begun + hwloop.counter + Overridden - (count + 1 + Back)

Aligned(x) == \E k \in Int : x = k * Modulus

\* within the body, and in the procedure it calls if it comes back from there
Iterating == pc \in Body \/ (First < End - 1 /\ pc \in {Callee, Callee + 1})

Accounted == hwloop.active /\ EndIsSeen /\ ~RevivedByStart

AddingUp ==
  Accounted =>
    /\ InSequence
    /\ pc \in StartAddress + 1 .. First - 1 =>
         visits[First] = 0 /\ hwloop.counter = count /\ taken = 0
    /\ Iterating => Aligned(Excess)

AddUpInvariant ==
  /\ LoopInvariant
  /\ status = "running" => Place /\ LoopRegisters /\ AddingUp

\* the state any step starts from
LEMMA LoopContext ==
  ASSUME AddUpInvariant, Step
  PROVE  /\ ControlTypeOK /\ LoopShape /\ Place /\ LoopRegisters /\ AddingUp
         /\ First \in Nat /\ End \in Nat /\ 3 < First /\ First < End
         /\ StartAddress = 3 /\ Callee = End + 5 /\ Body = First .. End - 1
         /\ pc \in 0 .. End + 6 /\ npc \in Nat
         /\ hwloop.counter \in Word /\ count \in Word /\ taken \in Nat /\ round \in {1, 2}
         /\ visits \in [0 .. End + 6 -> Nat]
         /\ HasTransfer => TransferAt \in Nat /\ First <= TransferAt /\ TransferAt < End
         /\ HasTransfer => \/ program[TransferAt].op = "BRANCH" /\ BranchTarget \in First .. End
                           \/ program[TransferAt].op = "CALL" /\ BranchTarget = Callee
<1>1. status = "running" /\ pc \in DOMAIN program
  BY StepByOpcode DEF Fetching
<1>2. /\ ControlTypeOK /\ LoopShape /\ LoopTypeOK
      /\ Place /\ LoopRegisters /\ AddingUp
  BY <1>1 DEF AddUpInvariant, LoopInvariant, LoopTypeOK
<1>3. /\ First \in Nat /\ End \in Nat /\ 3 < First /\ First < End
      /\ StartAddress = 3 /\ Callee = End + 5 /\ Body = First .. End - 1
      /\ DOMAIN program = 0 .. End + 6
  BY <1>2 DEF LoopShape, StartAddress, Callee, Body
<1>4. hwloop.counter \in Word /\ npc \in Nat
  BY <1>2 DEF ControlTypeOK, HwloopType, Word
<1>5. HasTransfer => TransferAt \in Nat /\ First <= TransferAt /\ TransferAt < End
  BY <1>2, <1>3 DEF LoopShape
<1>6. HasTransfer => \/ program[TransferAt].op = "BRANCH" /\ BranchTarget \in First .. End
                     \/ program[TransferAt].op = "CALL" /\ BranchTarget = Callee
  BY <1>2 DEF LoopShape, BranchTarget
<1> QED
  BY <1>1, <1>2, <1>3, <1>4, <1>5, <1>6 DEF LoopTypeOK

\* its addresses alone
LEMMA Numbers ==
  ASSUME AddUpInvariant, Step
  PROVE  /\ First \in Nat /\ End \in Nat /\ 3 < First /\ First < End
         /\ StartAddress = 3 /\ Callee = End + 5 /\ Body = First .. End - 1
         /\ pc \in Nat /\ pc <= End + 6 /\ npc \in Nat
         /\ HasTransfer => TransferAt \in Nat /\ First <= TransferAt /\ TransferAt < End
<1>1. pc \in 0 .. End + 6 /\ End \in Nat
  BY LoopContext
<1>2. pc \in Nat /\ pc <= End + 6
  BY <1>1
<1> QED
  BY <1>2, LoopContext

\* the fetch, anywhere but in the delay slot of the return from main
LEMMA FetchAnywhere ==
  ASSUME AddUpInvariant, Step, pc # End + 4
  PROVE  /\ npc \in 0 .. End + 6 /\ npc # EndOfProgram /\ status' = "running"
         /\ AtLoopEnd <=> hwloop.active /\ StartAddress <= pc /\ npc = End - 1
         /\ ~AtLoopEnd => SequentialNpc = npc + 1 /\ SteppedLoop = hwloop
         /\ AtLoopEnd => /\ SteppedLoop.counter = SubW(hwloop.counter, 1)
                         /\ SteppedLoop.active <=> SteppedLoop.counter > 0
                         /\ SequentialNpc = IF SteppedLoop.counter > 0 THEN First ELSE End
         /\ SteppedLoop.start = hwloop.start /\ SteppedLoop.end = hwloop.end
<1>0. Place
  BY LoopContext
<1>1. npc \in 0 .. End + 6
  <2>1. CASE HasTransfer /\ (npc \in {Callee, Callee + 1} \/ npc = TransferAt + 2)
    BY <2>1, Numbers
  <2>2. CASE npc \in {pc + 1, 0, 3, End + 2, End + 3, End + 4} \cup First .. End + 1 /\ pc <= End + 3
    BY <2>2, Numbers, SMTT(30)
  <2> QED
    BY <1>0, <2>1, <2>2, Numbers DEF Place
<1>2. AddW(npc, 1) = npc + 1 /\ npc # EndOfProgram
  BY <1>1, LoopContext, SmallWords
<1>3. /\ StartAddress <= pc \/ hwloop.active => hwloop.end = End
      /\ StartAddress <= pc => hwloop.start = First
  BY LoopContext DEF LoopRegisters
<1>4. pc < StartAddress => npc = pc + 1
  BY <1>0, Numbers, SMTT(30) DEF Place
<1>5. AtLoopEnd <=> hwloop.active /\ StartAddress <= pc /\ npc = End - 1
  BY <1>1, <1>2, <1>3, <1>4, Numbers DEF AtLoopEnd
<1>6. ControlTypeOK
  BY LoopContext
<1>7. ~AtLoopEnd => SequentialNpc = npc + 1 /\ SteppedLoop = hwloop
  BY <1>2, <1>6, FetchEffect
<1>8. AtLoopEnd => /\ SteppedLoop.counter = SubW(hwloop.counter, 1)
                   /\ SteppedLoop.active <=> SteppedLoop.counter > 0
                   /\ SequentialNpc = IF SteppedLoop.counter > 0 THEN hwloop.start ELSE npc + 1
  BY <1>2, <1>6, FetchEffect
<1>9. AtLoopEnd => hwloop.start = First /\ npc + 1 = End
  BY <1>3, <1>5, LoopContext
<1>10. SteppedLoop.start = hwloop.start /\ SteppedLoop.end = hwloop.end
  BY <1>6, FetchEffect
<1> QED
  BY <1>1, <1>2, <1>5, <1>7, <1>8, <1>9, <1>10, StepMoves

\* a step that goes on in sequence, and one that the transfer of the body diverts
InOrder ==
  /\ pc # End + 3 /\ pc # Callee
  /\ npc' = SequentialNpc /\ taken' = taken /\ round' = round

Diverted ==
  /\ HasTransfer /\ pc = TransferAt
  /\ npc' = BranchTarget /\ taken' = taken + 1 /\ round' = round

\* the steps behind "hwloop start", wherever the transfer stands
LEMMA StepBeyondStart ==
  ASSUME AddUpInvariant, Step, StartAddress < pc
  PROVE  /\ hwloop' = SteppedLoop /\ count' = count /\ stale' = stale
         /\ visits' = [visits EXCEPT ![pc] = @ + 1]
         /\ \/ InOrder
            \/ Diverted
            \/ /\ pc = End + 1 /\ npc' \in {0, StartAddress}
               /\ taken' = taken /\ round = 1 /\ round' = 2
            \/ /\ pc = End + 3 /\ npc' = EndOfProgram
               /\ taken' = taken /\ round' = round
            \/ /\ pc = Callee /\ npc' = TransferAt + 2
               /\ taken' = taken /\ round' = round
<1>1. Count /\ pc # StartAddress
  BY StepByOpcode, LoopContext
<1>2. visits' = [visits EXCEPT ![pc] = @ + 1]
  BY <1>1 DEF Count
<1>3. CASE program[pc].op = "NOP"
  <2>1. pc # End + 3 /\ pc # Callee
    BY <1>3, LoopContext DEF LoopShape
  <2>2. SequentialStep
    BY <1>3, StepByOpcode
  <2> QED
    BY <1>2, <2>1, <2>2 DEF SequentialStep, Sequential, ProceedInSequence, Proceed, InOrder
<1>4. CASE pc \in Body /\ HasTransfer /\ pc = TransferAt
  <2>1. program[pc].op \in {"BRANCH", "CALL"} /\ program[pc].target = BranchTarget
    BY <1>4, LoopContext DEF LoopShape
  <2>2. pc # End + 1 /\ pc # End + 3 /\ pc # Callee
    BY <1>4, LoopContext
  <2>3. TransferStep
    BY <2>1, <2>2, StepByOpcode DEF AgainStep
  <2> QED
    BY <1>2, <1>4, <2>1, <2>2, <2>3
       DEF TransferStep, Call, Branch, Proceed, Fetched, InOrder, Diverted
<1>5. CASE pc = End + 1
  <2>1. program[pc].op = "BRANCH" /\ program[pc].target \in {0, StartAddress} /\ pc \notin Body
    BY <1>5, LoopContext DEF LoopShape
  <2>2. AgainStep /\ pc # End + 3 /\ pc # Callee
    <3>1. TransferStep \/ AgainStep
      BY <2>1, StepByOpcode
    <3>2. ~TransferStep
      BY <2>1 DEF TransferStep
    <3> QED
      BY <1>5, <3>1, <3>2, Numbers
  <2> QED
    BY <1>2, <1>5, <2>1, <2>2 DEF AgainStep, Branch, Proceed, Fetched, InOrder
<1>6. CASE pc = End + 3
  <2>1. program[pc].op = "JUMPL" /\ pc # Callee
    BY <1>6, LoopContext DEF LoopShape
  <2> QED
    BY <1>2, <1>6, <2>1, StepByOpcode DEF ReturnStep, Jumpl, Proceed, EndOfProgram
<1>7. CASE pc = Callee
  <2>1. program[pc].op = "JUMPL" /\ HasTransfer
    <3>1. program[pc].op = "JUMPL"
      BY <1>7, LoopContext DEF LoopShape
    <3>2. Place
      BY LoopContext
    <3> QED
      BY <1>7, <3>1, <3>2, Numbers DEF Place
  <2>2. TransferAt \in 0 .. End - 1 /\ LoopShape
    BY <2>1, LoopContext
  <2>3. (4 * TransferAt + 8) \div 4 = TransferAt + 2
    BY <2>2, SmallWords
  <2> QED
    BY <1>2, <1>7, <2>1, <2>3, StepByOpcode DEF ReturnStep, Jumpl, Proceed
<1>8. \/ program[pc].op = "NOP"
      \/ pc \in Body /\ HasTransfer /\ pc = TransferAt
      \/ pc = End + 1 \/ pc = End + 3 \/ pc = Callee
  <2>1. \/ pc \in (StartAddress + 1 .. First - 1) \cup {End, End + 2, End + 4, End + 6}
        \/ pc \in Body
        \/ pc = End + 1 \/ pc = End + 3 \/ pc = Callee
    BY Numbers, SMTT(30)
  <2> QED
    BY <2>1, LoopContext DEF LoopShape
<1> QED
  BY <1>3, <1>4, <1>5, <1>6, <1>7, <1>8

\* the steps up to "hwloop start"
LEMMA StepBeforeStart ==
  ASSUME AddUpInvariant, Step, pc < StartAddress
  PROVE  /\ pc' = pc + 1 /\ npc' = pc + 2 /\ round' = round /\ ~AtLoopEnd
         /\ hwloop'.active = hwloop.active
         /\ hwloop'.start = IF pc = 0 THEN First ELSE hwloop.start
         /\ hwloop'.end = IF pc = 1 THEN End ELSE hwloop.end
<1>1. Place /\ pc \in {0, 1, 2}
  BY LoopContext, Numbers
<1>2. npc = pc + 1 /\ pc # End + 4
  BY <1>1, Numbers, SMTT(30) DEF Place
<1>3. ~AtLoopEnd /\ SequentialNpc = npc + 1 /\ SteppedLoop = hwloop
  BY <1>1, <1>2, FetchAnywhere, Numbers
<1>4. InitStep
  BY <1>1, LoopContext, StepByOpcode DEF LoopShape
<1>5. LoopShape /\ ControlTypeOK
  BY LoopContext
<1>6. /\ npc' = npc + 1 /\ round' = round
      /\ pc = 0 => hwloop' = [hwloop EXCEPT !.start = First]
      /\ pc = 1 => hwloop' = [hwloop EXCEPT !.end = End]
      /\ pc = 2 => hwloop' = [hwloop EXCEPT !.counter = Bound]
  BY <1>1, <1>3, <1>4, <1>5
     DEF InitStep, HwloopInit, Proceed, Fetched, LoopShape, First, End
<1> QED
  BY <1>1, <1>2, <1>3, <1>5, <1>6, StepMoves DEF ControlTypeOK, HwloopType

\* the step of "hwloop start"
LEMMA StepOfStart ==
  ASSUME AddUpInvariant, Step, pc = StartAddress
  PROVE  /\ pc' = 4 /\ npc = 4 /\ round' = round
         /\ npc' = SequentialNpc /\ hwloop'.active /\ hwloop'.counter = SteppedLoop.counter
         /\ hwloop'.start = First /\ hwloop'.end = End
         /\ count' = hwloop.counter /\ stale' = hwloop.active /\ taken' = 0
         /\ \A a \in 0 .. End + 6 : visits'[a] = 0
<1>1. Place /\ LoopShape /\ ControlTypeOK /\ LoopRegisters
  BY LoopContext
<1>2. npc = 4
  BY <1>1, Numbers DEF Place
<1>3. StartStep /\ Count
  BY <1>1, StepByOpcode DEF LoopShape
<1>4. /\ npc' = SequentialNpc /\ hwloop' = [SteppedLoop EXCEPT !.active = TRUE]
      /\ count' = hwloop.counter /\ stale' = hwloop.active /\ taken' = 0 /\ round' = round
  BY <1>3 DEF StartStep, HwloopStart, Proceed
<1>5. SteppedLoop \in HwloopType /\ SteppedLoop.start = First /\ SteppedLoop.end = End
  BY <1>1, FetchEffect, Numbers DEF LoopRegisters
<1>6. \A a \in 0 .. End + 6 : visits'[a] = 0
  BY <1>1, <1>3 DEF Count, LoopShape
<1> QED
  BY <1>2, <1>4, <1>5, <1>6, StepMoves DEF HwloopType

LEMMA PlaceNext ==
  ASSUME program' = program
  PROVE  Place' <=>
           \/ pc' \in 0 .. First - 1 /\ npc' = pc' + 1
           \/ pc' \in Body /\ npc' \in First .. End
           \/ pc' = End /\ npc' \in First .. End + 1
           \/ pc' = End + 1 /\ npc' \in {End + 1, End + 2}
           \/ pc' = End + 2 /\ npc' = End + 3
           \/ pc' \in {End + 1, End + 2} /\ npc' \in {0, StartAddress} /\ round' = 2
           \/ pc' = End + 3 /\ npc' = End + 4
           \/ pc' = End + 4 /\ npc' = EndOfProgram
           \/ /\ HasTransfer /\ program[TransferAt].op = "CALL"
              /\ \/ pc' \in Body \cup {End} /\ npc' = Callee
                 \/ pc' = Callee /\ npc' \in {Callee, Callee + 1, TransferAt + 2}
                 \/ pc' = Callee + 1 /\ npc' = TransferAt + 2
BY SameProgram DEF Place, EndOfProgram, Modulus, StartAddress

\* what is next in sequence, as long as the loop is not over
LEMMA InOrderNext ==
  ASSUME AddUpInvariant, Step, pc # End + 4
  PROVE  SequentialNpc = npc + 1 \/ (npc = End - 1 /\ SequentialNpc = First)
BY FetchAnywhere, Numbers

LEMMA PlaceInOrder ==
  ASSUME AddUpInvariant, Step, StartAddress < pc, pc # End + 4, InOrder
  PROVE  Place'
<1>1. Place /\ pc' = npc /\ program' = program /\ pc # End + 3 /\ pc # Callee /\ round' = round
  BY LoopContext, StepMoves DEF InOrder
<1>2. npc' = npc + 1 \/ (npc = End - 1 /\ npc' = First)
  BY InOrderNext DEF InOrder
<1>3. CASE npc \in First .. End - 1
  BY <1>1, <1>2, <1>3, Numbers, PlaceNext, SMTT(30)
<1>4. CASE npc = End \/ npc = End + 1 \/ npc = End + 2 \/ npc = End + 3
  <2>1. npc' = pc' + 1 /\ pc' = npc
    BY <1>1, <1>2, <1>4, Numbers, SMTT(30)
  <2>2. CASE npc = End
    <3>1. pc' = End /\ npc' = End + 1 /\ npc' \in First .. End + 1
      BY <2>1, <2>2, Numbers
    <3> QED
      BY <1>1, <3>1, PlaceNext
  <2>3. CASE npc = End + 1
    <3>1. pc' = End + 1 /\ npc' = End + 2
      BY <2>1, <2>3, Numbers
    <3> QED
      BY <1>1, <3>1, PlaceNext
  <2>4. CASE npc = End + 2
    <3>1. pc' = End + 2 /\ npc' = End + 3
      BY <2>1, <2>4, Numbers
    <3> QED
      BY <1>1, <3>1, PlaceNext
  <2>5. CASE npc = End + 3
    <3>1. pc' = End + 3 /\ npc' = End + 4
      BY <2>1, <2>5, Numbers
    <3> QED
      BY <1>1, <3>1, PlaceNext
  <2> QED
    BY <1>4, <2>2, <2>3, <2>4, <2>5
<1>5. CASE npc < First
  BY <1>1, <1>2, <1>5, Numbers, PlaceNext
<1>6. CASE HasTransfer /\ program[TransferAt].op = "CALL" /\ npc = Callee
  BY <1>1, <1>2, <1>6, Numbers, PlaceNext
<1> QED
  <2>1. \/ npc < First \/ npc \in First .. End - 1
        \/ npc = End \/ npc = End + 1 \/ npc = End + 2 \/ npc = End + 3
        \/ npc \in Nat /\ npc > End + 3
    BY Numbers, SMTT(30)
  <2>2. ASSUME npc > End + 3, npc \in Nat
        PROVE  HasTransfer /\ program[TransferAt].op = "CALL" /\ npc = Callee
    BY <1>1, <2>2, Numbers, SMTT(30) DEF Place
  <2> QED
    BY <1>3, <1>4, <1>5, <1>6, <2>1, <2>2

LEMMA PlaceDiverted ==
  ASSUME AddUpInvariant, Step, Diverted
  PROVE  Place'
<1>1. Place /\ pc' = npc /\ program' = program /\ npc' = BranchTarget /\ HasTransfer /\ pc = TransferAt
  BY LoopContext, StepMoves DEF Diverted
<1>2. \/ program[TransferAt].op = "BRANCH" /\ BranchTarget \in First .. End
      \/ program[TransferAt].op = "CALL" /\ BranchTarget = Callee
  BY <1>1, LoopContext
<1>3. \/ npc \in First .. End
      \/ program[TransferAt].op = "CALL" /\ npc = Callee
  BY <1>1, Numbers, SMTT(30) DEF Place
<1>4. CASE npc \in First .. End
  BY <1>1, <1>2, <1>4, Numbers, PlaceNext
<1>5. CASE program[TransferAt].op = "CALL" /\ npc = Callee
  BY <1>1, <1>2, <1>5, Numbers, PlaceNext
<1> QED
  BY <1>3, <1>4, <1>5

\* the branch behind the loop and the two returns
LEMMA PlaceBehind ==
  ASSUME AddUpInvariant, Step,
         \/ pc = End + 1 /\ npc' \in {0, StartAddress} /\ round = 1 /\ round' = 2
         \/ pc = End + 3 /\ npc' = EndOfProgram
         \/ pc = Callee /\ npc' = TransferAt + 2
  PROVE  Place'
<1>1. Place /\ pc' = npc /\ program' = program
  BY LoopContext, StepMoves
<1>2. CASE pc = End + 1 /\ npc' \in {0, StartAddress} /\ round = 1 /\ round' = 2
  <2>1. npc \in {End + 1, End + 2}
    BY <1>1, <1>2, Numbers, SMTT(30) DEF Place
  <2> QED
    BY <1>1, <1>2, <2>1, Numbers, PlaceNext
<1>3. CASE pc = End + 3 /\ npc' = EndOfProgram
  <2>1. npc = End + 4
    BY <1>1, <1>3, Numbers, SMTT(30) DEF Place
  <2> QED
    BY <1>1, <1>3, <2>1, Numbers, PlaceNext
<1>4. CASE pc = Callee /\ npc' = TransferAt + 2
  <2>1. /\ HasTransfer /\ program[TransferAt].op = "CALL"
        /\ npc \in {Callee, Callee + 1, TransferAt + 2}
    <3>1. /\ pc # End /\ pc # End + 1 /\ pc # End + 2 /\ pc # End + 3 /\ pc # End + 4
          /\ pc # Callee + 1 /\ pc \notin Body /\ pc \notin 0 .. First - 1
      BY <1>4, Numbers, SMTT(30)
    <3> QED
      BY <1>1, <1>4, <3>1 DEF Place
  <2>2. CASE npc \in {Callee, Callee + 1}
    <3>1. pc' = Callee \/ pc' = Callee + 1
      BY <1>1, <2>2
    <3> QED
      BY <1>1, <1>4, <2>1, <3>1, PlaceNext
  <2>3. CASE npc = TransferAt + 2
    <3>1. /\ npc' = pc'
          /\ pc' \in Body \/ pc' = End \/ pc' = End + 1
      BY <1>1, <1>4, <2>1, <2>3, Numbers
    <3> QED
      BY <1>1, <3>1, Numbers, PlaceNext, SMTT(30)
  <2> QED
    BY <2>1, <2>2, <2>3
<1> QED
  BY <1>2, <1>3, <1>4

\* the place and the loop registers after any step that does not end the simulation
LEMMA PlaceKept ==
  ASSUME AddUpInvariant, Step
  PROVE  status' = "running" => Place' /\ LoopRegisters'
<1>0. Place /\ LoopRegisters /\ program' = program /\ pc' = npc /\ (round = 1 \/ round = 2)
  BY LoopContext, StepMoves
<1>1. CASE pc < StartAddress
  <2>1. Place'
    BY <1>0, <1>1, StepBeforeStart, Numbers, PlaceNext
  <2>2. LoopRegisters'
    BY <1>0, <1>1, StepBeforeStart, Numbers, NextRegisters DEF LoopRegisters
  <2> QED
    BY <2>1, <2>2
<1>2. CASE pc = StartAddress
  <2>1. pc' = 4 /\ (npc' = 5 \/ (End = 5 /\ npc' = First)) /\ (npc' \in Nat)
    BY <1>2, StepOfStart, InOrderNext, Numbers
  <2>2. Place'
    BY <1>0, <2>1, Numbers, PlaceNext
  <2>3. LoopRegisters'
    BY <1>0, <1>2, StepOfStart, Numbers, NextRegisters
  <2> QED
    BY <2>2, <2>3
<1>3. CASE StartAddress < pc /\ pc # End + 4
  <2>1. Place'
    BY <1>3, StepBeyondStart, PlaceInOrder, PlaceDiverted, PlaceBehind
  <2>2. hwloop'.start = First /\ hwloop'.end = End
    BY <1>0, <1>3, FetchAnywhere, StepBeyondStart, Numbers DEF LoopRegisters
  <2>3. npc <= StartAddress => round = 2
    BY <1>0, <1>3, Numbers, SMTT(30) DEF Place
  <2>4. round' = round \/ round' = 2
    BY <1>3, StepBeyondStart DEF InOrder, Diverted
  <2>5. LoopRegisters'
    BY <1>0, <2>2, <2>3, <2>4, NextRegisters
  <2> QED
    BY <2>1, <2>5
<1>4. CASE pc = End + 4
  <2>1. npc = EndOfProgram
    BY <1>0, <1>4, Numbers, SMTT(30) DEF Place
  <2> QED
    BY <2>1, StepMoves
<1> QED
  BY <1>1, <1>2, <1>3, <1>4, Numbers
-----------------------------------------------------------------------------
LEMMA NextAccounted ==
  program' = program =>
    (Accounted' <=> /\ hwloop'.active
                    /\ End - 2 > StartAddress \/ stale'
                    /\ ~(End - 2 = StartAddress /\ stale' /\ count' = 1))
BY NextSeen DEF Accounted

LEMMA InSequenceNext ==
  ASSUME program' = program
  PROVE  InSequence' <=>
           /\ First < End - 1 /\ HasTransfer /\ pc' = TransferAt =>
                npc' = IF TransferAt = End - 1 THEN First ELSE TransferAt + 1
           /\ First = End - 1 /\ pc' = First => npc' = First \/ (HasTransfer /\ npc' = BranchTarget)
           /\ First < End - 1 /\ pc' = Callee => npc' = Callee + 1
           /\ pc' = End => npc' \in {End, End + 1}
BY SameProgram DEF InSequence

LEMMA NextExcess ==
  ASSUME program' = program
  PROVE  /\ Begun' = visits'[First] + (IF pc' = First THEN 1 ELSE 0)
                                    + (IF npc' = First THEN 1 ELSE 0)
         /\ FoundAt' = FoundAt
         /\ Overridden' = IF HasTransfer /\ TransferAt = FoundAt THEN taken' ELSE 0
         /\ Back' = IF HasTransfer /\ BranchTarget = First THEN taken' ELSE 0
         /\ Excess' = Begun' + hwloop'.counter + Overridden' - (count' + 1 + Back')
         /\ Iterating' <=> pc' \in Body \/ (First < End - 1 /\ (pc' = Callee \/ pc' = Callee + 1))
<1>1. FoundAt' = FoundAt
  BY SameProgram DEF FoundAt
<1> QED
  BY <1>1, SameProgram DEF Begun, Overridden, Back, Excess, Iterating

LEMMA AlignedNext ==
  ASSUME NEW x \in Int
  PROVE  Aligned(0) /\ (Aligned(x) => Aligned(x + Modulus))
<1>1. Modulus \in Int
  BY HalfRangeAssumption DEF Modulus
<1> HIDE DEF Modulus
<1>2. Aligned(0)
  <2>1. 0 = 0 * Modulus
    BY <1>1
  <2> QED
    BY <2>1 DEF Aligned
<1>3. ASSUME NEW k \in Int, x = k * Modulus PROVE Aligned(x + Modulus)
  <2>1. x + Modulus = (k + 1) * Modulus
    BY <1>1, <1>3
  <2> QED
    BY <2>1 DEF Aligned
<1> QED
  BY <1>2, <1>3 DEF Aligned

\* the loop is entered with as many iterations to come as the counter says
LEMMA AddingUpFromStart ==
  ASSUME AddUpInvariant, Step, pc = StartAddress
  PROVE  AddingUp'
<1> SUFFICES ASSUME Accounted' PROVE AddingUp'
  BY DEF AddingUp
<1>0. /\ program' = program /\ pc' = 4 /\ npc = 4 /\ npc' = SequentialNpc
      /\ hwloop'.counter = SteppedLoop.counter
      /\ count' = hwloop.counter /\ stale' = hwloop.active /\ taken' = 0
      /\ visits'[First] = 0
  BY StepOfStart, StepMoves, Numbers
<1>1. /\ AtLoopEnd <=> hwloop.active /\ End = 5
      /\ ~AtLoopEnd => npc' = 5 /\ hwloop'.counter = count'
  BY <1>0, FetchAnywhere, Numbers
<1>4. count' \in Int /\ Overridden' = 0 /\ Back' = 0
  <2>1. count' \in Word
    BY <1>0, LoopContext
  <2> QED
    BY <1>0, <2>1, NextExcess, CountDown DEF Word
<1>2. CASE End > 5
  <2>1. npc' = 5 /\ hwloop'.counter = count'
    BY <1>1, <1>2
  <2>2. InSequence'
    BY <1>0, <1>2, <2>1, Numbers, InSequenceNext
  <2>3. pc' = First => Excess' = 0
    <3>1. pc' = First => Begun' = 1
      BY <1>0, <1>2, <2>1, Numbers, NextExcess
    <3>2. Excess' = Begun' + hwloop'.counter + Overridden' - (count' + 1 + Back')
      BY <1>0, NextExcess
    <3>3. PICK c \in Int : c = count'
      BY <1>4
    <3>4. pc' = First => Excess' = 1 + c + 0 - (c + 1 + 0)
      BY <1>4, <2>1, <3>1, <3>2, <3>3
    <3> QED
      BY <3>4
  <2>4. Iterating' => pc' = First
    BY <1>0, <1>2, Numbers, NextExcess
  <2>5. Iterating' => Aligned(Excess')
    BY <2>3, <2>4, AlignedNext
  <2> QED
    BY <1>0, <2>1, <2>2, <2>5, SameProgram DEF AddingUp, Aligned, Modulus
<1>3. CASE End = 5
  <2>1. First = 4 /\ AtLoopEnd /\ count' # 1
    BY <1>0, <1>1, <1>3, Numbers, NextAccounted
  <2>2. count' \in Word /\ hwloop'.counter = SubW(count', 1)
    BY <1>0, <2>1, FetchAnywhere, LoopContext, Numbers
  <2>3. hwloop'.counter = count' - 1 \/ hwloop'.counter = count' - 1 + Modulus
    BY <2>2, CountDown DEF Word
  <2>4. hwloop'.counter > 0
    BY <2>1, <2>2, CountDown DEF Word
  <2>5. npc' = First
    BY <1>0, <2>1, <2>4, FetchAnywhere, Numbers
  <2>6. InSequence'
    BY <1>0, <1>3, <2>1, <2>5, Numbers, InSequenceNext
  <2>7. Excess' = 0 \/ Excess' = 0 + Modulus
    <3>1. Begun' = 2
      BY <1>0, <2>1, <2>5, NextExcess
    <3>2. Excess' = Begun' + hwloop'.counter + Overridden' - (count' + 1 + Back')
      BY <1>0, NextExcess
    <3>3. Modulus \in Int
      BY <2>2, CountDown
    <3> HIDE DEF Modulus
    <3> QED
      BY <1>4, <2>3, <3>1, <3>2, <3>3
  <2>8. Aligned(Excess')
    BY <2>7, AlignedNext
  <2>9. pc' \notin StartAddress + 1 .. First - 1
    BY <1>0, <2>1, Numbers
  <2> QED
    BY <1>0, <2>6, <2>8, <2>9, SameProgram DEF AddingUp, Aligned, Modulus, StartAddress
<1> QED
  BY <1>2, <1>3, Numbers

LEMMA CarriedOn ==
  ASSUME AddUpInvariant, Step, StartAddress < pc, Accounted'
  PROVE  /\ Accounted /\ InSequence
         /\ pc \in StartAddress + 1 .. First - 1 =>
              visits[First] = 0 /\ hwloop.counter = count /\ taken = 0
         /\ Iterating => Aligned(Excess)
         /\ pc' = npc /\ program' = program
         /\ pc # End + 4 => /\ ~AtLoopEnd => hwloop' = hwloop /\ SequentialNpc = npc + 1
                            /\ AtLoopEnd => /\ hwloop'.counter = SubW(hwloop.counter, 1)
                                            /\ SequentialNpc = First
                            /\ AtLoopEnd <=> npc = End - 1
<1>1. hwloop' = SteppedLoop /\ count' = count /\ stale' = stale /\ pc' = npc /\ program' = program
  BY StepBeyondStart, StepMoves
<1>2. SteppedLoop.active => hwloop.active
  BY LoopContext, FetchEffect DEF AtLoopEnd
<1>3. Accounted
  BY <1>1, <1>2, NextAccounted DEF Accounted, EndIsSeen, RevivedByStart
<1>4. SteppedLoop.active /\ hwloop.active /\ AddingUp
  BY <1>1, <1>2, <1>3, NextAccounted, LoopContext DEF Accounted
<1>5. ASSUME pc # End + 4
      PROVE  /\ ~AtLoopEnd => SteppedLoop = hwloop /\ SequentialNpc = npc + 1
             /\ AtLoopEnd => /\ SteppedLoop.counter = SubW(hwloop.counter, 1)
                             /\ SequentialNpc = First
             /\ AtLoopEnd <=> npc = End - 1
  BY <1>4, <1>5, FetchAnywhere, Numbers
<1> QED
  BY <1>1, <1>3, <1>4, <1>5 DEF AddingUp

LEMMA InSequenceKept ==
  ASSUME AddUpInvariant, Step, StartAddress < pc, Accounted'
  PROVE  InSequence'
<1>0. /\ InSequence /\ Place /\ pc' = npc /\ program' = program
      /\ pc # End + 4 => /\ ~AtLoopEnd => SequentialNpc = npc + 1
                         /\ AtLoopEnd => SequentialNpc = First
                         /\ AtLoopEnd <=> npc = End - 1
  BY CarriedOn, LoopContext
<1>1. CASE InOrder /\ pc # End + 4
  <2>1. npc' = IF npc = End - 1 THEN First ELSE npc + 1
    BY <1>0, <1>1 DEF InOrder
  <2>2. First < End - 1 /\ HasTransfer /\ pc' = TransferAt =>
          npc' = IF TransferAt = End - 1 THEN First ELSE TransferAt + 1
    BY <1>0, <2>1
  <2>3. First = End - 1 /\ pc' = First => npc' = First
    BY <1>0, <2>1
  <2>4. pc' = Callee => npc' = Callee + 1
    BY <1>0, <2>1, Numbers
  <2>5. pc' = End => npc' = End + 1
    BY <1>0, <2>1, Numbers
  <2> QED
    BY <1>0, <2>2, <2>3, <2>4, <2>5, InSequenceNext
<1>2. CASE Diverted
  <2>1. HasTransfer /\ pc = TransferAt /\ npc' = BranchTarget
    BY <1>2 DEF Diverted
  <2>2. CASE First < End - 1
    <3>1. npc = IF TransferAt = End - 1 THEN First ELSE TransferAt + 1
      BY <1>0, <2>1, <2>2 DEF InSequence
    <3>2. npc # TransferAt /\ npc # Callee /\ npc # End
      BY <2>1, <2>2, <3>1, Numbers
    <3>3. pc' # TransferAt /\ pc' # Callee /\ pc' # End /\ First # End - 1
      BY <1>0, <2>2, <3>2, Numbers
    <3> QED
      BY <1>0, <3>3, InSequenceNext
  <2>3. CASE First = End - 1
    <3>1. pc = First /\ (npc = First \/ npc = BranchTarget)
      BY <1>0, <2>1, <2>3, Numbers DEF InSequence
    <3>2. pc' = End => npc' = End
      BY <1>0, <2>1, <3>1, Numbers
    <3>3. ~(First < End - 1)
      BY <2>3, Numbers
    <3> QED
      BY <1>0, <2>1, <3>2, <3>3, InSequenceNext
  <2> QED
    BY <2>2, <2>3, Numbers
<1>3. CASE pc = Callee /\ npc' = TransferAt + 2
  <2>1. HasTransfer /\ npc \in {Callee, Callee + 1, TransferAt + 2}
    <3>1. /\ pc # End /\ pc # End + 1 /\ pc # End + 2 /\ pc # End + 3 /\ pc # End + 4
          /\ pc # Callee + 1 /\ pc \notin Body /\ pc \notin 0 .. First - 1
      BY <1>3, Numbers
    <3> QED
      BY <1>0, <1>3, <3>1 DEF Place
  <2>2. CASE First < End - 1
    <3>1. npc = Callee + 1
      BY <1>0, <1>3, <2>2 DEF InSequence
    <3>2. pc' # TransferAt /\ pc' # Callee /\ pc' # End /\ First # End - 1
      BY <1>0, <2>1, <2>2, <3>1, Numbers
    <3> QED
      BY <1>0, <3>2, InSequenceNext
  <2>3. CASE First = End - 1
    <3>1. pc' # First /\ pc' # End /\ ~(First < End - 1)
      BY <1>0, <2>1, <2>3, Numbers
    <3> QED
      BY <1>0, <3>1, InSequenceNext
  <2> QED
    BY <2>2, <2>3, Numbers
<1>4. CASE pc = End + 1 \/ pc = End + 3 \/ pc = End + 4
  <2>1. pc' # First /\ pc' # End /\ pc' # Callee /\ ~(HasTransfer /\ pc' = TransferAt)
    <3>1. \/ npc = 0 \/ npc = StartAddress \/ npc = End + 1 \/ npc = End + 2
          \/ npc = End + 4 \/ npc = EndOfProgram
      <4>1. pc \notin 0 .. First - 1 /\ pc \notin Body /\ pc # End /\ pc # Callee /\ pc # Callee + 1
            /\ pc # End + 2
        BY <1>4, Numbers
      <4> QED
        BY <1>0, <4>1 DEF Place
    <3>2. EndOfProgram \in Nat /\ End + 6 < EndOfProgram
      BY LoopContext, SmallWords DEF LoopShape, Word
    <3> QED
      BY <1>0, <3>1, <3>2, Numbers, SMTT(30)
  <2> QED
    BY <1>0, <2>1, InSequenceNext
<1> QED
  BY <1>1, <1>2, <1>3, <1>4, StepBeyondStart

\* one of the instructions before the body
LEMMA BeforeBodyKept ==
  ASSUME AddUpInvariant, Step, StartAddress < pc, pc < First, Accounted'
  PROVE  /\ pc' \in StartAddress + 1 .. First - 1 =>
              visits'[First] = 0 /\ hwloop'.counter = count' /\ taken' = 0
         /\ Iterating' => Aligned(Excess')
<1>0. /\ Place /\ program' = program /\ pc' = npc /\ pc # End + 4
      /\ hwloop.counter \in Word /\ count \in Word /\ visits \in [0 .. End + 6 -> Nat]
  BY LoopContext, StepMoves, Numbers
<1>1. npc = pc + 1
  BY <1>0, Numbers, SMTT(30) DEF Place
<1>2. visits[First] = 0 /\ hwloop.counter = count /\ taken = 0
  <2>1. pc \in StartAddress + 1 .. First - 1
    BY Numbers
  <2> QED
    BY <2>1, CarriedOn
<1>3. InOrder /\ count' = count /\ visits' = [visits EXCEPT ![pc] = @ + 1]
  <2>1. pc # End + 1 /\ pc # End + 3 /\ pc # Callee /\ ~(HasTransfer /\ pc = TransferAt)
    BY Numbers
  <2> QED
    BY <2>1, StepBeyondStart DEF Diverted
<1>4. visits'[First] = 0 /\ taken' = 0 /\ npc' = SequentialNpc
  BY <1>0, <1>2, <1>3, Numbers DEF InOrder
<1>5. ASSUME pc' < First
      PROVE  hwloop'.counter = count'
  BY <1>0, <1>2, <1>3, <1>5, CarriedOn, Numbers
<1>6. CASE pc' < First
  <2>1. ~Iterating'
    BY <1>0, <1>1, <1>6, NextExcess, Numbers
  <2> QED
    BY <1>4, <1>5, <1>6, <2>1
<1>7. CASE pc' = First
  <2>1. PICK c \in Word : c = count /\ c = count' /\ c = hwloop.counter
    BY <1>0, <1>2, <1>3
  <2>2. c \in Int /\ Modulus \in Int
    BY <2>1, CountDown DEF Word
  <2>3. Overridden' = 0 /\ Back' = 0
    BY <1>0, <1>4, NextExcess
  <2>4. Excess' = Begun' + hwloop'.counter + Overridden' - (count' + 1 + Back')
    BY <1>0, NextExcess
  <2> HIDE DEF Modulus
  <2>5. CASE npc = End - 1
    <3>1. hwloop'.counter = SubW(c, 1) /\ npc' = First
      BY <1>0, <1>4, <2>1, <2>5, CarriedOn
    <3>2. hwloop'.counter = c - 1 \/ hwloop'.counter = c - 1 + Modulus
      BY <2>1, <2>2, <3>1, CountDown
    <3>3. Begun' = 2
      BY <1>0, <1>4, <1>7, <3>1, NextExcess
    <3>4. Excess' = 2 + hwloop'.counter + 0 - (c + 1 + 0)
      BY <2>1, <2>3, <2>4, <3>3
    <3>5. Excess' = 0 \/ Excess' = 0 + Modulus
      BY <2>2, <3>2, <3>4
    <3> QED
      BY <1>7, <3>5, AlignedNext, Numbers
  <2>6. CASE npc # End - 1
    <3>1. hwloop'.counter = c /\ npc' = npc + 1
      BY <1>0, <1>4, <2>1, <2>6, CarriedOn
    <3>2. npc' # First
      <4>1. npc' = First + 1
        BY <1>0, <1>7, <3>1
      <4> QED
        BY <4>1, Numbers
    <3>3. Begun' = 1
      BY <1>0, <1>4, <1>7, <3>2, NextExcess
    <3>4. Excess' = 1 + c + 0 - (c + 1 + 0)
      BY <2>1, <2>3, <2>4, <3>1, <3>3
    <3>5. Excess' = 0
      BY <2>2, <3>4
    <3> QED
      BY <1>7, <3>5, AlignedNext, Numbers
  <2> QED
    BY <2>5, <2>6
<1> QED
  BY <1>0, <1>1, <1>6, <1>7, Numbers

\* an iteration more is one of the counter less
LEMMA Balance ==
  ASSUME AddUpInvariant, Step, StartAddress < pc, Iterating, Accounted', program' = program,
         NEW o \in Int, NEW b \in Int,
         Overridden' = Overridden + o, Back' = Back + b,
         npc # End - 1 => (IF npc' = First THEN 1 ELSE 0) + o - b = 0,
         npc = End - 1 => (IF npc' = First THEN 1 ELSE 0) + o - b = 1
  PROVE  Aligned(Excess')
<1>0. /\ hwloop.counter \in Word /\ taken \in Nat /\ visits \in [0 .. End + 6 -> Nat]
      /\ count \in Word /\ pc \in 0 .. End + 6
  BY LoopContext
<1>1. /\ Aligned(Excess) /\ pc' = npc
      /\ count' = count /\ visits' = [visits EXCEPT ![pc] = @ + 1]
      /\ npc # End - 1 => hwloop'.counter = hwloop.counter
      /\ npc = End - 1 => hwloop'.counter = SubW(hwloop.counter, 1)
  <2>1. pc # End + 4
    BY Numbers, SMTT(30) DEF Iterating
  <2> QED
    BY <2>1, CarriedOn, StepBeyondStart
<1>2. PICK v \in Int : v = visits[First]
  BY <1>0, Numbers
<1>3. PICK c \in Int, k \in Int : /\ c = hwloop.counter /\ k = count
                                 /\ hwloop.counter \in Word
  BY <1>0, CountDown DEF Word
<1>4. Overridden \in Int /\ Back \in Int /\ Modulus \in Int
  BY <1>0, <1>3, CountDown DEF Overridden, Back
<1>5. visits'[First] = v + (IF pc = First THEN 1 ELSE 0)
  BY <1>0, <1>1, <1>2, Numbers, SMTT(30)
<1>6. PICK n \in Int : n = IF npc' = First THEN 1 ELSE 0
  OBVIOUS
<1>7. Begun \in Int /\ Begun' = Begun + n
  <2>1. Begun = v + (IF pc = First THEN 1 ELSE 0) + (IF npc = First THEN 1 ELSE 0)
    BY <1>2 DEF Begun
  <2>2. Begun' = visits'[First] + (IF npc = First THEN 1 ELSE 0) + n
    BY <1>1, <1>6, NextExcess
  <2> QED
    BY <1>2, <1>5, <1>6, <2>1, <2>2
<1>8. Excess = Begun + c + Overridden - (k + 1 + Back)
  BY <1>3 DEF Excess
<1>9. Excess' = Begun + n + hwloop'.counter + (Overridden + o) - (k + 1 + (Back + b))
  BY <1>1, <1>3, <1>7, NextExcess
<1> HIDE DEF Modulus
<1>10. CASE npc # End - 1
  <2>1. hwloop'.counter = c /\ n + o - b = 0
    BY <1>1, <1>3, <1>6, <1>10
  <2>2. Excess' = Excess
    BY <1>3, <1>4, <1>6, <1>7, <1>8, <1>9, <2>1
  <2> QED
    BY <1>1, <2>2
<1>11. CASE npc = End - 1
  <2>1. hwloop'.counter = SubW(c, 1) /\ n + o - b = 1
    BY <1>1, <1>3, <1>6, <1>11
  <2>2. hwloop'.counter = c - 1 \/ hwloop'.counter = c - 1 + Modulus
    BY <1>3, <1>4, <2>1, CountDown
  <2>3. Excess \in Int
    BY <1>3, <1>4, <1>7, <1>8
  <2>4. Excess' = Excess \/ Excess' = Excess + Modulus
    BY <1>3, <1>4, <1>6, <1>7, <1>8, <1>9, <2>1, <2>2
  <2> QED
    BY <1>1, <2>3, <2>4, AlignedNext
<1> QED
  BY <1>10, <1>11

LEMMA ExcessKept ==
  ASSUME AddUpInvariant, Step, First <= pc, Accounted', Iterating'
  PROVE  Aligned(Excess')
<1>0. /\ Place /\ program' = program /\ pc' = npc /\ StartAddress < pc
      /\ InSequence /\ taken \in Nat
      /\ Overridden' = IF HasTransfer /\ TransferAt = FoundAt THEN taken' ELSE 0
      /\ Back' = IF HasTransfer /\ BranchTarget = First THEN taken' ELSE 0
  BY LoopContext, StepMoves, Numbers, CarriedOn, NextExcess
<1>1. npc \in Body \/ (First < End - 1 /\ (npc = Callee \/ npc = Callee + 1))
  BY <1>0, NextExcess
<1>2. Iterating
  <2>1. pc # End
    BY <1>0, <1>1, Numbers DEF InSequence
  <2>2. pc # End + 1 /\ pc # End + 2 /\ pc # End + 3 /\ pc # End + 4
    <3>1. EndOfProgram \in Nat /\ End + 6 < EndOfProgram
      BY LoopContext, SmallWords DEF LoopShape, Word
    <3>2. npc # 0 /\ npc # StartAddress /\ npc # End + 1 /\ npc # End + 2 /\ npc # End + 3
          /\ npc # End + 4 /\ npc # EndOfProgram
      BY <1>1, <3>1, Numbers, SMTT(30)
    <3>3. ASSUME pc = End + 1 \/ pc = End + 2 \/ pc = End + 3 \/ pc = End + 4 PROVE FALSE
      <4>1. pc \notin 0 .. First - 1 /\ pc \notin Body /\ pc # End /\ pc # Callee /\ pc # Callee + 1
        BY <3>3, Numbers, SMTT(30)
      <4> QED
        BY <1>0, <3>2, <4>1 DEF Place
    <3> QED
      BY <3>3
  <2>3. ASSUME pc = Callee \/ pc = Callee + 1, ~(First < End - 1) PROVE FALSE
    <3>1. /\ pc # End /\ pc # End + 1 /\ pc # End + 2 /\ pc # End + 3 /\ pc # End + 4
          /\ pc \notin Body /\ pc \notin 0 .. First - 1
      BY <2>3, Numbers, SMTT(30)
    <3>2. HasTransfer /\ (npc = Callee \/ npc = Callee + 1 \/ npc = TransferAt + 2)
      BY <1>0, <2>3, <3>1 DEF Place
    <3> QED
      BY <1>1, <2>3, <3>2, Numbers
  <2>4. pc \in Body \/ pc = Callee \/ pc = Callee + 1
    BY <2>1, <2>2, Numbers, SMTT(30)
  <2> QED
    BY <2>3, <2>4 DEF Iterating
<1>3. pc # End + 4 /\ pc # End + 1 /\ pc # End + 3
  BY <1>2, Numbers DEF Iterating
<1>4. CASE InOrder
  <2>1. taken' = taken /\ npc' = SequentialNpc
    BY <1>4 DEF InOrder
  <2>2. Overridden' = Overridden + 0 /\ Back' = Back + 0
    BY <1>0, <2>1 DEF Overridden, Back
  <2>3. npc = End - 1 => npc' = First
    BY <1>0, <1>3, <2>1, CarriedOn
  <2>4. npc # End - 1 => npc' = npc + 1 /\ npc' # First
    <3>1. npc # End - 1 => npc' = npc + 1
      BY <1>0, <1>3, <2>1, CarriedOn
    <3> QED
      BY <1>1, <3>1, Numbers
  <2> QED
    BY <1>0, <1>2, <2>2, <2>3, <2>4, Balance
<1>5. CASE Diverted
  <2>1. HasTransfer /\ pc = TransferAt /\ npc' = BranchTarget /\ taken' = taken + 1
    BY <1>5 DEF Diverted
  <2>2. PICK o \in Int, b \in Int : /\ o = IF TransferAt = FoundAt THEN 1 ELSE 0
                                   /\ b = IF BranchTarget = First THEN 1 ELSE 0
    OBVIOUS
  <2>3. Overridden' = Overridden + o /\ Back' = Back + b
    BY <1>0, <2>1, <2>2 DEF Overridden, Back
  <2>4. TransferAt = FoundAt <=> npc = End - 1
    <3>1. CASE First < End - 1
      <4>1. FoundAt = End - 2
        BY <3>1, Numbers DEF FoundAt
      <4>2. npc = IF TransferAt = End - 1 THEN First ELSE TransferAt + 1
        BY <1>0, <2>1, <3>1 DEF InSequence
      <4> QED
        BY <2>1, <3>1, <4>1, <4>2, Numbers
    <3>2. CASE First = End - 1
      <4>1. FoundAt = End - 1 /\ TransferAt = End - 1
        BY <2>1, <3>2, Numbers DEF FoundAt
      <4>2. npc = End - 1
        BY <1>1, <3>2, Numbers
      <4> QED
        BY <4>1, <4>2
    <3> QED
      BY <3>1, <3>2, Numbers
  <2>5. /\ npc # End - 1 => (IF npc' = First THEN 1 ELSE 0) + o - b = 0
        /\ npc = End - 1 => (IF npc' = First THEN 1 ELSE 0) + o - b = 1
    BY <2>1, <2>2, <2>4
  <2> QED
    BY <1>0, <1>2, <2>2, <2>3, <2>5, Balance
<1>6. CASE pc = Callee /\ npc' = TransferAt + 2 /\ taken' = taken
  <2>1. First < End - 1
    BY <1>2, <1>6, Numbers DEF Iterating
  <2>2. npc = Callee + 1
    BY <1>0, <1>6, <2>1 DEF InSequence
  <2>3. HasTransfer
    <3>1. /\ pc # End /\ pc # End + 1 /\ pc # End + 2 /\ pc # End + 3 /\ pc # End + 4
          /\ pc \notin Body /\ pc \notin 0 .. First - 1
      BY <1>6, Numbers
    <3> QED
      BY <1>0, <3>1 DEF Place
  <2>4. npc # End - 1 /\ npc' # First
    BY <1>6, <2>2, <2>3, Numbers
  <2>5. Overridden' = Overridden + 0 /\ Back' = Back + 0
    BY <1>0, <1>6 DEF Overridden, Back
  <2> QED
    BY <1>0, <1>2, <2>4, <2>5, Balance
<1> QED
  BY <1>0, <1>3, <1>4, <1>5, <1>6, StepBeyondStart

LEMMA AddUpKept ==
  ASSUME AddUpInvariant, Step, status' = "running"
  PROVE  AddingUp'
<1>0. program' = program /\ Place /\ pc' = npc
  BY LoopContext, StepMoves
<1>1. CASE pc < StartAddress
  <2>1. pc' \notin StartAddress + 1 .. First - 1 /\ pc' < First /\ pc' \in Nat
    BY <1>1, StepBeforeStart, Numbers
  <2>2. ~Iterating' /\ InSequence'
    BY <1>0, <2>1, NextExcess, InSequenceNext, Numbers
  <2> QED
    BY <1>0, <2>1, <2>2, SameProgram DEF AddingUp, StartAddress
<1>2. CASE pc = StartAddress
  BY <1>2, AddingUpFromStart
<1>3. CASE StartAddress < pc /\ Accounted'
  <2>1. InSequence'
    BY <1>3, InSequenceKept
  <2>2. CASE pc < First
    BY <1>0, <1>3, <2>1, <2>2, BeforeBodyKept, SameProgram DEF AddingUp, StartAddress
  <2>3. CASE First <= pc
    <3>1. pc' \notin StartAddress + 1 .. First - 1
      <4>1. pc \notin 0 .. First - 1
        BY <2>3, Numbers
      <4>2. \/ npc \in {0, StartAddress} \/ npc = EndOfProgram \/ First <= npc
        BY <1>0, <4>1, Numbers, SMTT(30) DEF Place
      <4>3. EndOfProgram \in Nat /\ End + 6 < EndOfProgram
        BY LoopContext, SmallWords DEF LoopShape, Word
      <4> QED
        BY <1>0, <4>2, <4>3, Numbers
    <3> QED
      BY <1>0, <1>3, <2>1, <2>3, <3>1, ExcessKept, SameProgram DEF AddingUp, StartAddress
  <2> QED
    BY <2>2, <2>3, Numbers
<1> QED
  BY <1>1, <1>2, <1>3, Numbers DEF AddingUp

LEMMA AddUpInit == Init => AddUpInvariant
<1> SUFFICES ASSUME Init PROVE AddUpInvariant
  OBVIOUS
<1>1. LoopInvariant /\ LoopShape
  BY LoopInit DEF LoopInvariant
<1>2. pc = 0 /\ npc = 1 /\ round = 1 /\ ~hwloop.active
  BY DEF Init, ResetControl
<1>3. First \in Nat /\ 3 < First
  BY <1>1 DEF LoopShape, StartAddress
<1>4. Place /\ LoopRegisters
  BY <1>2, <1>3 DEF Place, LoopRegisters
<1>5. AddingUp
  BY <1>2 DEF AddingUp, Accounted
<1> QED
  BY <1>1, <1>4, <1>5 DEF AddUpInvariant

LEMMA AddUpNext == AddUpInvariant /\ [Step]_loopVars => AddUpInvariant'
<1> SUFFICES ASSUME AddUpInvariant, [Step]_loopVars PROVE AddUpInvariant'
  OBVIOUS
<1>1. LoopInvariant'
  BY LoopNext DEF AddUpInvariant
<1>2. CASE Step
  BY <1>1, <1>2, PlaceKept, AddUpKept DEF AddUpInvariant
<1>3. CASE UNCHANGED loopVars
  <2>1. /\ program' = program /\ pc' = pc /\ npc' = npc /\ hwloop' = hwloop /\ status' = status
        /\ visits' = visits /\ taken' = taken /\ round' = round
        /\ count' = count /\ stale' = stale
    BY <1>3 DEF loopVars
  <2>2. (Place' <=> Place) /\ (LoopRegisters' <=> LoopRegisters)
    BY <2>1, PlaceNext, NextRegisters DEF Place, LoopRegisters
  <2>3. /\ Accounted' <=> Accounted
        /\ InSequence' <=> InSequence
        /\ Iterating' <=> Iterating
    BY <2>1, NextAccounted, InSequenceNext, NextExcess
       DEF Accounted, EndIsSeen, RevivedByStart, InSequence, Iterating
  <2>4. Excess' = Excess
    BY <2>1, NextExcess DEF Excess, Begun, Overridden, Back
  <2>5. Aligned(Excess)' <=> Aligned(Excess)
    BY <2>4 DEF Aligned, Modulus
  <2>6. AddingUp' <=> AddingUp
    BY <2>1, <2>3, <2>5, SameProgram DEF AddingUp, StartAddress
  <2> QED
    BY <1>1, <2>1, <2>2, <2>6 DEF AddUpInvariant
<1> QED
  BY <1>2, <1>3

\* numbers a multiple of the modulus apart leave the same remainder
LEMMA SameRemainder ==
  ASSUME NEW a \in Int, NEW b \in Int, NEW m \in Nat \ {0}, NEW k \in Int, a = b + k * m
  PROVE  a % m = b % m
<1>1. /\ a \div m \in Int /\ a % m \in 0 .. m - 1 /\ a = m * (a \div m) + (a % m)
      /\ b \div m \in Int /\ b % m \in 0 .. m - 1 /\ b = m * (b \div m) + (b % m)
  OBVIOUS
<1>2. PICK p \in Int, q \in Int, r \in 0 .. m - 1, s \in 0 .. m - 1 :
        /\ r = a % m /\ s = b % m
        /\ a = m * p + r /\ b = m * q + s
  BY <1>1
<1>3. m * (p - q - k) = s - r
  <2>1. m * (p - q - k) = m * p - m * q - k * m
    OBVIOUS
  <2>2. PICK x \in Int, y \in Int, z \in Int : x = m * p /\ y = m * q /\ z = k * m
    OBVIOUS
  <2>3. x + r = y + s + z
    BY <1>2, <2>2
  <2> QED
    BY <2>1, <2>2, <2>3
<1>4. PICK d \in Int : d = p - q - k
  OBVIOUS
<1>5. m * d = s - r /\ s - r < m /\ s - r > -m
  BY <1>3, <1>4
<1>6. ASSUME d >= 1 PROVE FALSE
  <2>1. m * d >= m
    BY <1>6
  <2> QED
    BY <1>5, <2>1
<1>7. ASSUME d <= -1 PROVE FALSE
  <2>1. m * d <= -m
    BY <1>7
  <2> QED
    BY <1>5, <2>1
<1>8. d = 0
  BY <1>6, <1>7
<1>9. m * d = 0
  BY <1>8
<1>10. s = r
  BY <1>5, <1>9
<1> QED
  BY <1>2, <1>10

LEMMA AddUpImplies == AddUpInvariant => IterationsAddUp
<1> SUFFICES ASSUME AddUpInvariant, hwloop.active, EndIsSeen, ~RevivedByStart, pc \in Body
             PROVE  (Begun + hwloop.counter + Overridden) % Modulus
                      = (count + 1 + Back) % Modulus
  <2> DEFINE begun == visits[First] + (IF pc = First THEN 1 ELSE 0)
             repeats == IF npc = First THEN 1 ELSE 0
  <2>1. Begun = begun + repeats
    BY DEF Begun
  <2> HIDE DEF begun, repeats
  <2> QED
    BY <2>1 DEF IterationsAddUp, Begun, Overridden, Back, FoundAt, begun, repeats
<1>1. LoopShape /\ LoopTypeOK /\ ControlTypeOK
  BY DEF AddUpInvariant, LoopInvariant, LoopTypeOK
<1>2. status = "running"
  <2>1. EndOfProgram \in Nat /\ End \in Nat /\ End + 6 < EndOfProgram
    BY <1>1, SmallWords DEF LoopShape, Word
  <2>2. pc # EndOfProgram
    BY <2>1, <1>1 DEF Body, LoopShape
  <2> QED
    BY <2>2 DEF AddUpInvariant, LoopInvariant
<1>3. Aligned(Excess)
  BY <1>2 DEF AddUpInvariant, AddingUp, Accounted, Iterating
<1>4. PICK k \in Int : Excess = k * Modulus
  BY <1>3 DEF Aligned
<1>5. /\ visits[First] \in Nat /\ taken \in Nat
      /\ hwloop.counter \in Word /\ count \in Word
  BY <1>1 DEF LoopTypeOK, LoopShape, ControlTypeOK, HwloopType
<1>6. hwloop.counter \in Int /\ count \in Int /\ Modulus \in Nat \ {0}
  BY <1>5, CountDown DEF Word
<1>7. Begun \in Int /\ Overridden \in Int /\ Back \in Int
  BY <1>5 DEF Begun, Overridden, Back
<1> HIDE DEF Modulus
<1>8. PICK a \in Int, b \in Int : a = Begun + hwloop.counter + Overridden /\ b = count + 1 + Back
  BY <1>6, <1>7
<1>9. a = b + k * Modulus
  <2>1. Excess = a - b
    <3>1. PICK x \in Int, y \in Int : /\ x = Begun + hwloop.counter + Overridden
                                     /\ y = count + 1 + Back
                                     /\ Excess = x - y
      BY <1>6, <1>7 DEF Excess
    <3> QED
      BY <1>8, <3>1
  <2>2. k * Modulus \in Int
    BY <1>6
  <2> QED
    BY <1>4, <2>1, <2>2
<1>10. a % Modulus = b % Modulus
  BY <1>6, <1>9, SameRemainder, ZenonT(30)
<1> QED
  BY <1>8, <1>10

(***************************************************************************)
(* No iteration of an active loop is lost or added, for every word width,  *)
(* every gap, length and bound, and wherever its branch or call stands,    *)
(* also in the two last slots of the body.                                 *)
(***************************************************************************)
THEOREM NoIterationLost == Spec => []IterationsAddUp
BY AddUpInit, AddUpNext, AddUpImplies, PTL DEF Spec
=============================================================================
