---------------------------- MODULE SimulateStep ----------------------------
(***************************************************************************)
(* The simulator core, simulateStep of gen_sim.c: one action for each case *)
(* of its opcode switch, with everything the step does for that opcode:    *)
(* the fetch and the hardware loop, the operands, the result, the          *)
(* predication and the commit of registers, memory, y, psr and predicates. *)
(***************************************************************************)
EXTENDS SparcAlu, RegisterWindows, ControlFlow, DataMemory

CONSTANTS
  PredicateRegisters,     \* 0..15 in the code
  SethiScale,             \* 2^10, the weight of the lowest bit SETHI sets
  InitialMemories         \* the contents readMemory may leave

ASSUME SimulateAssumption ==
  /\ SethiScale \in Nat \ {0}
  /\ InitialMemories \subseteq Memory
  /\ StackTop = MemoryBytes - 4
  /\ ReturnFromMain = Modulus - 9

PredicateBits == PredicateRegisters \X {0, 1}
PredicateStates ==
  [state : {"NONE"}] \cup [state : {"ICC"}, icc : ConditionCodes]
  \cup [state : {"PREG"}, bit : PredicateBits]

(***************************************************************************)
(* What the decoders put into an instruction: pointers to registers for    *)
(* rd and rs1, a register or a sign-extended immediate for operand 2 and   *)
(* the first operand of a select, and fields no wider than their place in  *)
(* the instruction word.                                                   *)
(***************************************************************************)
DestinationOps == AluOps \cup LoadOps \cup StoreOps
                  \cup {"RD", "MOV", "SEL", "SAVE", "RESTORE", "SETHI", "JUMPL"}
Source1Ops == AluOps \cup LoadOps \cup StoreOps
              \cup {"WR", "MOV", "SEL", "SAVE", "RESTORE", "JUMPL"}
Source2Ops == Source1Ops \ {"MOV"}

ASSUME OperandsAssumption ==
  \A p \in Programs : \A a \in DOMAIN p :
    /\ p[a].op \in DestinationOps => p[a].rd \in Registers
    /\ p[a].op \in Source1Ops => p[a].rs1 \in Operands
    /\ p[a].op \in {"SAVE", "RESTORE"} => p[a].rs1 \in Registers
    /\ p[a].op \in Source2Ops => p[a].src2 \in Operands
    /\ p[a].op = "HWLOOP_INIT" /\ p[a].reg = "LOOPB" => p[a].src2 \in Operands
    /\ p[a].op = "SETHI" => p[a].imm \in Nat
    /\ p[a].op = "PREDBEGIN" => p[a].condition \in PredicateStates
    /\ p[a].op \in {"PREDSET", "PREDCLEAR"} => p[a].preg \in PredicateRegisters

VARIABLES
  icc, y,                 \* the icc bits of sparc_psr, and sparc_y
  predicate,              \* sparc_pred_state
  preg,                   \* sparc_preg: the set of the <<register, tf>> that are 1
  memory,                 \* data_memory
  cycles, localCycles     \* sparc_cycle_counter, sparc_cycle_counter_local

conditionVars == <<icc, y>>
predicateVars == <<predicate, preg>>
turnVars == <<cwp, windowRegisters>>
dataVars == <<regs, icc, y, preg, memory>>
vars == <<program, pc, npc, hwloop, status, cwp, windowRegisters, regs,
          icc, y, predicate, preg, memory, cycles, localCycles>>

\* type invariant: of the components, the psr bits, memory, predicates and counters
TypeOK ==
  /\ ControlTypeOK
  /\ WindowsTypeOK
  /\ icc \in IccType /\ y \in Word
  /\ predicate \in PredicateStates
  /\ preg \subseteq PredicateBits
  /\ memory \in Memory
  /\ cycles \in Word /\ localCycles \in Word

\* resetSimulator after readMemory and readInstructions
Init ==
  /\ ResetControl
  /\ ResetWindows
  /\ icc = IccClear /\ y = 0
  /\ predicate = [state |-> "NONE"]
  /\ preg = {}
  /\ memory \in InitialMemories
  /\ cycles = 0 /\ localCycles = 0
-----------------------------------------------------------------------------
\* executed: the condition of the open predicated block holds now
Executed ==
  \/ predicate.state = "NONE"
  \/ predicate.state = "ICC" /\ EvaluateICC(predicate.icc, icc)
  \/ predicate.state = "PREG" /\ predicate.bit \in preg

\* an instruction that is predicated off costs nothing
FaultyTakes(n) ==
  /\ cycles' = AddW(cycles, n)
  /\ localCycles' = IF Executed THEN AddW(localCycles, n) ELSE localCycles

\* both counters go up, also for an instruction that is predicated off
Takes(n) ==
  /\ cycles' = AddW(cycles, n)
  /\ localCycles' = AddW(localCycles, n)

\* the two source operands of a register-register or register-immediate form
Source1 == OperandValue(Fetched.rs1)
Source2 == OperandValue(Fetched.src2)
EffectiveAddress == AddW(Source1, Source2)

FaultyWriteSkipped(v) == WriteRegister(Fetched.rd, v, TRUE)
FaultyWriteG0(v) ==
  /\ regs' = [regs EXCEPT ![windowRegisters[Fetched.rd]] = IF Executed THEN v ELSE @]
  /\ UNCHANGED turnVars

WriteDestination(v) == WriteRegister(Fetched.rd, v, Executed)

Is(ops) == Fetching /\ Fetched.op \in ops
-----------------------------------------------------------------------------
(***************************************************************************)
(* Control transfers.  CALL, BRANCH and the loop registers take effect     *)
(* whether or not the instruction is predicated off; JUMPL does not.       *)
(***************************************************************************)
FaultyCallLabel ==
  /\ Call
  /\ WriteRegister(CallAddress, (npc * 4) % Modulus, TRUE)
  /\ Takes(1)
  /\ UNCHANGED <<conditionVars, predicateVars, memory>>

CallLabel ==
  /\ Call
  /\ WriteRegister(CallAddress, (pc * 4) % Modulus, TRUE)
  /\ Takes(1)
  /\ UNCHANGED <<conditionVars, predicateVars, memory>>

\* a taken branch without its delay slot
FaultyBranchOnICC ==
  /\ Is({"BRANCH"})
  /\ LET next == IF EvaluateICC(Fetched.cc, icc) THEN Fetched.target ELSE npc
     IN  pc' = next /\ npc' = AddW(next, 1)
  /\ Takes(1)
  /\ UNCHANGED <<program, status, hwloop, windowVars, conditionVars, predicateVars, memory>>

BranchOnICC ==
  /\ Is({"BRANCH"})
  /\ Branch(EvaluateICC(Fetched.cc, icc))
  /\ Takes(1)
  /\ UNCHANGED <<windowVars, conditionVars, predicateVars, memory>>

JumpAndLink ==
  /\ Is({"JUMPL"})
  /\ Jumpl(EffectiveAddress, Executed)
  /\ WriteDestination((pc * 4) % Modulus)
  /\ Takes(1)
  /\ UNCHANGED <<conditionVars, predicateVars, memory>>

InitLoopRegister ==
  /\ Is({"HWLOOP_INIT"})
  /\ HwloopInit(IF Fetched.reg = "LOOPB" THEN Source2 ELSE 0)
  /\ Takes(1)
  /\ UNCHANGED <<windowVars, conditionVars, predicateVars, memory>>

StartLoop ==
  /\ HwloopStart
  /\ Takes(1)
  /\ UNCHANGED <<windowVars, conditionVars, predicateVars, memory>>
-----------------------------------------------------------------------------
(***************************************************************************)
(* Instructions without a result: cycle counters, NOP, and the opcodes the *)
(* simulator decodes but does not implement, which only take time.         *)
(***************************************************************************)
ClearCycles ==
  /\ Is({"CYCLE_PRINT", "CYCLE_CLEAR"})
  /\ ProceedInSequence
  /\ localCycles' = 0
  /\ UNCHANGED <<windowVars, conditionVars, predicateVars, memory, cycles>>

Unimplemented == {"LDA", "LDDA", "STD", "STDA", "LDSTUB", "LDSTUBA", "SWAP", "SWAPA"}

OnlyTakeTime ==
  /\ Is({"NOP"} \cup Unimplemented)
  /\ ProceedInSequence
  /\ Takes(CASE Fetched.op = "NOP"             -> 1
             [] Fetched.op \in {"LDA", "LDDA"} -> 3
             [] Fetched.op \in {"STD", "STDA"} -> 4
             [] OTHER                          -> 0)
  /\ UNCHANGED <<windowVars, conditionVars, predicateVars, memory>>
-----------------------------------------------------------------------------
(***************************************************************************)
(* Register results.                                                       *)
(***************************************************************************)
SetHigh ==
  /\ Is({"SETHI"})
  /\ ProceedInSequence
  /\ WriteDestination((Fetched.imm * SethiScale) % Modulus)
  /\ Takes(1)
  /\ UNCHANGED <<conditionVars, predicateVars, memory>>

DivisionByZero == Fetched.op \in DivOps /\ Source2 = 0

ArithmeticCycles(op) == IF op \in UmulOps \cup SmulOps \cup DivOps THEN 5 ELSE 1

\* the condition codes of an instruction that is predicated off
FaultyArithmetic ==
  /\ Is(AluOps) /\ ~DivisionByZero
  /\ ProceedInSequence
  /\ \E r \in AluOutcomes(Fetched.op, Source1, Source2, icc, y) :
       /\ WriteDestination(r.value)
       /\ icc' = r.icc
       /\ y' = IF Executed THEN r.y ELSE y
  /\ Takes(ArithmeticCycles(Fetched.op))
  /\ UNCHANGED <<predicateVars, memory>>

Arithmetic ==
  /\ Is(AluOps) /\ ~DivisionByZero
  /\ ProceedInSequence
  /\ \E r \in AluOutcomes(Fetched.op, Source1, Source2, icc, y) :
       /\ WriteDestination(r.value)
       /\ icc' = IF Executed THEN r.icc ELSE icc
       /\ y' = IF Executed THEN r.y ELSE y
  /\ Takes(ArithmeticCycles(Fetched.op))
  /\ UNCHANGED <<predicateVars, memory>>

ReadYRegister ==
  /\ Is({"RD"}) /\ Fetched.special = "Y"
  /\ ProceedInSequence
  /\ WriteDestination(y)
  /\ Takes(1)
  /\ UNCHANGED <<conditionVars, predicateVars, memory>>

WriteYRegister ==
  /\ Is({"WR"}) /\ Fetched.special = "Y"
  /\ ProceedInSequence
  /\ y' = IF Executed THEN XorW(Source1, Source2) ELSE y
  /\ Takes(1)
  /\ UNCHANGED <<windowVars, icc, predicateVars, memory>>

\* SEL without its second operand
FaultyConditionalMove ==
  /\ Is({"MOV", "SEL"})
  /\ ProceedInSequence
  /\ WriteDestination(IF EvaluateICC(Fetched.cc, icc) THEN Source1 ELSE Read(Fetched.rd))
  /\ Takes(1)
  /\ UNCHANGED <<conditionVars, predicateVars, memory>>

\* MOV keeps the destination when its condition fails, SEL takes operand 2
ConditionalMove ==
  /\ Is({"MOV", "SEL"})
  /\ ProceedInSequence
  /\ WriteDestination(IF EvaluateICC(Fetched.cc, icc) THEN Source1
                      ELSE IF Fetched.op = "SEL" THEN Source2
                      ELSE Read(Fetched.rd))
  /\ Takes(1)
  /\ UNCHANGED <<conditionVars, predicateVars, memory>>

TurnWindow ==
  /\ Is({"SAVE", "RESTORE"})
  /\ ProceedInSequence
  /\ \/ Fetched.op = "SAVE" /\ Save(Fetched.rd, Fetched.rs1, Fetched.src2, Executed)
     \/ Fetched.op = "RESTORE" /\ Restore(Fetched.rd, Fetched.rs1, Fetched.src2, Executed)
  /\ Takes(1)
  /\ UNCHANGED <<conditionVars, predicateVars, memory>>
-----------------------------------------------------------------------------
(***************************************************************************)
(* Memory.  A load reads memory before it is known to be executed, and     *)
(* only checks the alignment of an address whose word it keeps.            *)
(***************************************************************************)
CommitsLoad == Executed /\ Fetched.rd # G0

LoadMisaligned == Fetched.op \in LoadOps /\ CommitsLoad /\ Misaligned(Fetched.op, EffectiveAddress)
StoreMisaligned == Fetched.op \in StoreOps /\ Executed /\ Misaligned(Fetched.op, EffectiveAddress)

Load ==
  /\ Is(LoadOps)
  /\ LoadInBounds(EffectiveAddress) /\ ~LoadMisaligned
  /\ ProceedInSequence
  /\ IF CommitsLoad /\ Fetched.op # "LDD"
     THEN WriteDestination(Loaded(Fetched.op, memory, EffectiveAddress))
     ELSE UNCHANGED windowVars
  /\ Takes(2)
  /\ UNCHANGED <<conditionVars, predicateVars, memory>>

Store ==
  /\ Is(StoreOps)
  /\ ~StoreMisaligned
  /\ Executed => StoreInBounds(Fetched.op, EffectiveAddress)
  /\ ProceedInSequence
  /\ memory' = IF Executed THEN Stored(Fetched.op, memory, EffectiveAddress, Read(Fetched.rd))
               ELSE memory
  /\ Takes(3)
  /\ UNCHANGED <<windowVars, conditionVars, predicateVars>>
-----------------------------------------------------------------------------
(***************************************************************************)
(* Predication.                                                            *)
(***************************************************************************)
BeginPredicatedBlock ==
  /\ Is({"PREDBEGIN"})
  /\ ProceedInSequence
  /\ predicate' = Fetched.condition
  /\ Takes(1)
  /\ UNCHANGED <<windowVars, conditionVars, preg, memory>>

EndPredicatedBlock ==
  /\ Is({"PREDEND"})
  /\ ProceedInSequence
  /\ predicate' = [state |-> "NONE"]
  /\ Takes(1)
  /\ UNCHANGED <<windowVars, conditionVars, preg, memory>>

FaultyBitsSet(p) ==
  CASE Fetched.op = "PREDCLEAR"      -> {}
    [] "cc" \notin DOMAIN Fetched    -> {<<p, 0>>, <<p, 1>>}
    [] EvaluateICC(Fetched.cc, icc)  -> {<<p, 0>>}
    [] OTHER                         -> {<<p, 1>>}

\* bit 1 of a predicate register is its "true" bit, bit 0 its "false" bit
BitsSet(p) ==
  CASE Fetched.op = "PREDCLEAR"      -> {}
    [] "cc" \notin DOMAIN Fetched    -> {<<p, 0>>, <<p, 1>>}
    [] EvaluateICC(Fetched.cc, icc)  -> {<<p, 1>>}
    [] OTHER                         -> {<<p, 0>>}

SetPredicate ==
  /\ Is({"PREDSET", "PREDCLEAR"})
  /\ ProceedInSequence
  /\ preg' = IF Executed THEN (preg \ ({Fetched.preg} \X {0, 1})) \cup BitsSet(Fetched.preg)
             ELSE preg
  /\ Takes(1)
  /\ UNCHANGED <<windowVars, conditionVars, predicate, memory>>
-----------------------------------------------------------------------------
(***************************************************************************)
(* Steps that end the process.  A division by zero is an error even when   *)
(* predicated off; an address outside data_memory is not checked at all.   *)
(***************************************************************************)
StopWithError ==
  /\ Fetching
  /\ \/ DivisionByZero
     \/ LoadMisaligned /\ LoadInBounds(EffectiveAddress)
     \/ StoreMisaligned
     \/ Fetched.op \in {"RD", "WR"} /\ Fetched.special # "Y"
     \/ Fetched.op = "UNKNOWN"
  /\ Fail
  /\ UNCHANGED <<windowVars, conditionVars, predicateVars, memory, cycles, localCycles>>

FetchOutside == pc \notin DOMAIN program
AccessOutside ==
  \/ Is(LoadOps) /\ ~LoadInBounds(EffectiveAddress)
  \/ /\ Is(StoreOps) /\ Executed
     /\ ~StoreMisaligned /\ ~StoreInBounds(Fetched.op, EffectiveAddress)

BehaveUndefined ==
  /\ FetchOutside \/ AccessOutside
  /\ Undefined
  /\ UNCHANGED <<windowVars, conditionVars, predicateVars, memory, cycles, localCycles>>

Next ==
  \/ CallLabel \/ BranchOnICC \/ JumpAndLink \/ InitLoopRegister \/ StartLoop
  \/ ClearCycles \/ OnlyTakeTime
  \/ SetHigh \/ Arithmetic \/ ReadYRegister \/ WriteYRegister \/ ConditionalMove \/ TurnWindow
  \/ Load \/ Store
  \/ BeginPredicatedBlock \/ EndPredicatedBlock \/ SetPredicate
  \/ StopWithError \/ BehaveUndefined

Spec == Init /\ [][Next]_vars

\* main calls simulateStep in a loop until it returns 0
FairSpec == Spec /\ WF_vars(Next)
=============================================================================
