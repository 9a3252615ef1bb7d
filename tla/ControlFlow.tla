----------------------------- MODULE ControlFlow -----------------------------
(***************************************************************************)
(* Which instruction simulateStep executes next: pc, npc (one delay slot), *)
(* the hardware loop and the end of the simulation.  What the instructions *)
(* compute is left open here: a branch may go either way, a jump and a     *)
(* loop bound taken from a register may be any word.                       *)
(*                                                                         *)
(* A program is a function from 0 .. n-1 to instructions, records with a   *)
(* field op and the operands that opcode has.                              *)
(***************************************************************************)
EXTENDS SparcWords

CONSTANT Programs         \* the programs explored

\* the decoders build targets from displacements with uint32_t additions
ASSUME TargetsAssumption ==
  \A p \in Programs : \A a \in DOMAIN p :
    (\/ p[a].op = "CALL" \/ p[a].op = "BRANCH"
     \/ p[a].op = "HWLOOP_INIT" /\ p[a].reg # "LOOPB")
      => p[a].target \in Word

VARIABLES
  program,                \* instructions, as readInstructions left it
  pc, npc,                \* sparc_pc and sparc_npc, word addresses
  hwloop,                 \* sparc_hwloop_state
  status                  \* "running"; "halted": simulateStep returned 0;
                          \* "failed": simerror; "undefined": C gives no meaning

controlVars == <<program, pc, npc, hwloop, status>>

HwloopType == [active : BOOLEAN, start : Word, end : Word, counter : Word]

\* type invariant: both program counters and the loop registers are 32-bit words
ControlTypeOK ==
  /\ pc \in Word /\ npc \in Word
  /\ hwloop \in HwloopType
  /\ status \in {"running", "halted", "failed", "undefined"}

FaultyEndOfProgram == Modulus - 1

\* END_OF_INS_MEM >> 2
EndOfProgram == (Modulus - 1) \div 4

ResetControl ==
  /\ program \in Programs
  /\ pc = 0 /\ npc = 1
  /\ hwloop = [active |-> FALSE, start |-> 0, end |-> 0, counter |-> 0]
  /\ status = "running"

Fetching == status = "running" /\ pc \in DOMAIN program
Fetched == program[pc]
-----------------------------------------------------------------------------
(***************************************************************************)
(* The start of every step: npc is incremented, and if that makes it the   *)
(* end of the active loop the counter goes down and npc back to the start. *)
(***************************************************************************)
FaultyAtLoopEnd == hwloop.active /\ npc = hwloop.end
AtLoopEnd == hwloop.active /\ AddW(npc, 1) = hwloop.end
FaultyLoopCounter == IF AtLoopEnd THEN hwloop.counter - 1 ELSE hwloop.counter
FaultyCountdown == hwloop.counter
LoopCounter == IF AtLoopEnd THEN SubW(hwloop.counter, 1) ELSE hwloop.counter
LoopsBack == AtLoopEnd /\ LoopCounter > 0

SequentialNpc == IF LoopsBack THEN hwloop.start ELSE AddW(npc, 1)
FaultySteppedLoop == [hwloop EXCEPT !.counter = LoopCounter]
SteppedLoop ==
  [hwloop EXCEPT !.counter = LoopCounter,
                 !.active = @ /\ (AtLoopEnd => LoopsBack)]

Proceed(nextNpc, nextLoop) ==
  /\ pc' = npc
  /\ npc' = nextNpc
  /\ hwloop' = nextLoop
  /\ status' = IF npc = EndOfProgram THEN "halted" ELSE "running"
  /\ UNCHANGED program

ProceedInSequence == Proceed(SequentialNpc, SteppedLoop)
-----------------------------------------------------------------------------
TransferOps == {"CALL", "BRANCH", "JUMPL", "HWLOOP_INIT", "HWLOOP_START", "UNKNOWN"}

Sequential ==
  /\ Fetching /\ Fetched.op \notin TransferOps
  /\ ProceedInSequence

Call ==
  /\ Fetching /\ Fetched.op = "CALL"
  /\ Proceed(Fetched.target, SteppedLoop)

\* the delay slot is executed either way: there is no annul bit
Branch(taken) ==
  /\ Fetching /\ Fetched.op = "BRANCH"
  /\ Proceed(IF taken THEN Fetched.target ELSE SequentialNpc, SteppedLoop)

FaultyJumpl(address, executed) ==
  /\ Fetching /\ Fetched.op = "JUMPL"
  /\ Proceed(IF executed THEN address ELSE SequentialNpc, SteppedLoop)

\* a jump without its delay slot
FaultyJumplAtOnce(address, executed) ==
  /\ Fetching /\ Fetched.op = "JUMPL"
  /\ pc' = IF executed THEN address \div 4 ELSE npc
  /\ npc' = AddW(pc', 1)
  /\ hwloop' = SteppedLoop
  /\ status' = IF pc' = EndOfProgram THEN "halted" ELSE "running"
  /\ UNCHANGED program

\* memory_address >>= 2; skipped when the instruction is predicated off
Jumpl(address, executed) ==
  /\ Fetching /\ Fetched.op = "JUMPL"
  /\ Proceed(IF executed THEN address \div 4 ELSE SequentialNpc, SteppedLoop)

\* the registers of a loop that is still active are kept
FaultyHwloopInit(bound) ==
  /\ Fetching /\ Fetched.op = "HWLOOP_INIT"
  /\ LET h == SteppedLoop IN
     Proceed(SequentialNpc,
       CASE h.active               -> h
         [] Fetched.reg = "LOOPS" -> [h EXCEPT !.start = Fetched.target]
         [] Fetched.reg = "LOOPE" -> [h EXCEPT !.end = Fetched.target]
         [] OTHER                  -> [h EXCEPT !.counter = bound])

\* the loop registers change whether or not the instruction is predicated off
HwloopInit(bound) ==
  /\ Fetching /\ Fetched.op = "HWLOOP_INIT"
  /\ \/ /\ Fetched.reg = "LOOPS"
        /\ Proceed(SequentialNpc, [SteppedLoop EXCEPT !.start = Fetched.target])
     \/ /\ Fetched.reg = "LOOPE"
        /\ Proceed(SequentialNpc, [SteppedLoop EXCEPT !.end = Fetched.target])
     \/ /\ Fetched.reg = "LOOPB"
        /\ Proceed(SequentialNpc, [SteppedLoop EXCEPT !.counter = bound])

HwloopStart ==
  /\ Fetching /\ Fetched.op = "HWLOOP_START"
  /\ Proceed(SequentialNpc, [SteppedLoop EXCEPT !.active = TRUE])

\* simerror ends the process
Fail ==
  /\ Fetching
  /\ status' = "failed"
  /\ UNCHANGED <<program, pc, npc, hwloop>>

\* instructions[sparc_pc] past the array, or an access outside data_memory
Undefined ==
  /\ status = "running"
  /\ status' = "undefined"
  /\ UNCHANGED <<program, pc, npc, hwloop>>

NextControl ==
  \/ Sequential
  \/ Call
  \/ \E taken \in BOOLEAN : Branch(taken)
  \/ \E address \in Word, executed \in BOOLEAN : Jumpl(address, executed)
  \/ \E bound \in Word : HwloopInit(bound)
  \/ HwloopStart
  \/ Fail
  \/ Undefined

SpecControl == ResetControl /\ [][NextControl]_controlVars
=============================================================================
