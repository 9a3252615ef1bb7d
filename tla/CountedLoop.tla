----------------------------- MODULE CountedLoop -----------------------------
(***************************************************************************)
(* The hardware loop under programs of the form the assembler accepts:     *)
(* three "hwloop init", a "hwloop start", a body and the return from main. *)
(* One instruction of the body may be a branch, to any instruction of the  *)
(* body or to its end, or a call.  Behind the loop a branch leads back to  *)
(* the beginning or to the "hwloop start" and so enters the loop again,    *)
(* whatever state it was left in.                                          *)
(***************************************************************************)
EXTENDS ControlFlow

CONSTANTS
  Gaps,                   \* instructions between "hwloop start" and the body
  BodyLengths, Bounds,    \* lengths of the body and loop bounds explored
  BranchBounds,           \* the bounds of bodies with a branch or a call
  MaxTaken                \* how often the branch of a body is taken in a round

ASSUME LoopAssumption ==
  /\ Gaps \subseteq Nat
  /\ BodyLengths \subseteq Nat \ {0}
  /\ Bounds \subseteq Word /\ BranchBounds \subseteq Word
  /\ MaxTaken \in Nat
  /\ \A g \in Gaps, l \in BodyLengths : 10 + g + l < EndOfProgram

VARIABLES
  visits,                 \* how often each address was executed in this round
  taken,                  \* taken branches, or calls, of the body in this round
  round,                  \* 1, then 2 after the branch behind the loop
  count, stale            \* loop counter and active state "hwloop start" found

loopVars == <<program, pc, npc, hwloop, status, visits, taken, round, count, stale>>

StartAddress == 3

\* no transfer, a branch from one address to another, or a call, in the body
Straight == [op |-> "NOP", at |-> 0]
BranchTo(a, t) == [op |-> "BRANCH", at |-> a, target |-> t]
CallAt(a) == [op |-> "CALL", at |-> a]

\* three "hwloop init", "hwloop start", body, branch back and return, then the callee
LoopInstruction(a, first, end, bound, transfer, again) ==
  CASE a = 0              -> [op |-> "HWLOOP_INIT", reg |-> "LOOPS", target |-> first]
    [] a = 1              -> [op |-> "HWLOOP_INIT", reg |-> "LOOPE", target |-> end]
    [] a = 2              -> [op |-> "HWLOOP_INIT", reg |-> "LOOPB", bound |-> bound]
    [] a = StartAddress   -> [op |-> "HWLOOP_START"]
    [] a = transfer.at /\ a > 0 /\ transfer.op = "BRANCH" ->
         [op |-> "BRANCH", target |-> transfer.target]
    [] a = transfer.at /\ a > 0 /\ transfer.op = "CALL" -> [op |-> "CALL", target |-> end + 5]
    [] a = end + 1        -> [op |-> "BRANCH", target |-> again]
    [] a \in {end + 3, end + 5} -> [op |-> "JUMPL"]
    [] OTHER              -> [op |-> "NOP"]

LoopProgram(gap, length, bound, transfer, again) ==
  LET first == StartAddress + 1 + gap
      end == first + length
  IN  [a \in 0 .. end + 6 |-> LoopInstruction(a, first, end, bound, transfer, again)]

Transfers(gap, length) ==
  LET first == StartAddress + 1 + gap
      body == first .. first + length - 1
  IN {BranchTo(a, t) : a \in body, t \in first .. first + length} \cup {CallAt(a) : a \in body}

LoopPrograms ==
  {LoopProgram(g, l, b, Straight, again) :
     g \in Gaps, l \in BodyLengths, b \in Bounds, again \in {0, StartAddress}}
  \cup UNION {{LoopProgram(g, l, b, t, again) :
                 b \in BranchBounds, t \in Transfers(g, l), again \in {0, StartAddress}} :
              g \in Gaps, l \in BodyLengths}

ASSUME LoopProgramsAssumption == Programs \subseteq LoopPrograms

First == program[0].target
End == program[1].target
Bound == program[2].bound
Body == First .. End - 1
Callee == End + 5
HasTransfer == \E a \in Body : program[a].op # "NOP"
TransferAt == CHOOSE a \in Body : program[a].op # "NOP"
BranchTarget == IF program[TransferAt].op = "BRANCH" THEN program[TransferAt].target ELSE Callee

\* type invariant: of ControlFlow, also when a loop counter of zero is decremented
LoopTypeOK ==
  /\ ControlTypeOK
  /\ visits \in [DOMAIN program -> Nat]
  /\ taken \in Nat /\ round \in {1, 2}
  /\ count \in Word /\ stale \in BOOLEAN

Init ==
  /\ ResetControl
  /\ visits = [a \in DOMAIN program |-> 0]
  /\ taken = 0 /\ round = 1
  /\ count = 0 /\ stale = FALSE
-----------------------------------------------------------------------------
\* a round begins with "hwloop start"
Count == visits' = IF pc = StartAddress THEN [a \in DOMAIN program |-> 0]
                   ELSE [visits EXCEPT ![pc] = @ + 1]

SequentialStep ==
  /\ Sequential
  /\ UNCHANGED <<taken, round, count, stale>>

InitStep ==
  /\ HwloopInit(IF pc = 2 THEN Bound ELSE 0)
  /\ UNCHANGED <<taken, round, count, stale>>

StartStep ==
  /\ HwloopStart
  /\ count' = hwloop.counter /\ stale' = hwloop.active
  /\ taken' = 0
  /\ UNCHANGED round

TransferStep ==
  /\ pc \in Body
  /\ \/ Call /\ taken' = taken + 1
     \/ Branch(FALSE) /\ UNCHANGED taken
     \/ taken < MaxTaken /\ Branch(TRUE) /\ taken' = taken + 1
  /\ UNCHANGED <<round, count, stale>>

AgainStep ==
  /\ pc = End + 1
  /\ \/ Branch(FALSE) /\ UNCHANGED round
     \/ round = 1 /\ Branch(TRUE) /\ round' = 2
  /\ UNCHANGED <<taken, count, stale>>

\* from main, or from the procedure the body calls to behind the delay slot
ReturnStep ==
  /\ Jumpl(IF pc = Callee THEN 4 * TransferAt + 8 ELSE Modulus - 1, TRUE)
  /\ UNCHANGED <<taken, round, count, stale>>

Step ==
  /\ SequentialStep \/ InitStep \/ StartStep \/ TransferStep \/ AgainStep \/ ReturnStep
  /\ Count

\* main calls simulateStep until it returns 0
Spec == Init /\ [][Step]_loopVars /\ WF_loopVars(Step)
-----------------------------------------------------------------------------
(***************************************************************************)
(* The end of the loop is looked for one step before its last instruction  *)
(* is fetched, and not yet by "hwloop start" itself, unless the loop was   *)
(* still active from before.  Then that step may also end the loop and     *)
(* yet leave it active.                                                    *)
(***************************************************************************)
EndIsSeen == End - 2 > StartAddress \/ stale
RevivedByStart == End - 2 = StartAddress /\ stale /\ count = 1

\* the transfers the loop has room for: not in the two last slots of the body
RoomForTransfer == HasTransfer => TransferAt < End - 2

\* the body was left or begun again by its branch
Broken == taken > 0 /\ BranchTarget \in {First, End}

(***************************************************************************)
(* A hardware loop executes its body exactly as often as the counter says  *)
(* that "hwloop start" finds, bound times after a "hwloop init", with      *)
(* calls and jumps inside the body, and also when it is entered again      *)
(* after it was left in the middle.  A counter of zero wraps: entering a   *)
(* loop that has ended without a new bound runs it once for every word.    *)
(* The exceptions: a body of one instruction right after "hwloop start"    *)
(* goes by unseen and runs once, and a transfer in one of the last two     *)
(* slots takes the place of the repetition.                                *)
(***************************************************************************)
LoopRunsBoundTimes ==
  pc = End /\ RoomForTransfer /\ ~Broken =>
    \A a \in IF HasTransfer THEN {First, End - 1} ELSE Body :
      visits[a] = IF ~EndIsSeen THEN 1
                  ELSE IF count = 0 THEN Modulus
                  ELSE count

(***************************************************************************)
(* The loop is over when its body has run for the last time, so that no    *)
(* later code at the same end address is repeated; it stays active if its  *)
(* end went by unseen, if its own start revived it or if its branch left   *)
(* it.                                                                     *)
(***************************************************************************)
LoopEndsWithBody ==
  pc = End /\ RoomForTransfer =>
    (hwloop.active <=> \/ ~EndIsSeen
                       \/ RevivedByStart
                       \/ Broken /\ BranchTarget = End)

(***************************************************************************)
(* No iteration is lost on the way, wherever the branch or call of the     *)
(* body stands: while the loop is active, the iterations begun and the     *)
(* counter add up to the count it started with, plus one for every time    *)
(* the branch began the body again and minus one for every time the        *)
(* transfer was executed where the end of the loop is found, and took the  *)
(* place of the repetition the counter has already paid for.               *)
(***************************************************************************)
IterationsAddUp ==
  hwloop.active /\ EndIsSeen /\ ~RevivedByStart /\ pc \in Body =>
    LET begun == visits[First] + (IF pc = First THEN 1 ELSE 0)
        repeats == IF npc = First THEN 1 ELSE 0
        foundAt == IF End - 2 \in Body THEN End - 2 ELSE End - 1
        overridden == IF HasTransfer /\ TransferAt = foundAt THEN taken ELSE 0
        back == IF HasTransfer /\ BranchTarget = First THEN taken ELSE 0
    IN  (begun + repeats + hwloop.counter + overridden) % Modulus
          = (count + 1 + back) % Modulus

(***************************************************************************)
(* Every such program returns from main, also when it enters a loop again  *)
(* that is active, or whose counter is zero, if its branches are taken     *)
(* only so often.                                                          *)
(***************************************************************************)
LoopTerminates == <>(status = "halted")
=============================================================================
