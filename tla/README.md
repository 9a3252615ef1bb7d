# A verification of the SPARC V8 IS-extension simulator

The repository holds an assembler and a simulator for SPARC V8 with three
instruction-set extensions: hardware loops, predicated blocks (on condition
codes or on predicate registers) and conditional moves or selects. Four targets
combine them: `v8`, `v8-blockicc-movcc`, `v8-blockicc-selcc`,
`v8-blockpreg-selcc`. The files here are TLA+ modules translated from that C code, TLC
configurations that check them on small instances, and TLAPS proofs of what
holds for every instance.

Line numbers of the C code are given in `PROJECT.json` (`map`), definition by
definition.

## 1. Inventory

| Component | Source | State | Operations | Interacts with |
|---|---|---|---|---|
| Simulator core | `src/src/gen_sim.c` `simulateStep` | all below, cycle counters | one step per call: fetch, opcode switch, result, predication, commit | called by `main` in a loop until it returns 0 |
| Arithmetic and condition codes | `gen_sim.c` 345-433, 900-1137 | `sparc_y`, icc bits of `sparc_psr` | 40 opcodes, `evaluateICC` | registers, branches, moves, predicates |
| Register windows | `gen_sim.c` 218-322, 652-679 | `sparc_glob_regs`, `sparc_local_regs`, `sparc_inout_regs`, cwp in `sparc_psr`, 32 pointers `sparc_window_registers` | `resetSimulator`, `changeCWP`, SAVE, RESTORE, register writes | every instruction reads through the pointers |
| Control flow, hardware loop | `gen_sim.c` 445-569, 799-832, 1281-1317 | `sparc_pc`, `sparc_npc`, `sparc_hwloop_state` | sequential step, CALL, branch, JUMPL, hwloop init/start, end of program | condition codes, registers, predication |
| Predication | `gen_sim.c` 324-336, 833-894, 1139-1154 | `sparc_pred_state`, `sparc_preg` | predicated block begin/end, predset, predclear | suppresses commits of the core |
| Data memory | `gen_sim.c` 570-638, 1156-1275 | `data_memory` | loads, stores | core |
| Loader and life cycle | `gen_sim.c` 95-282, `src/src/sim_main.c` | `instructions`, `data_memory`, sizes, library handle | `readFileHeader`, `readMemory`, `readInstructions`, `resetSimulator`, `cleanUp` | file produced by the assembler |
| Decoders | `src/shared/libsim_*.c` | instruction array being built | `getOpcode`, `saveInstruction` per target | encoders (file format) |
| Encoders | `src/shared/libasm_*.c` | none | `init_bin_instruction`, `printInstructions` per target | assembler lists |
| Assembler lists | `src/src/gen_asm.c` | three linked lists, label list | `saveInstruction`, `saveData`, `saveLabel`, `checkLabels`, `printData` | grammar actions |
| Grammar and lexer | `src/yy/` | current section, address and instruction counters | parser actions | assembler lists |
| Examples | `src/examples/cfiles/` | their arrays | ten functions with their `main` | sources for assembler and simulator |
| Driver, printing | `src/src/asm_main.c`, `print*` in `gen_sim.c` | - | option parsing, output | - |

Nothing runs concurrently and nothing is persisted between runs. What is hard
is elsewhere:

* **Sequences.** A register window is shared with a caller several thousand
  instructions away; a return address crosses CALL, SAVE, JUMPL and RESTORE; a
  carry, the y register, a predicate and a loop counter are left by one
  instruction for another.
* **Order inside a step.** Several cases of the switch act before `executed` is
  computed; the hardware loop is tested against the npc two instructions ahead;
  the delay slot executes before a branch takes effect.
* **Redundant state.** The 32 pointers repeat what the cwp says; `instr_no` of
  `npc` and the loop registers are word addresses while JUMPL counts bytes.
* **Numeric edges.** Flags come from three sign bits; `(cwp - 1)%NWINDOWS` wraps
  in unsigned arithmetic; SMUL does not extend its first factor; loop counters
  of zero wrap.
* **Undefined behaviour.** No bound of `instructions` or `data_memory` is ever
  checked by `simulateStep`.

What makes each component correct: the flags are the comparisons they are named
after and word chains are exact (arithmetic); the windows are a stack of frames
(windows); a counted loop runs its body as often as its bound says and programs
return (control); the four instruction sets compute the same conditional, and
instructions predicated off change no data (predication); the composed core is
one of the components in each of its aspects (core); what is decoded is what was
encoded (encoders, decoders); every reference becomes the address of its label and the
data image has every datum at its address (assembler lists); only a complete file
of the right target is run, and it is the program that was written (loader, drivers).

## 2. Modules

```
SparcWords ── SparcAlu ── ArithmeticUnit ── MCArithmeticUnit
     │            └── SparcAlu_proofs ── ArithmeticUnit_proofs
     ├── RegisterWindows ── RegisterWindows_proofs
     │         └───── NestedWindows ──implements── WindowStack
     │                     └── NestedWindows_proofs
     ├── ControlFlow ── ControlFlow_proofs
     │         └───── CountedLoop ── CountedLoop_proofs
     ├── DataMemory
     └── SimulateStep (SparcAlu + RegisterWindows + ControlFlow + DataMemory)
               └── SparcPrograms ─┬─ IfConversion ─────────────────┐
                                  ├─ Procedures ───────────────────┤
                                  ├─ MixedSteps ─┬ MCMixedSteps    ├─ MCPrograms
                                  │              └ SimulateStep_proofs
                                  └─ LoadedPrograms ─┬─ MemoryAccesses ─┤
                                                     └─ ExampleResults ─┘
                                     (ExampleResults also extends ExamplePrograms)

InstructionFormats ─┬─ TargetV8 ── TargetExtensions ─┬─ InstructionCodec ── MCInstructionCodec
InstructionWords ───┘                                ├─ Loader
                                                     └─ SourceStatements ─┬─ Assembler
                                                                          └─ SourceMeaning
Assembler, Loader, SourceMeaning ── Toolchain ──implements── Translation
                                        ├─ MCToolchain
                                        └─ Toolchain_proofs (also extends InstructionCodec)
InstructionFormats ── AssemblySources ─┬─ MCToolchain
                                       └─ ExamplePrograms
```

Each `_proofs` module extends the module it is about and, where a component is composed of
others, the proofs about those: NestedWindows_proofs those of RegisterWindows,
CountedLoop_proofs those of ControlFlow, SimulateStep_proofs those of all three components.

LoadedPrograms also extends SourceMeaning. The upper tree is the machine that executes instructions, the lower one the path of
a program from its source to that machine. They meet in **LoadedPrograms**, which
turns the operand arrays of the lower tree into the records a step of the
upper one reads from them.

**SparcWords** has 32-bit words as naturals below `2 * HalfRange` (`HalfRange`
is 2^31 in the code), their addition and subtraction, the icc bits as the code
derives them from the three sign bits, and `evaluateICC`.

**SparcAlu** has one operator for each arithmetic case of the switch. An opcode's
outcome is a *set* of records `[value, y, icc]`: more than one where the C code is
undefined (a shift count of a word's width or more).

**ArithmeticUnit** is sequences of arithmetic instructions on arbitrary operands,
with the state they hand on: y and icc.

**RegisterWindows** is the register file. A cell is named as in the code: an array
(`glob`, `local`, `inout`), a window, an offset. `windowRegisters` is the array
of pointers, a function from register names to cells, so that a turn of the
window that forgets a pointer is expressible. `UIntRange` is the range of the
type in which `cwp - 1` is computed, a constant of its own because the result
depends on whether `NWindows` divides it.

**NestedWindows** restricts the register file to programs that close every frame
they open, at most `NWindows - 2` at a time: there is no window overflow trap
(`sparc_wim` is a constant nobody reads). **WindowStack** is what such programs
rely on: a stack of frames, with no arrays and no pointers. The refinement
mapping reads the visible registers through the pointers and each suspended
frame in the arrays.

**ControlFlow** is pc, npc, the hardware loop and how a simulation ends. A
program is a function from addresses to instruction records. Which way a branch
goes, and the address of a jump, is left open: a component's promise must hold
for any data. `status` is `halted` when `simulateStep` returns 0, `failed` after
`simerror`, `undefined` after a fetch outside `instructions` or an access
outside `data_memory`.

**CountedLoop** puts programs with one hardware loop on it. One instruction of the
body may be a branch to any instruction of the body or to its end, or a call. Behind
the loop a branch leads back, either to the initialisation or to "hwloop start"
only, so that the loop is entered again with a new or with the old counter, idle or
still active. `visits`, `taken`, `round`, `count` and `stale` are history
variables: they record what the properties compare.

**DataMemory** has loads and stores of words, halfwords and bytes, big-endian,
and their alignment.

**SimulateStep** is the core: one action for each case of the switch, each with
everything that step does. `CallLabel`, `BranchOnICC`, `JumpAndLink`,
`InitLoopRegister`, `StartLoop`; `ClearCycles`, `OnlyTakeTime` (NOP and the
opcodes that are decoded but not implemented); `SetHigh`, `Arithmetic`,
`ReadYRegister`, `WriteYRegister`, `ConditionalMove`, `TurnWindow`; `Load`,
`Store`; `BeginPredicatedBlock`, `EndPredicatedBlock`, `SetPredicate`;
`StopWithError` and `BehaveUndefined`. Two facts about order are visible in the
guards: a load reads memory before it is known to be executed, so
`BehaveUndefined` does not ask `Executed` of a load as it does of a store; and a
division by zero is an error even in a block that is predicated off.

**SparcPrograms** builds the instruction records; **IfConversion**,
**Procedures** and **MixedSteps** are sets of programs with the properties they
must have on the core.

**LoadedPrograms** runs the core on what assembler and loader make of a source:
`LoadedProgram` encodes each instruction the source means, decodes the word again
and takes its operands as `simulateStep` does (`CoreInstruction`); `LoadedMemory` is the
data image with whatever `malloc` returned behind it. The variable `image` keeps
the memory the simulation started with. That the assembler does produce these words and
this image is what the `toolchain` run shows. **MemoryAccesses** is a store of any
width followed by a load of any width. **ExamplePrograms** has ten of the C functions
of `examples/cfiles` as sources for the four targets, written with branches, hardware loops,
moves, selects or predicated blocks; **ExampleResults** has what their
`main` checks: each must return what the C function computes, for all contents of
its array. It also has what the extensions are for: `main` surrounds each call by "sim-clearcycles" and
"sim-printcycles", as in C, calls the function twice with different data, and the
single-path forms must print the same time twice (`printed` records what "sim-printcycles" prints).

**InstructionFormats** has what assembler and simulator agree on: the
operand arrays that the save functions of `gen_asm.c` build, the ranges of immediates
they check (`InRange`, with the macros `IS_SIMM13` and so on as `SignedField` and `UnsignedField`), the extensions the grammar asks the target for, and what
`checkLabels` replaces a label operand by.

**InstructionWords** has instruction words as functions from bit positions to bits, and
each field macro of the target headers as the assignments it makes, side effects
on bit 13 included. **TargetV8** and **TargetExtensions** have `init_bin_instruction`
and `printInstructions` (as field assignments) and `getOpcode` and
`saveInstruction` (as decoders) of the four targets. The targets repeat each
other in C; here the common cases fall through to `TargetV8`. `IsInstruction` is what can stand in
a source and `IsResolved` what can be encoded; `Reaches` says that the displacements of an
instruction fit into their fields, which no code checks.

**InstructionCodec** sends one instruction through encoder, file and decoder: any of
`Instructions(n)` at any position `n` of `Numbers`.

**SourceStatements** has the statements the grammar reads (`IsStatement`), for assembler and meaning alike.

**Assembler** has one action for each statement the grammar reduces
(`SectionInfo`, `AlignInfo`, `BranchTargetDefinition`, `SaveData`, `Skip`,
`SaveInstruction`) and one for each call of `main` after the parser
(`CheckLabels`, `PrintData`, `PrintInstructions`, `ExitAssembler`). A write may fail at any
byte of the data or of the instructions and before each header field; the functions
report it and return, and `main` goes on. `YYError` and a failing `CheckLabels` free the lists and
exit. New nodes' `next` pointers are not initialised: `WalkedOff` adds the
outcome `undefined` wherever a list that is not empty is walked. For moves, selects, hardware loops and
the setting of predicates the grammar asks whether the target has them only after it has saved them
(`TestedWhenSaved`), so that even the first instruction of a source may lead there. `PrintNullOperands` is the crash of
the v8 assembler on "predend".

**Loader** has the calls of `sim_main.c` before the simulation:
`ReadFileHeader`, `CheckTargetID`, `ReadMemory`, `AllocateInstructions`, `ReadInstruction`
once per instruction, `StartSimulation`; and `FinishSimulation` with `cleanUp`, which
may free operand pointers never written (`FreesGarbage`). The 32-bit sum in `readMemory`, of the image's
size and the default size, is not wrapped: that takes an image of nearly 4 GB.

**Toolchain** composes both with the file between them; `HandOver` may lose the
end of the file, which is also what a failing `fclose` does. **SourceMeaning** says what
a source means without lists or passes: it counts every address from the beginning of the
source and has the instructions and the data bytes that follow from it. **Translation** is what
an assembler promises, in one step, for any notion of a correct source and of its binary; `Toolchain`
instantiates it with those of **SourceMeaning**: the file of that meaning, or an error. `Toolchain` shows that the lists, the two passes and the header fields filled in
afterwards implement it.

Definitions whose name begins with `Faulty` are deliberate variants of the
definition that follows them, each with one plausible programming error; nothing
else refers to them. Put in place of the original, each makes a property fail (the
pairs are listed under `mutants` in `PROJECT.json`), which shows that the property
depends on that piece of the code.

### Abstractions

* A word has `WordBits` bits and not 32; everything that depends on the width
  (sign bit, wrap-around, byte order, carry) is written in terms of it. A byte
  is a quarter of a word.
* A bank of the register file has `BankSize` registers and not 8. `SPOffset` and
  `CallOffset` are the offsets of `%sp` (6) and `%o7` (7) in it.
* Instruction addresses are word addresses as in the code; the byte addresses
  that CALL saves and JUMPL takes are multiplied and divided by 4 as there. The
  return address main starts with is `END_OF_INS_MEM` minus 8, here
  `ReturnFromMain`.
* Of the psr only the icc field and the cwp are kept: no instruction reads or
  writes the others.
* Output for the user is left out.
* A source is a sequence of statements: names, numbers and registers are values
  already, labels are model values. A header field is written whole or not at all
  (its bytes share the stream's buffer). `malloc` succeeds.
* `%lo` takes an address modulo `LowRange` (2^10); the toolchain run sets it to 4 so
  that small addresses have an upper part.
* An uninitialised or out-of-range access ends the behaviour as `undefined`:
  what a build does afterwards is not modelled.

## 3. Runs

Deadlock checking is off in every run: a simulation that has halted or failed has
no further step, and that is what the status says.

| Run | Question | Instance | Result |
|---|---|---|---|
| `alu_carry` | Are the condition codes the comparisons, overflows and carries they are named after? Are two-word additions and subtractions exact? Do shifts scale? | all operands of 3-bit words, all additive opcodes and shifts, in any order | holds |
| `alu_muldiv` | Are products and quotients exact, through y, in any order of multiplications, divisions and moves to y? | all operands of 3-bit words | holds |
| `windows_ring` | Do pointers follow the cwp, does RESTORE undo SAVE, does `%g0` stay zero, for any order of writes, SAVEs and RESTOREs, in both directions round the ring? | 4 windows, banks of 1, 1-bit words | holds |
| `windows_three` | The same for a number of windows that does not divide 2^32 | 3 windows | violated: finding 1 |
| `windows_nested` | Do the windows implement a stack of frames? | 4 windows: two nested frames below main's | holds |
| `counted_loop` | Does the hardware loop run its body as often as its counter says, end with it, and does the program return, also when the body branches or calls and when the loop is left and entered again? | 7-bit words; 0 or 1 instructions before the body, bodies of 1-4, bounds 0, 1, 2, 3, 5; bodies with a branch or a call bounds 1, 2, 3, taken at most twice per round; two rounds | holds, with the exceptions stated in the properties |
| `programs` | Do branch, move, select and both predicated blocks compute the same conditional? Does a recursive procedure with stack slots, delay slots and window turns return the right value? Does a load see what a store of another width left? Do the example functions, from their sources, return what the C functions compute on every target, the single-path ones in the same time for all data? Do all of them end? | 8-bit words, 8 windows, 44 bytes of memory; all ten comparison conditions of 0, 127, 128, 255; arguments 0-4: six frames, all there are; six stores and seven loads at every aligned pair of addresses in 8 bytes; every array of 3 (find-first, two arrays each; bubble sort, with a second array in descending order; counter, called twice) or 4 elements (binary search, sorted), the free memory all 0 or all 3 | holds |
| `mixed` | What may a predicated-off instruction still do? Does a block that is off stay off? Does the core implement ControlFlow and RegisterWindows? | every two of 44 instructions, predicated by nothing, a condition, a predicate register | holds |
| `instruction_codec` | Does every instruction survive encoding and decoding? | all four targets, every opcode, registers and immediates at the ends of their fields, positions 0 and 2^22 | holds |
| `toolchain` | Does the assembler implement its translation? Does the simulator start exactly the complete files of its own target, and is what it starts what the source means? | sources of a data part and a text part in both orders, up to two of 5 and two of 10 statements after each section directive; 4 x 4 targets; every failing write, every lost end | holds |
| `trailing_skip` | Is reserved space in the image, as a comment says? | the same sources | violated: finding 3 |
| `lda_load` | Does LDA load, as a comment says? | LDA and NOP | violated: finding 2 |

Why the bounds are enough:

* *3-bit words.* The flags depend on the three sign bits and on the value being
  zero. Three bits have all eight sign combinations, both signs of overflow, a
  zero and non-zero value of each, and double words of six bits. What the two runs
  show is also proved for every width.
* *4 windows, 1-bit words, one register per bank.* Four is the smallest number of
  windows that divides the range and has a window that is neither the current one
  nor its neighbours; one register per bank distinguishes every array and every
  window; one bit distinguishes an overwritten from a kept register. What the ring
  run and the nested run show is proved for every size.
* *Loops.* The body's end relative to "hwloop start" decides between the seen and
  the unseen end; both sides of that boundary, and bounds that wrap (0), do not
  repeat (1) and repeat, are in the sets. The transfer stands at every place of the
  body relative to the two slots in which it meets the repetition, and a branch
  that may be taken `MaxTaken` times per round can leave each iteration and begin each again.
  Two rounds are one entry from the reset state and one from whatever the first left. But for
  termination, what the run shows is also proved for every width, bound, gap, length and transfer.
* *8-bit words in four 2-bit bytes* on the core: the smallest in which an
  instruction address times 4, a signed immediate and four bytes fit. 127 and 128 are
  the sign change, 0 and 255 the unsigned one.
* *Stores and loads.* In 8 bytes a load overlaps a store at either end, lies inside or
  around it or beside it. The stored words are 0 1 2 3 and 3 2 1 0 by
  bytes, so that no two bytes of a word are equal and both signs occur.
* *Examples.* `FindSize`, `SortSize`, `CounterSize` and `SearchSize` replace the 10, 100, 10
  and 16 of the C files; elements come from `FindNumbers`, `SortNumbers`, `CounterBytes` and
  `SearchNumbers`. Three elements have a first, an inner and a last
  iteration; three numbers with a negative one have every order and every
  equality; three bytes of 0, 2 and 3 a carry that stops at each of them or overflows, in the first or the second call; four sorted
  values are halved twice.
* *Two instructions after a prelude* (`mixed`): each case of the switch touches at
  most the state one predecessor leaves (predicate, loop, npc, window), so
  pairs have every interaction of two cases; the prelude gives the predicated
  state to both.
* *Codec.* Fields overlap, lose a sign or shadow an opcode for extreme values if for
  any; every opcode of every target is there with all of its operand forms. For every
  register, immediate and displacement it is also proved.
* *Sources.* Two statements after each section directive have a label before and
  after the datum or instruction it names, a datum after a gap, a label that is
  used in the other section, defined twice, undefined or misplaced, and an
  instruction after one that fails. A file is cut only when all writes succeeded
  (one failure per behaviour); two failing writes do occur together. What the run shows is
  also proved for sources of any length, with the files that are too large stated as such.

### Fairness

`main` calls `simulateStep` in `while (simulator->simulateStep(outstream));`,
with nothing in between: as long as a step is possible the next one is taken.
Hence `WF_vars(Next)` for the core (`FairSpec`) and `WF_loopVars(Step)` for
`CountedLoop`, and `WF_loadedVars(LoadedStep)` for loaded programs; no other fairness is assumed, and none of the data choices is
assumed to be fair. The safety runs use specifications without fairness.

### Findings

1. `windows_three`: `sparc_target.h` accepts every number of windows from 2
   to 32, but `(cwp - 1)%NWINDOWS` is an unsigned computation and is the window
   below only if NWINDOWS divides 2^32. With three windows a SAVE in window 0
   does not turn at all. The 16 windows that ship are fine; `SaveThenRestore`
   proves that the divisibility is all that is needed.
2. `lda_load`: "lda not implemented => same as normal ld" (`gen_sim.c:1228`), but the
   case LDA only counts cycles.
3. `trailing_skip`: "handle skip instructions: fill memory with zeros"
   (`gen_asm.c:1092`), but `printData` fills the gap in front of each datum only. Space
   after the last one, the usual shape of `.bss`, is neither in the image nor
   in its size, and the simulator lets its stack grow into it.

`PredicatedOffKeepsData` states what a predicated-off instruction leaves alone: memory, y, the
condition codes, the predicate registers, and every register unless it is a CALL. It does not say that such
an instruction has no effect: SAVE and RESTORE turn the window, CALL writes `%o7`, and branches and
loop initialisations act, because their cases come before `executed` is computed. `BlockStaysOff` follows
the block: its condition is evaluated again at every instruction, so a compare inside may switch the
rest off, but one that is skipped never switches it on again.

Where no document says what is right, a hazard has a model and no property: V after UDIVCC, whose case
falls through into that of SDIVCC; the carry after ADDXCC and SUBXCC, which set none; an `.align`
that is checked and ignored; and a negative loop bound. `DecodesAsWritten` fixes what arrives for such a bound, not that it is meant.

Exceptions appear in properties that hold. A loop body of one instruction
right after "hwloop start" runs once whatever the bound (`EndIsSeen`), unless the loop was still
active; then "hwloop start" may end the loop and make it active again in one
step (`RevivedByStart`). A counter of zero, as it is left by a loop that has ended, runs the body 2^32
times (`LoopRunsBoundTimes`). A branch or call in one of the last two slots of a body takes the place of
the repetition although the counter has been decremented for it
(`RoomForTransfer`; `IterationsAddUp` says by how much). A loop left by a branch to its end stays
active (`Broken`). `SearchKeys` leaves out keys that lie between the values: `bs_v10` returns a
position for them, as its test in C, which does not pass such keys, allows. The upper word of a signed
product is right only for a non-negative first factor (`SignedProduct`). `Meant` names the
three instructions that are read back in another form: "sethi 0, %g0" as "nop",
predset on "always" and on "never" as predset and predclear, and a loop bound
as a number without sign, although the assembler accepts -2^21 to 2^21 - 1.

## 4. Proofs

All proofs are checked by tlapm with Z3, Zenon and LS4. What TLC shows on the instances of
section 3, the theorems show for every value of the constants: every word width, number of
windows, bank size, memory, set of programs, and every source of any length.

**RegisterWindows_proofs**, for every number of windows from 2 on, every bank size and
every word width. The inductive
invariant `WindowInvariant` conjoins the type invariant, `PointersFollowCWP` and
`ZeroRegister`. None of the last two is inductive without the other and the type:
that a write cannot reach `sparc_glob_regs[0]` rests on the pointers (no
register but `%g0` points there, lemma `OnlyG0PointsAtZero`), and the pointers after a
turn rest on the cwp being a window (`TurnType`, `TurnPointers`).
From it: `WindowsTypeCorrect`, `PointersAlwaysFollowCWP`, `G0AlwaysZero`. The
theorem `SaveThenRestore` adds the assumption `UIntRange % NWindows = 0`, which the code needs
and does not state.

**NestedWindows_proofs**. `WindowAlwaysFollowsDepth`: the window is main's turned once per
open frame. `WindowsImplementStack` is the refinement: every behaviour of the register file
under programs that nest at most `MaxDepth` frames is, through the mapping, a behaviour of
**WindowStack**. The invariant adds `WindowFollowsDepth` to `WindowInvariant`; it gives each
frame a window of its own (`FramesApart`), so that a write through the pointers changes the current
frame and no suspended one (`WriteIsWrite`). `SaveIsPush` and `RestoreIsPop` are the turns: the
caller's outs become the callee's ins, and its ins the caller's outs again, because both name the
same cells of `sparc_inout_regs`, whatever the values are. Divisibility is not needed here: a program of bounded depth
never passes window 0, where finding 1 bites.

**SparcAlu_proofs** has lemmas only: every opcode returns words, words for y, and
icc bits (`AluOutcomesType`); and a word is the sum of its bits (`WordOfItsBits`), whose positions
move with a shift (`ShiftedLeft`, `ShiftedRight`).

**ArithmeticUnit_proofs**, for every word width.

* *Flags and carry.* The invariant is `IccInvariant`: after an additive instruction
  value and flags are those of the two operands. The lemmas `AddIccMeaning` and
  `SubIccMeaning` go from the three sign bits to the exact sum and difference, by cases on
  the signs. From them `CompareConditions`, `AddConditions`, and the action properties
  `WideAddition` and `WideSubtraction`; these need nonlinear facts about `hi * 2^w + lo`, isolated
  in `WideSum` and `WideDifference`.
* *Products and quotients.* `TypeCorrect` types the unit. `ProductInvariant` adds
  that after a multiplication destination and y are the two halves of the product;
  without it y has no history, and a division after it means nothing. From it
  `SignedProductExact`, `DivisionUndoes` (a division after a multiplication gives the first factor
  back) and `DivisionExact` (the truncated quotient whenever it fits).
  `QuotientAndRemainder`, `TruncatedUnique` and `SignedProductParts` carry the number theory
  that Z3 does not find by itself.
* *Shifts.* `ShiftsAlwaysScale` (`ShiftsScale`). The operators shift sets of bit positions, the
  property multiplies and divides. Between them is the sum of the bits, for which `BitsOfLow` and
  `EvenRest` do an induction over the positions. A negative word shifted by SRA is the complement
  (`Complement`) of its shifted complement, which is where the fill with sign bits comes from;
  a count of the width or more leaves 0 or -1.

**ControlFlow_proofs**. `ControlTypeCorrect`: pc, npc and the loop registers stay words for every
set of programs. `ControlInvariant` adds that the program is one of the set, whose branch targets are
words.

**CountedLoop_proofs**, for every word width, gap, body length, bound, branch or call, and
any number of branches taken: `LoopTypeCorrect`, `BodyRunsBoundTimes` (`LoopRunsBoundTimes`) and
`LoopOverAfterBody` (`LoopEndsWithBody`). Neither property says anything before pc is at the
end of the loop, so the invariant has to say how it gets there. `LoopInvariant` consists of

* `LoopShape`: what all programs of `LoopPrograms` have in common, shown once from the definition
  (`InstructionTable`, `EveryProgramShaped`); every later step reasons about it instead of
  about a table of instructions;
* `Position`: which pairs of pc and npc there are, inside and outside the body, in a delay slot, in
  the callee;
* `LoopRegisters`: that start and end are those of the program once they have been set;
* `CounterRight`: inside the body the counter is what `count` leaves after the iterations
  ended so far; one instruction before the end it is already one less and npc is decided. This offset
  between pc and the point where the loop is tested is what makes the property hard;
* `IterationsRight`: instructions before pc have run once more than those behind it, from which
  the visits at the end follow for every instruction and not for the last one only;
* `LeavesAtOnce` and `Unseen`: the two ways of being inside the body without repeating it.

`CountDown` and `NextTimes` treat a counter of zero as 2^w, which is what makes the wrap-around an
ordinary case. The invariant says nothing of programs without room for their transfer
(`RoomForTransfer`), of which the two properties say nothing either.

`NoIterationLost` (`IterationsAddUp`) is about all programs, also those whose transfer stands in the last
two slots of the body and overrides the way back. There the visits of an instruction say
little, and a transfer in a delay slot can put pc and npc into pairs that `Position` does not have.
`AddUpInvariant` adds to the types and registers of `LoopInvariant`

* `Place`: all pairs of pc and npc there are, whatever the program;
* `InSequence`: in a loop that is active and looks for its end, a transfer is reached in
  sequence, or as the last instruction on the way back to the start, and the
  loop is not left by way of the procedure. This is what ties the place of the transfer to
  the step in which the end is found;
* `AddingUp`: the difference of the two sides of the property (`Excess`) is a multiple of 2^w.
  A step changes it by nothing, because an iteration more is one of the counter less
  (`Balance`), or by 2^w where a counter of zero wraps.

**SimulateStep_proofs**, for every set of well-formed programs, every memory and every word
width. `CoreInvariant` conjoins the invariants of control and windows and the types of
the rest. The parts need each other: a write is a register write because the operands are what the
decoders build, and a jump goes to a word because registers hold words. From it:
`TypeCorrect`; `RegisterFileAlwaysSound` (`%g0` and the pointers, which no run checks
in the core: `mixed` checks `ImplementsWindows`, and `windows_ring` the two in the component); the refinements `ControlRefined` and `WindowsRefined`,
by which each step of the core is a step of the component or leaves it alone;
and the action properties `PredicatedOffKeeps` and, resting on the same lemma
(`PredicatedOffStep`), `BlockAlwaysStaysOff`. What the components promise as
safety properties of `SpecControl` and of the register file thus holds in the core.

**Toolchain_proofs**, for every source of any length, all pairs of targets, every failing write and
every lost end of a file.

* *The assembler implements its translation* (`TranslationImplemented`). What a source means is
  given by functions recursive in the statements before (`AddressAt`, `LabelAt` and the like), what
  the assembler has by lists and two counters. The invariant `Assembling` has one part for each of its phases:
  `Reading` says that counters and lists are those of the statements read so far, `Translating`
  that the lists are those of the whole source and every label is known, `DataWritten` and
  `FileWritten` that the file is a prefix of the binary with blanks in the header fields not yet filled in.
  The invariant is about sources of statements (`IsStatement`), which `AssemblerAssumption` says all are;
  a `.skip` that goes back is not one of them, as **SourceStatements** says.
* *Counters and lists agree* (`ToolchainTyped`). `ToolchainOK` adds to `Assembling` the
  counters in each phase and the loader: `HandedOver` (the simulator's file is a prefix of the assembler's),
  `Loading` (the loader stands where the header says) and the types of what it has read.
* *Only whole files run* (`OnlyWholeFilesRun`). A header field that was never written holds blanks, which
  read as 538976288. `FilesFit` is the hypothesis that no part of the file is that long:
  without it a file of half a gigabyte whose header could not be written is accepted, so the property
  is false of the code in that case and the hypothesis cannot be dropped.
* *What is decoded is what was encoded* (`DecodesAlways`), for all four targets, all opcodes, all
  registers and every immediate the assembler accepts and displacement that fits. A word
  is a function from bit positions to bits; the lemmas first say what each field macro
  leaves and what each field reads back (`AllReadBack` and its parts), then that the decoder's order of tests finds the
  opcode the encoder set, then the operands, with the side effects on bit 13.
* *What is loaded is what was meant* (`LoadsAsMeant`) joins the two: the bytes of each word are in the file
  (`BinaryFilled`, by which the memory and the array are filled from the file byte by byte), and each word
  decodes to the instruction it was encoded from at the position it is loaded to. The
  hypothesis `DisplacementsFit` is the check that the assembler does not make: a branch over
  2^21 instructions is encoded without its upper bits. `0 .. LowRange - 1 \subseteq SignedField(13)` says that a
  `%lo` fits into the immediate it is put into; it is 2^10 in the code.

Induction over the statements of a source, the elements of a list or the bits of a word
is needed throughout. The induction theorems of the library take a predicate as a parameter, which no prover
here can instantiate, but a set can stand for the predicate: `Induction` (`NaturalInduction` in SparcAlu_proofs)
is stated for subsets of Nat and follows from the well-foundedness of Nat, and
`RecursionExists` (`RecursionOnNat`) gives recursive functions their defining equation. The provers evaluate `2 ^ 5` but know
nothing about `2 ^ n`: **SparcAlu** takes its powers from a recursive function, `PowerOfTwo`, and
here `TwoTo` and `Rest` hide the powers of the fields behind what `PowersType` and its like say of them.

### Assumptions

The theorems rest on the named assumptions of the modules, which TLC evaluates in every run whose module has them:

* `HalfRangeAssumption`, `WordBitsAssumption`, `WindowsAssumption`, `MemoryAssumption`,
  `SimulateAssumption`, `LoopAssumption`, `LowRangeAssumption`, `LoaderAssumption`:
  the ranges of the sizes, that a word has `2 ^ WordBits` values, and that a loop program ends
  below `END_OF_INS_MEM`.
* `AssemblerAssumption`: sources consist of the statements the grammar reads. `CodecAssumption`: what goes
  through the codec can be encoded and its displacements fit, as `DecodesAlways` says. `OpsAssumption`: the
  arithmetic unit is given its own opcodes.
* `TargetsAssumption` and `OperandsAssumption`: what the decoders make of an instruction word.
  `saveInstruction` computes targets with `uint32_t` arithmetic and stores pointers to registers
  and sign-extended immediates. That the decoders do so is what `DecodesAlways` proves and the `instruction_codec`
  and `programs` runs show, in the second of which these assumptions are evaluated on the examples
  and memory accesses as they come out of encoder and decoder.
* `LoopProgramsAssumption`: `CountedLoop` is about its own programs.

### Only model-checked

* Liveness: `LoopTerminates`, `ProgramsReturn`. The prover does not cover fairness.
* `LoadsSeeStores`: executions of three instructions and a return, compared with one number made of all
  bytes of the memory.
* The properties of particular programs (`ConversionsAgree`, `SumReturned`, `ReturnAddressesKept`, the
  examples): they are executions of fixed programs on small data, not claims about all.

## 5. Plan

The order is by importance for the simulator's users: the core first, then the
path by which a program reaches it.

1. *Done*: arithmetic, windows, control flow, core and programs on it; encoders,
   decoders, assembler, loader and their composition; loops left and entered again; loads and stores of
   all widths; from source to result.
2. *Done*: proofs of windows, flags, carries, products and quotients; the stack of frames; that the core
   implements its components; type correctness of the core; shifts; the counting invariants of the hardware
   loop, also for bodies whose transfer meets the repetition; that decoders undo encoders, that the assembler
   implements its translation and the loader runs only whole files, so that what runs is what the source means.
3. *To come*: loads and stores for every memory and every word width; that a step of the core on
   decoded instructions needs no assumption about operands, by joining `DecodesAlways` to `OperandsAssumption`.

### Not modelled

* The printing functions (`printInstructions`, `printRegisters`, `printMemory`, `printResults` of
  `gen_sim.c`) format text and change no state; what they print has no reader in
  the repository.
* The lexer's tokens and the shape of statements: generated code turns text into the
  statements that **AssemblySources** starts from.
* Option parsing and library loading of both drivers: calls of `getopt` and
  `dlopen` before any state exists.
* The other ten example versions and the benchmarks: they repeat the control flow of
  the ten modelled on longer data. The text the external compiler makes of them is not part of
  the repository, so **ExamplePrograms** writes the functions by hand, and
  what the run shows holds for these sources.

`PROJECT.json` gives the status of each component, and lists under
`hazards` what in this code is hard to test, with the properties that cover it.
