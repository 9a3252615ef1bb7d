----------------------------- MODULE MixedSteps -----------------------------
(***************************************************************************)
(* Short programs over the whole instruction set: a prelude that fills a   *)
(* register, sets the condition codes and may open a predicated block,     *)
(* then any two instructions, then the return from main.                   *)
(***************************************************************************)
EXTENDS SparcPrograms

CONSTANTS
  Palette,                \* the instructions combined
  Preludes                \* the sequences before them

MixedPrograms ==
  {Assembled(p \o <<a, b>> \o ReturnFromLeaf) : p \in Preludes, a \in Palette, b \in Palette}
-----------------------------------------------------------------------------
(***************************************************************************)
(* The simulator core implements its two components: its pc, npc and loop  *)
(* registers move as ControlFlow allows, whatever the data ...             *)
(***************************************************************************)
ImplementsControlFlow == SpecControl

(***************************************************************************)
(* ... and every change of the register file is a write through the        *)
(* current pointers, a SAVE or a RESTORE of RegisterWindows.               *)
(***************************************************************************)
ImplementsWindows == SpecWindows

(***************************************************************************)
(* An instruction of a predicated block whose condition does not hold      *)
(* leaves memory, y, the condition codes and the predicate registers       *)
(* alone, and, unless it is a call, every register of every window.        *)
(***************************************************************************)
PredicatedOffKeepsData ==
  [][Fetching /\ ~Executed =>
       /\ UNCHANGED <<memory, icc, y, preg>>
       /\ Fetched.op # "CALL" => UNCHANGED regs]_vars

(***************************************************************************)
(* simulateStep asks for the condition of a predicated block again at each *)
(* of its instructions.  An instruction of the block may so switch the     *)
(* rest of it off, but none switches it on again: whatever is skipped,     *)
(* compares and predsets included, the block stays off to its end.         *)
(***************************************************************************)
BlockStaysOff ==
  [][Fetching /\ ~Executed /\ Fetched.op \notin {"PREDBEGIN", "PREDEND"} => ~Executed']_vars

(***************************************************************************)
(* %g0 reads as zero and the pointers follow the psr in the composed core, *)
(* where eleven cases of the opcode switch write registers.                *)
(***************************************************************************)
RegisterFileSound == ZeroRegister /\ PointersFollowCWP

(***************************************************************************)
(* gen_sim.c says at its case LDA: "lda not implemented => same as normal  *)
(* ld".  An executed LDA of an aligned address loads the word there.       *)
(***************************************************************************)
LdaLoadsWord ==
  [][\A rd \in Registers \ {G0} :
       /\ Fetching /\ Fetched.op = "LDA" /\ Executed /\ Fetched.rd = rd
       /\ EffectiveAddress % 4 = 0 /\ EffectiveAddress \in Addresses
       => Read(rd)' = WordAt(memory, EffectiveAddress)]_vars
=============================================================================
