------------------------------ MODULE Toolchain ------------------------------
(***************************************************************************)
(* The assembler, the file it leaves behind and the simulator that loads   *)
(* it, each with a target of its own.  Before the simulator starts, the    *)
(* end of the file may be lost, in fclose or on its way.                   *)
(***************************************************************************)
EXTENDS Assembler, Loader, SourceMeaning

VARIABLE binary           \* the file of the simulator, once there is one

toolchain == <<vars, loader, binary>>

Ended == {"done", "failed", "crashed"}

ToolchainInit ==
  /\ Init
  /\ LoaderInit
  /\ binary = << >>

Assemble ==
  /\ Next
  /\ UNCHANGED <<loader, binary>>

\* bound: a file is cut only if all its writes have succeeded
HandOver ==
  /\ phase \in Ended /\ binary = << >>
  /\ \E bytes \in IF writeError THEN {file} ELSE Prefixes(file) : binary' = <<bytes>>
  /\ UNCHANGED <<vars, loader>>

Simulate ==
  /\ binary # << >>
  /\ LoaderNext(binary[1])
  /\ UNCHANGED <<vars, binary>>

ToolchainNext == Assemble \/ HandOver \/ Simulate

ToolchainSpec == ToolchainInit /\ [][ToolchainNext]_toolchain
-----------------------------------------------------------------------------
(***************************************************************************)
(* Counters and lists agree with the number of statements read, and the    *)
(* file is a sequence of bytes with a header in front of it.               *)
(***************************************************************************)
ToolchainTypeOK ==
  /\ parsed \in 0 .. Len(source)
  /\ phase \in {"parsing", "checked", "dataPrinted", "printed"} \cup Ended \cup {"undefined"}
  /\ instrNo \in Nat /\ dataNo \in Nat
  /\ phase = "parsing" => Len(instructions) = instrNo /\ Len(data) <= dataNo
  /\ \A k \in DOMAIN file : file[k] \in 0 .. 255
  /\ phase \in {"printed", "done"} => Len(file) >= 10
  /\ memorySize % 4 = 0
  /\ Len(program) <= numInstructions

(***************************************************************************)
(* One pass over the source, label resolution in the lists and two header  *)
(* fields written afterwards produce the binary that counting each address *)
(* from the beginning of the source gives; a source with an error produces *)
(* none.  A translation a write has failed for, and which was reported,    *)
(* does not count.                                                         *)
(***************************************************************************)
Outcome ==
  CASE phase = "failed"                   -> "rejected"
    [] phase \in {"undefined", "crashed"} -> "lost"
    [] phase \in {"printed", "done"}      -> IF writeError THEN "lost" ELSE "translated"
    [] OTHER                              -> "open"

AsTranslation ==
  INSTANCE Translation WITH
    outcome <- Outcome,
    binary <- IF Outcome = "translated" THEN file ELSE << >>

ImplementsTranslation == AsTranslation!SpecTranslation

(***************************************************************************)
(* A program that runs is the program the source means, whatever targets   *)
(* the two programs were started for: every label is the address of what   *)
(* it names, and the data memory holds every datum at its place.           *)
(***************************************************************************)
LoadsWhatWasAssembled ==
  stage = "running" =>
    LET meant == MeantInstructions(source) IN
    /\ memory = MeantMemory(source)
    /\ program = [k \in DOMAIN meant |-> Meant(meant[k])]

(***************************************************************************)
(* gen_asm.c says in printData: "handle skip instructions: fill memory     *)
(* with zeros".  A file without a write error has a byte of memory for     *)
(* every address that the data directives counted.                         *)
(***************************************************************************)
SkippedSpaceInImage == phase = "printed" /\ ~writeError => Len(Image) = dataNo

(***************************************************************************)
(* The checks of the loader are enough: whatever was not written or has    *)
(* been lost at the end of the file, and whatever target it is for, only a *)
(* complete file of the simulator's own target is simulated.               *)
(***************************************************************************)
RunsOnlyWholeFiles ==
  stage \in {"running", "finished"} =>
    phase = "done" /\ ~writeError /\ binary = <<file>> /\ simTarget = target
=============================================================================
