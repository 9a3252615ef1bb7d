------------------------------ MODULE MCPrograms ------------------------------
(***************************************************************************)
(* All programs of the simulator core in one run: the conditionals, the    *)
(* recursive procedures, the pairs of a store and a load, and the examples *)
(* from their sources.  Eight-bit words in four two-bit bytes, eight       *)
(* windows.  Six nested frames are the most that eight windows hold; the   *)
(* values compared lie around zero and around the sign change.             *)
(***************************************************************************)
EXTENDS IfConversion, Procedures, MemoryAccesses, ExampleResults

Filled(b) == [a \in Addresses |-> b]
\* every byte of the accessed memory differs from its neighbours
Striped == [a \in Addresses |-> (a + 1) % ByteRange]

BoundaryValues == {0, 127, 128, 255}
\* in bytes: 0 1 2 3, and 3 2 1 0 with both signs and no byte twice
AccessValues == {27, 228}

AllImages ==
  (Conditionals \X {Filled(0)}) \cup (SumPrograms \X {Filled(0), Filled(3)})
    \cup (AccessPrograms \X {Striped}) \cup ExampleImages
AllPrograms == {i[1] : i \in AllImages}
AllMemories == {i[2] : i \in AllImages}

(***************************************************************************)
(* Every program returns from main: control leaves each variant of a       *)
(* conditional at the instruction after it, delay slots included, the      *)
(* recursion ends and its returns lead back to main, and the loops of the  *)
(* examples are left, by a branch or with their last iteration.            *)
(***************************************************************************)
ProgramsReturn == <>(status = "halted")
=============================================================================
