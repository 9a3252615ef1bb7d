---------------------------- MODULE AssemblySources ----------------------------
(***************************************************************************)
(* The statements of an assembly source: sections, labels, data and        *)
(* instructions, as the grammar reduces them.                              *)
(***************************************************************************)
EXTENDS InstructionFormats

SectionStatement(name) == [kind |-> "section", section |-> name]
Label(l) == [kind |-> "label", label |-> l]
Datum(n, value, l) == [kind |-> "data", bytes |-> n, value |-> value, label |-> l]
SkipBytes(n) == [kind |-> "skip", bytes |-> n]
Align(n) == [kind |-> "align", bytes |-> n]
Instr(i) == [kind |-> "instruction", instruction |-> i, guard |-> "none"]

\* enum condition_codes
CC == [A |-> 8, N |-> 0, NE |-> 9, E |-> 1, G |-> 10, LE |-> 2, GE |-> 11, L |-> 3,
       GU |-> 12, LEU |-> 4, CC |-> 13, CS |-> 5, POS |-> 14, NEG |-> 6, VC |-> 15, VS |-> 7]

\* %g, %o and %i registers; %sp is %o6, a callee finds its return address in %i7
GReg(i) == i
OReg(i) == 8 + i
IReg(i) == 24 + i
SPReg == OReg(6)
CallAddressReg == OReg(7)
ReturnAddressReg == IReg(7)
=============================================================================
