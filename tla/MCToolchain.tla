----------------------------- MODULE MCToolchain -----------------------------
(***************************************************************************)
(* Sources with a data part and a text part, in both orders.               *)
(***************************************************************************)
EXTENDS Toolchain, AssemblySources

CONSTANT x                \* a label

AllLabels == {Main, x}

DataStatements ==
  {Datum(2, 258, NoLabel), Datum(4, 0, x), SkipBytes(3), Label(x), Align(33)}

TextStatements ==
  {Label(Main), Label(x), Instr(BranchInstr(8, x)), Instr(CallInstr(Main)), Instr(SethiLabelInstr(1, x)),
   Instr(AddrInstr("LD", 2, LabelAddress(1, x))), Instr(ZeroOperandInstr("PREDEND")),
   Instr(RegImmInstr("ADD", 1, 1, 4096)), Instr(HWLoopInitInstr(LoopE, Main)),
   [Instr(NopInstr) EXCEPT !.guard = "icc"]}

UpTo(n, S) == UNION {[1 .. k -> S] : k \in 0 .. n}
DataParts == {<<SectionStatement("data")>> \o d : d \in UpTo(2, DataStatements)}
TextParts == {<<SectionStatement("text")>> \o t : t \in UpTo(2, TextStatements)}

AllSources ==
  {d \o t : d \in DataParts, t \in TextParts}
    \cup {t \o d : d \in DataParts, t \in TextParts}
    \cup {<<s>> : s \in DataStatements \cup TextStatements}
=============================================================================
