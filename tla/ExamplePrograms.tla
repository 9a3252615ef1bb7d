---------------------------- MODULE ExamplePrograms ----------------------------
(***************************************************************************)
(* The examples of examples/cfiles as assembly sources, written for the    *)
(* four targets the way their instruction sets suggest: the control flow   *)
(* of the C functions with branches, hardware loops, conditional moves,    *)
(* selects and predicated blocks.  The arrays are shorter than those of    *)
(* the C files, and their contents are left to the data part.              *)
(***************************************************************************)
EXTENDS AssemblySources, SequencesExt

\* bounds: the lengths of the arrays
FindSize == 3
SortSize == 3
CounterSize == 3
SearchSize == 4
Key == 3                  \* KEY of the find-first examples

LastIndex(n) == n - 1          \* where a loop downwards begins
-----------------------------------------------------------------------------
(* What the compiled functions are made of *)
Reg3(op, rd, rs1, rs2) == Instr(RegRegInstr(op, rd, rs1, rs2))
Imm3(op, rd, rs1, imm) == Instr(RegImmInstr(op, rd, rs1, imm))
Mov(rd, imm) == Imm3("OR", rd, GReg(0), imm)
Move(rd, rs) == Reg3("OR", rd, GReg(0), rs)
Cmp(rs1, rs2) == Reg3("SUBCC", GReg(0), rs1, rs2)
CmpImm(rs, imm) == Imm3("SUBCC", GReg(0), rs, imm)
Mem(op, rd, rs, imm) == Instr(AddrInstr(op, rd, OffsetAddress(rs, imm)))
BranchIf(cc, l) == Instr(BranchInstr(CC[cc], l))
DelayNop == Instr(NopInstr)
Retl == <<Instr(AddrInstr("JUMPL", GReg(0), OffsetAddress(CallAddressReg, 8))), DelayNop>>
RetlWith(delaySlot) == <<Retl[1], delaySlot>>

\* an assignment that is made if the condition holds
IfMov(cc, rd, rs) == <<Instr(MovCCInstr(rd, rs, CC[cc]))>>
IfSel(cc, rd, rs) == <<Instr(SelCCRegRegInstr(rd, rs, rd, CC[cc]))>>

\* statements that are executed if the condition holds
EndBlock == <<Instr(ZeroOperandInstr("PREDEND"))>>
IccBlock(cc, body) == <<Instr(AddICC(ZeroOperandInstr("PREDBEGIN"), CC[cc]))>> \o body \o EndBlock
PregBlock(cc, body) ==
  <<Instr(AddICC(PredRegInstr("PREDSET", 1), CC[cc])),
    Instr(AddPReg(ZeroOperandInstr("PREDBEGIN"), 1, 1))>> \o body \o EndBlock

\* the body is executed as often as the bound says
Hwloop(bound, first, end, body) ==
  <<Instr(HWLoopInitInstr(LoopS, first)), Instr(HWLoopInitInstr(LoopE, end)), Instr(bound),
    Instr(ZeroOperandInstr("HWLOOP_START")), Label(first)>> \o body \o <<Label(end)>>

\* main calls the function with an address in %o1, prints how long it took
\* and stores what it returns
CallFunction(function, argument) ==
  <<Instr(ZeroOperandInstr("CYCLE_CLEAR")),
    Instr(SethiLabelInstr(OReg(1), argument)), Instr(CallInstr(function)),
    Instr(RegLabelInstr("ADD", OReg(1), OReg(1), argument)),
    Instr(ZeroOperandInstr("CYCLE_PRINT"))>>
CallAndStore(function, argument, answer) ==
  CallFunction(function, argument)
    \o <<Instr(SethiLabelInstr(OReg(4), answer)),
         Instr(AddrInstr("ST", OReg(0), LabelAddress(OReg(4), answer)))>>
MainOf(calls) ==
  <<SectionStatement("text"), Label("main"), Imm3("SAVE", SPReg, SPReg, -4)>> \o calls
    \o <<Instr(AddrInstr("JUMPL", GReg(0), OffsetAddress(ReturnAddressReg, 8))),
         Imm3("RESTORE", GReg(0), GReg(0), 0)>>

Words(values) == [k \in DOMAIN values |-> Datum(4, values[k], "none")]
Data(l, words) == <<Label(l)>> \o Words(words)
-----------------------------------------------------------------------------
(***************************************************************************)
(* findfirst: the position of the first KEY, or SIZE.  position is %o0,    *)
(* the address of a[i] %o1, i %o2.                                         *)
(***************************************************************************)
FindUpwards(loop) ==
  <<Label("findfirst"), Mov(OReg(0), FindSize), Mov(OReg(2), 0)>> \o loop \o Retl

\* findfirst_v1: break, with a branch ...
FindWithBranches ==
  FindUpwards(<<Label("first"), Mem("LD", OReg(3), OReg(1), 0), CmpImm(OReg(3), Key),
                BranchIf("E", "found"), DelayNop,
                Imm3("ADD", OReg(2), OReg(2), 1), CmpImm(OReg(2), FindSize),
                BranchIf("NE", "first"), Imm3("ADD", OReg(1), OReg(1), 4)>>)
    \o <<Label("found")>> \o RetlWith(Move(OReg(0), OReg(2)))

\* ... also out of a hardware loop
FindWithBreak ==
  FindUpwards(Hwloop(HWLoopBoundImmInstr(FindSize), "first", "end",
                <<Mem("LD", OReg(3), OReg(1), 0), CmpImm(OReg(3), Key),
                  BranchIf("E", "found"), DelayNop,
                  Imm3("ADD", OReg(2), OReg(2), 1), Imm3("ADD", OReg(1), OReg(1), 4)>>))
    \o <<Label("found")>> \o RetlWith(Move(OReg(0), OReg(2)))

\* findfirst_v3: cond in %o4, found in %o5
FindSinglePath ==
  <<Label("findfirst"), Mov(OReg(0), FindSize), Mov(OReg(2), 0), Mov(OReg(5), 0)>>
    \o Hwloop(HWLoopBoundImmInstr(FindSize), "first", "end",
         <<Imm3("XOR", OReg(4), OReg(5), 1),
           Mem("LD", OReg(3), OReg(1), 0), CmpImm(OReg(3), Key),
           Instr(SelCCImmImmInstr(GReg(1), 1, 0, CC.E)),
           Reg3("ANDCC", OReg(4), OReg(4), GReg(1)),
           Instr(SelCCRegImmInstr(OReg(5), OReg(5), 1, CC.E))>>
         \o IfSel("NE", OReg(0), OReg(2))
         \o <<Imm3("ADD", OReg(2), OReg(2), 1), Imm3("ADD", OReg(1), OReg(1), 4)>>)
    \o Retl

\* findfirst_v5 and findfirst_v6: downwards, with the assignment under a condition
FindDownwards(assignment) ==
  <<Label("findfirst"), Mov(OReg(0), FindSize), Mov(OReg(2), LastIndex(FindSize)),
    Imm3("ADD", OReg(1), OReg(1), 4 * LastIndex(FindSize))>>
    \o Hwloop(HWLoopBoundImmInstr(FindSize), "first", "end",
         <<Mem("LD", OReg(3), OReg(1), 0), CmpImm(OReg(3), Key)>>
           \o assignment
           \o <<Imm3("SUB", OReg(2), OReg(2), 1), Imm3("SUB", OReg(1), OReg(1), 4)>>)
    \o Retl

FindFirstText(function) ==
  MainOf(CallAndStore("findfirst", "numbers0", "answer0")
           \o CallAndStore("findfirst", "numbers1", "answer1")) \o function

FindFirstData(numbers0, numbers1) ==
  <<SectionStatement("data")>> \o Data("answer0", <<0>>) \o Data("answer1", <<0>>)
    \o Data("numbers0", numbers0) \o Data("numbers1", numbers1)

FindFirstBranching == {<<"v8", FindWithBranches>>, <<"v8-blockicc-movcc", FindWithBreak>>}
FindFirstSinglePath ==
  {<<"v8-blockicc-movcc", FindDownwards(IfMov("E", OReg(0), OReg(2)))>>,
   <<"v8-blockicc-selcc", FindSinglePath>>,
   <<"v8-blockicc-selcc", FindDownwards(IccBlock("E", <<Move(OReg(0), OReg(2))>>))>>,
   <<"v8-blockpreg-selcc", FindDownwards(PregBlock("E", <<Move(OReg(0), OReg(2))>>))>>}

FindFirstFunctions == FindFirstBranching \cup FindFirstSinglePath
-----------------------------------------------------------------------------
(***************************************************************************)
(* BubbleSort: i is %o2, the address of a[j-1] %o3, s and t are %o4 and    *)
(* %o5.  The inner loop is a hardware loop bounded by i.                   *)
(***************************************************************************)
InnerLoop(body) ==
  Hwloop(HWLoopBoundRegInstr(OReg(2)), "inner", "innerEnd", body)
InnerBranchLoop(body) ==
  <<Move(GReg(1), OReg(2)), Label("inner")>> \o body
    \o <<Imm3("SUBCC", GReg(1), GReg(1), 1), BranchIf("NE", "inner"), DelayNop>>

BubbleSort(InLoop(_), exchange) ==
  <<Label("sort"), Mov(OReg(2), LastIndex(SortSize)), Label("outer"), Move(OReg(3), OReg(1))>>
    \o InLoop(<<Mem("LD", OReg(4), OReg(3), 0), Mem("LD", OReg(5), OReg(3), 4),
                Cmp(OReg(4), OReg(5))>>
              \o exchange
              \o <<Imm3("ADD", OReg(3), OReg(3), 4)>>)
    \o <<Imm3("SUBCC", OReg(2), OReg(2), 1), BranchIf("NE", "outer"), DelayNop>>
    \o Retl

\* bubble_v1: if (a[j-1] > a[j]) swap
Swap == <<Mem("ST", OReg(5), OReg(3), 0), Mem("ST", OReg(4), OReg(3), 4)>>
SwapByBranch == <<BranchIf("LE", "sorted"), DelayNop>> \o Swap \o <<Label("sorted")>>

\* bubble_v2: a[j-1] and a[j] are the minimum and the maximum, %g2 and %g3
StoreBoth == <<Mem("ST", GReg(2), OReg(3), 0), Mem("ST", GReg(3), OReg(3), 4)>>
MinMax(If(_, _, _)) ==
  <<Move(GReg(2), OReg(4)), Move(GReg(3), OReg(5))>>
    \o If("G", GReg(2), OReg(5)) \o If("G", GReg(3), OReg(4)) \o StoreBoth

SortText(function) ==
  MainOf(CallFunction("sort", "array0") \o CallFunction("sort", "array1")) \o function
SortData(array0, array1) ==
  <<SectionStatement("data")>> \o Data("array0", array0) \o Data("array1", array1)

SortBranching == {<<"v8", BubbleSort(InnerBranchLoop, SwapByBranch)>>}
SortSinglePath ==
  {<<"v8-blockicc-movcc", BubbleSort(InnerLoop, MinMax(IfMov))>>,
   <<"v8-blockicc-selcc", BubbleSort(InnerLoop, MinMax(IfSel))>>,
   <<"v8-blockicc-selcc", BubbleSort(InnerLoop, IccBlock("G", Swap))>>,
   <<"v8-blockpreg-selcc", BubbleSort(InnerLoop, PregBlock("G", Swap))>>}

SortFunctions == SortBranching \cup SortSinglePath
-----------------------------------------------------------------------------
(***************************************************************************)
(* inc_counter: the address of counter[idx] is %o1, inc_val %o2.           *)
(***************************************************************************)
IncrementByte(increment) ==
  <<Mem("LDUB", OReg(3), OReg(1), 0), increment,
    Mem("STB", OReg(3), OReg(1), 0), Mem("LDUB", OReg(3), OReg(1), 0), CmpImm(OReg(3), 0)>>

\* inccounter_v1: break at the first byte that is not zero
IncrementWithBranches ==
  <<Label("increment"), Mov(OReg(2), CounterSize), Label("first")>>
    \o IncrementByte(Imm3("ADD", OReg(3), OReg(3), 1))
    \o <<BranchIf("GU", "over"), Imm3("ADD", OReg(1), OReg(1), 1),
         Imm3("SUBCC", OReg(2), OReg(2), 1), BranchIf("NE", "first"), DelayNop, Label("over")>>
    \o Retl

\* inccounter_v4: nothing is added any more
IncrementAll(clear) ==
  <<Label("increment"), Mov(OReg(2), 1)>>
    \o Hwloop(HWLoopBoundImmInstr(CounterSize), "first", "end",
         IncrementByte(Reg3("ADD", OReg(3), OReg(3), OReg(2))) \o clear
           \o <<Imm3("ADD", OReg(1), OReg(1), 1)>>)
    \o Retl

IncrementText(function) ==
  MainOf(CallFunction("increment", "counter") \o CallFunction("increment", "counter"))
    \o function
IncrementData(counter) ==
  <<SectionStatement("data"), Label("counter")>>
    \o [k \in DOMAIN counter |-> Datum(1, counter[k], "none")]

IncrementBranching == {<<"v8", IncrementWithBranches>>}
IncrementSinglePath ==
  {<<"v8-blockicc-movcc", IncrementAll(IfMov("GU", OReg(2), GReg(0)))>>,
   <<"v8-blockicc-selcc", IncrementAll(<<Instr(SelCCRegImmInstr(OReg(2), OReg(2), 0, CC.E))>>)>>,
   <<"v8-blockicc-movcc", IncrementAll(IccBlock("GU", <<Mov(OReg(2), 0)>>))>>,
   <<"v8-blockpreg-selcc", IncrementAll(PregBlock("GU", <<Mov(OReg(2), 0)>>))>>}

IncrementFunctions == IncrementBranching \cup IncrementSinglePath
-----------------------------------------------------------------------------
(***************************************************************************)
(* binSearch: key is %o3, left %o0, right %o2, idx %o4, a[idx] %o5.        *)
(***************************************************************************)
Middle ==
  <<Reg3("ADD", OReg(4), OReg(2), OReg(0)), Imm3("SRA", OReg(4), OReg(4), 1),
    Imm3("SLL", GReg(2), OReg(4), 2), Instr(AddrInstr("LD", OReg(5), IndexedAddress(OReg(1), GReg(2))))>>
SearchFrom ==
  <<Label("search"), Mov(OReg(0), 0), Mov(OReg(2), LastIndex(SearchSize)),
    Mem("LD", OReg(3), OReg(1), 4 * SearchSize)>>

\* bs_v1
SearchWithBranches ==
  SearchFrom \o <<Label("first")>> \o Middle
    \o <<Cmp(OReg(5), OReg(3)), BranchIf("E", "found"), DelayNop, BranchIf("L", "greater"), DelayNop,
         BranchIf("A", "while"), Imm3("SUB", OReg(2), OReg(4), 1),
         Label("greater"), Imm3("ADD", OReg(0), OReg(4), 1),
         Label("while"), Cmp(OReg(2), OReg(0)), BranchIf("GE", "first"), DelayNop>>
    \o RetlWith(Mov(OReg(0), -1))
    \o <<Label("found")>> \o RetlWith(Move(OReg(0), OReg(4)))

\* bs_v10: the range is halved as often as inc is
SearchSinglePath(If(_, _, _)) ==
  SearchFrom
    \o Hwloop(HWLoopBoundImmInstr(2), "first", "end",
         Middle \o <<Imm3("ADD", GReg(1), OReg(4), 1), Cmp(OReg(3), OReg(5))>>
           \o If("G", OReg(0), GReg(1)) \o If("LE", OReg(2), OReg(4)) \o <<DelayNop>>)
    \o <<Imm3("SLL", GReg(2), OReg(0), 2),
         Instr(AddrInstr("LD", OReg(5), IndexedAddress(OReg(1), GReg(2)))),
         Cmp(OReg(5), OReg(3)), Mov(OReg(4), -1)>>
    \o If("L", OReg(0), OReg(4)) \o Retl

SearchText(function) == MainOf(CallAndStore("search", "values", "position")) \o function

\* the key follows the values
SearchData(values, key) ==
  <<SectionStatement("data")>> \o Data("position", <<0>>) \o Data("values", values) \o Words(<<key>>)

SearchFunctions ==
  {<<"v8", SearchWithBranches>>,
   <<"v8-blockicc-movcc", SearchSinglePath(IfMov)>>,
   <<"v8-blockpreg-selcc", SearchSinglePath(IfSel)>>}
=============================================================================
