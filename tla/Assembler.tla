------------------------------- MODULE Assembler -------------------------------
(***************************************************************************)
(* The assembler: the section and the two counters the grammar's actions   *)
(* keep, the lists of labels, data and instructions in gen_asm.c, the      *)
(* order of calls in asm_main.c and the binary file they leave behind.     *)
(***************************************************************************)
EXTENDS SourceStatements, SequencesExt

CONSTANTS
  Labels,                 \* the labels of the sources
  Sources                 \* the source files explored

ASSUME AssemblerAssumption ==
  /\ Main \in Labels /\ NoLabel \notin Labels
  /\ \A s \in Sources : s \in Seq(Range(s)) /\ \A n \in DOMAIN s : IsStatement(s[n], Labels)

VARIABLES
  target,                 \* -t
  source,                 \* the source file
  parsed,                 \* the number of its statements read
  section, instrNo, dataNo,
  labels,                 \* the address of each label; the code keeps a list
  instructions, data,     \* in the order of the source
  phase,                  \* how far main has come, or how it ended
  file,                   \* the bytes of the output file
  writeError              \* "Could not write to file!" was printed

lists == <<labels, instructions, data>>
given == <<target, source>>
parser == <<parsed, section, instrNo, dataNo>>
output == <<file, writeError>>
vars == <<given, parser, lists, phase, output>>

NoAddresses == [l \in {} |-> 0]

Init ==
  /\ target \in Targets
  /\ source \in Sources
  /\ parsed = 0
  /\ section = "undef" /\ instrNo = 0 /\ dataNo = 0
  /\ labels = NoAddresses /\ instructions = << >> /\ data = << >>
  /\ phase = "parsing"
  /\ file = << >>
  /\ writeError = FALSE

CleanUp == labels' = NoAddresses /\ instructions' = << >> /\ data' = << >>

\* The next pointers of list nodes are never initialised.  Whoever walks a list
\* reads what malloc left in its last node: zero, or the behaviour is undefined.
WalkedOff(saved) == IF saved # << >> \/ data # << >> THEN {"undefined"} ELSE {}

\* yyerror, with the instructions saved so far: the lists are freed and the process exits
YYError(saved) ==
  /\ CleanUp
  /\ phase' \in {"failed"} \cup WalkedOff(saved)
  /\ UNCHANGED <<given, section, instrNo, dataNo, output>>
-----------------------------------------------------------------------------
Statement == source[parsed + 1]

\* the parser reduces one statement of the given kind
Reduce(kind) ==
  /\ phase = "parsing" /\ parsed < Len(source)
  /\ Statement.kind = kind
  /\ parsed' = parsed + 1

SectionInfo ==
  /\ Reduce("section")
  /\ section' = Statement.section
  /\ UNCHANGED <<given, instrNo, dataNo, lists, phase, output>>

\* the alignment is checked and forgotten
AlignInfo ==
  /\ Reduce("align")
  /\ IF Statement.bytes \in 0 .. 32
     THEN UNCHANGED <<given, section, instrNo, dataNo, lists, phase, output>>
     ELSE YYError(instructions)

BranchTargetDefinition ==
  /\ Reduce("label")
  /\ LET misplaced == section = "undef" \/ (section = "text" /\ instrNo = 0 /\ Statement.label # Main)
         address == IF section = "text" THEN instrNo ELSE dataNo
     IN IF misplaced \/ Statement.label \in DOMAIN labels
        THEN YYError(instructions)
        ELSE /\ labels' = [l \in DOMAIN labels \cup {Statement.label} |->
                          IF l = Statement.label THEN address ELSE labels[l]]
             /\ UNCHANGED <<given, section, instrNo, dataNo, instructions, data, phase, output>>

SaveData ==
  /\ Reduce("data")
  /\ data' = Append(data, [at |-> dataNo, bytes |-> Statement.bytes, value |-> Statement.value, label |-> Statement.label])
  /\ dataNo' = dataNo + Statement.bytes
  /\ UNCHANGED <<given, section, instrNo, labels, instructions, phase, output>>

Skip ==
  /\ Reduce("skip")
  /\ dataNo' = dataNo + Statement.bytes
  /\ UNCHANGED <<given, section, instrNo, lists, phase, output>>

\* moves, selects, loop and predicate-register instructions are saved first, and
\* then the grammar asks whether the target has them; all others are asked for first
TestedWhenSaved(i, guard) ==
  /\ InRange(i) /\ guard = "none"
  /\ i.op \in {"MOV", "SEL", "HWLOOP_INIT", "HWLOOP_START", "PREDSET", "PREDCLEAR"}

SaveInstruction ==
  /\ Reduce("instruction")
  /\ LET i == Statement.instruction
         saved == Append(instructions, i)
     IN IF InRange(i) /\ Supported(target, i, Statement.guard)
        THEN /\ instructions' = saved
             /\ instrNo' = instrNo + 1
             /\ UNCHANGED <<given, section, dataNo, labels, data, phase, output>>
        ELSE YYError(IF TestedWhenSaved(i, Statement.guard) THEN saved ELSE instructions)
-----------------------------------------------------------------------------
UnknownLabels ==
  ({data[k].label : k \in DOMAIN data}
    \cup UNION {ReferencesOf(instructions[k]) : k \in DOMAIN instructions}) \ (DOMAIN labels \cup {NoLabel})

\* at the end of the source
CheckLabels ==
  /\ phase = "parsing" /\ parsed = Len(source)
  /\ IF UnknownLabels = {}
     THEN /\ instructions' = [k \in DOMAIN instructions |-> Resolved(instructions[k], labels)]
          /\ data' = [k \in DOMAIN data |->
               IF data[k].label = NoLabel THEN data[k]
               ELSE [data[k] EXCEPT !.value = labels[data[k].label], !.label = NoLabel]]
          /\ phase' = "checked"
          /\ UNCHANGED labels
     ELSE CleanUp /\ phase' \in {"failed"} \cup WalkedOff(instructions)
  /\ UNCHANGED <<given, parser, output>>

WalkPastTheEnd ==
  /\ phase = "parsing" /\ parsed = Len(source)
  /\ phase' \in WalkedOff(instructions)
  /\ UNCHANGED <<given, parser, lists, output>>

FaultyBigEndian(value, n) == [k \in 1 .. n |-> value \div 256^(n - k)]
BigEndian(value, n) == [k \in 1 .. n |-> (value \div 256^(n - k)) % 256]
Zeros(n) == [k \in 1 .. n |-> 0]
Blanks == [k \in 1 .. 10 |-> 32]

FaultyDatumPrinted(image, d) == image \o BigEndian(d.value, d.bytes)

\* the gap before a datum, then the datum
DatumPrinted(image, d) == image \o Zeros(d.at - Len(image)) \o BigEndian(d.value, d.bytes)
Printed[n \in 0 .. Len(data)] ==
  IF n = 0 THEN << >> ELSE DatumPrinted(Printed[n - 1], data[n])
Image == Printed[Len(data)]

Overwritten(bytes, first, field) ==
  [k \in DOMAIN bytes |->
     IF k \in first .. first + Len(field) - 1 THEN field[k - first + 1] ELSE bytes[k]]

\* a write that fails is reported, and the function returns
Report(complete) == writeError' = (writeError \/ ~complete)

\* ten blanks and the data, then the length of the data into the header
PrintData ==
  /\ phase = "checked"
  /\ \E written \in Prefixes(Image), length \in BOOLEAN :
       LET bytes == Blanks \o written IN
       /\ length => written = Image
       /\ file' = IF length THEN Overwritten(bytes, 3, BigEndian(Len(Image), 4)) ELSE bytes
       /\ Report(length)
  /\ phase' = "dataPrinted"
  /\ UNCHANGED <<given, parser, lists>>

\* the bytes of the first n instructions
WordsOf(n) == BytesOf([k \in 1 .. n |-> Encoded(target, instructions[k], k - 1)])
Words == WordsOf(Len(instructions))

\* the instructions, then target id and their length into the header
PrintInstructions ==
  /\ phase = "dataPrinted"
  /\ \A k \in DOMAIN instructions : Encodable(target, instructions[k])
  /\ \E written \in Prefixes(Words), id \in BOOLEAN, length \in BOOLEAN :
       LET bytes == file \o written
           named == IF id THEN Overwritten(bytes, 1, BigEndian(TargetID(target), 2)) ELSE bytes IN
       /\ id => written = Words
       /\ length => id
       /\ file' = IF length THEN Overwritten(named, 7, BigEndian(Len(Words), 4)) ELSE named
       /\ Report(length)
  /\ phase' = "printed"
  /\ UNCHANGED <<given, parser, lists>>

\* printInstructions dereferences the null operands of an instruction that has
\* none; what the stream had buffered is lost
PrintNullOperands ==
  /\ phase = "dataPrinted"
  /\ \E k \in DOMAIN instructions :
       /\ ~Encodable(target, instructions[k])
       /\ \A n \in 1 .. k - 1 : Encodable(target, instructions[n])
       /\ file' \in Prefixes(file \o WordsOf(k - 1))
  /\ phase' = "crashed"
  /\ UNCHANGED <<given, parser, lists, writeError>>

ExitAssembler ==
  /\ phase = "printed"
  /\ CleanUp
  /\ phase' = "done"
  /\ UNCHANGED <<given, parser, output>>

Parse ==
  \/ SectionInfo \/ AlignInfo \/ BranchTargetDefinition
  \/ SaveData \/ Skip \/ SaveInstruction

Next ==
  \/ Parse \/ CheckLabels \/ WalkPastTheEnd
  \/ PrintData \/ PrintInstructions \/ PrintNullOperands \/ ExitAssembler

Spec == Init /\ [][Next]_vars
=============================================================================
