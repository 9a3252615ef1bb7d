----------------------------- MODULE SourceMeaning -----------------------------
(***************************************************************************)
(* What a source means for a target: whether it keeps the rules, and the   *)
(* instructions, the data memory and the binary it stands for.  Addresses  *)
(* are counted from the beginning of the source each time.                 *)
(***************************************************************************)
EXTENDS SourceStatements, FiniteSets

Positions(source, kinds) == {n \in DOMAIN source : source[n].kind \in kinds}
Before(source, n, kinds) == {m \in Positions(source, kinds) : m < n}

Greatest(S) == CHOOSE m \in S : \A k \in S : k <= m

SectionAt(source, n) ==
  LET sections == Before(source, n, {"section"})
  IN IF sections = {} THEN "undef" ELSE source[Greatest(sections)].section

InstructionNumber(source, n) == Cardinality(Before(source, n, {"instruction"}))

\* the bytes that the statements before n take
Size(s) == IF s.kind \in {"data", "skip"} THEN s.bytes ELSE 0
Offset(source, n) ==
  LET bytes[m \in 1 .. Len(source) + 1] == IF m = 1 THEN 0 ELSE bytes[m - 1] + Size(source[m - 1])
  IN  bytes[n]

\* where the label defined at n points to
Address(source, n) ==
  IF SectionAt(source, n) = "text" THEN InstructionNumber(source, n) ELSE Offset(source, n)
Defined(source) == {source[n].label : n \in Positions(source, {"label"})}
AddressOf(source) ==
  [l \in Defined(source) |->
     Address(source, CHOOSE n \in Positions(source, {"label"}) : source[n].label = l)]

Acceptable(target, source, n) ==
  LET s == source[n] IN
  /\ s.kind = "align" => s.bytes \in 0 .. 32
  /\ s.kind = "label" =>
       /\ SectionAt(source, n) # "undef"
       /\ SectionAt(source, n) = "text" /\ InstructionNumber(source, n) = 0 => s.label = Main
       /\ \A m \in Before(source, n, {"label"}) : source[m].label # s.label
  /\ s.kind = "instruction" => InRange(s.instruction) /\ Supported(target, s.instruction, s.guard)

Referenced(source) ==
  ({source[n].label : n \in Positions(source, {"data"})} \ {NoLabel})
    \cup UNION {ReferencesOf(source[n].instruction) : n \in Positions(source, {"instruction"})}

Correct(target, source) ==
  (\A n \in DOMAIN source : Acceptable(target, source, n)) /\ Referenced(source) \subseteq Defined(source)
-----------------------------------------------------------------------------
\* the data with their numbers and addresses; the memory ends with the last of them
NumberAt(source, n) ==
  IF source[n].label = NoLabel THEN source[n].value ELSE AddressOf(source)[source[n].label]
Placed(source) ==
  {[at |-> Offset(source, n), bytes |-> source[n].bytes, value |-> NumberAt(source, n)] :
     n \in Positions(source, {"data"})}
LastOf(d) == d.at + d.bytes - 1
MemoryEnd(source) == Greatest({0} \cup {LastOf(d) + 1 : d \in Placed(source)})

\* what no datum covers is zero
ByteIn(d, a) == (d.value \div 256^(LastOf(d) - a)) % 256
MeantMemory(source) ==
  LET placed == Placed(source)
      ByteAt(a) ==
        LET covering == {d \in placed : a \in d.at .. LastOf(d)}
        IN  IF covering = {} THEN 0 ELSE ByteIn(CHOOSE d \in covering : TRUE, a)
  IN  [a \in 1 .. MemoryEnd(source) |-> ByteAt(a - 1)]

\* the instructions in their order, their labels replaced by addresses
InstructionStatement(source, k) ==
  CHOOSE n \in Positions(source, {"instruction"}) : InstructionNumber(source, n) = k - 1
MeantInstructions(source) ==
  LET addresses == AddressOf(source)
  IN  [k \in 1 .. Cardinality(Positions(source, {"instruction"})) |->
         Resolved(source[InstructionStatement(source, k)].instruction, addresses)]

Field(value, n) == [k \in 1 .. n |-> (value \div 256^(n - k)) % 256]

Binary(target, source) ==
  LET memory == MeantMemory(source)
      instructions == MeantInstructions(source)
  IN  Field(TargetID(target), 2) \o Field(Len(memory), 4) \o Field(4 * Len(instructions), 4)
        \o memory
        \o BytesOf([k \in DOMAIN instructions |-> Encoded(target, instructions[k], k - 1)])
=============================================================================
