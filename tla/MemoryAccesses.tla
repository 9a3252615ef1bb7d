---------------------------- MODULE MemoryAccesses ----------------------------
(***************************************************************************)
(* A store of any width followed by a load of any width and sign, at any   *)
(* two addresses of a small piece of memory.                               *)
(***************************************************************************)
EXTENDS LoadedPrograms

CONSTANTS
  StoredValues,           \* the words stored
  AccessedBytes           \* the first bytes of memory, which are accessed

ASSUME AccessAssumption ==
  /\ StoredValues \subseteq Word
  /\ AccessedBytes % 4 = 0 /\ AccessedBytes <= MemoryBytes

\* the bytes an instruction moves, as its name says
WidthOf(op) ==
  CASE op \in {"STB", "STBA", "LDUB", "LDUBA", "LDSB", "LDSBA"} -> 1
    [] op \in {"STH", "STHA", "LDUH", "LDUHA", "LDSH", "LDSHA"} -> 2
    [] op \in {"ST", "STA", "LD"}                               -> 4
IsSigned(op) == op \in {"LDSB", "LDSBA", "LDSH", "LDSHA"}

AlignedFor(op) == {a \in 0 .. AccessedBytes - 1 : a % WidthOf(op) = 0}

Accesses(v) ==
  {Assembled(<<Set(L(0), v), Format3(st, L(0), G0, Imm(a)), Format3(ld, L(1), G0, Imm(b))>>
               \o ReturnFromLeaf) :
     <<st, a>> \in UNION {{st} \X AlignedFor(st) : st \in {"STB", "STBA", "STH", "STHA", "ST", "STA"}},
     <<ld, b>> \in UNION {{ld} \X AlignedFor(ld) :
                            ld \in {"LDUB", "LDSB", "LDUH", "LDSH", "LD", "LDUBA", "LDSHA"}}}

AccessPrograms == UNION {Accesses(v) : v \in StoredValues}
-----------------------------------------------------------------------------
(***************************************************************************)
(* The accessed memory as one big-endian number, of which a store replaces *)
(* the digits from its address on and a load takes them out.               *)
(***************************************************************************)
Number(m) ==
  FoldLeft(LAMBDA n, a : n * ByteRange + m[a], 0, [k \in 1 .. AccessedBytes |-> k - 1])

\* the weight of the last byte an access moves
Weight(a, width) == ByteRange ^ (AccessedBytes - a - width)
Part(n, a, width) == (n \div Weight(a, width)) % ByteRange ^ width
Replaced(n, a, width, v) ==
  n + ((v % ByteRange ^ width) - Part(n, a, width)) * Weight(a, width)

(***************************************************************************)
(* A load gives the bytes the store and what was there before have left,   *)
(* the highest first, with the sign its name says, and the store leaves    *)
(* every other byte of memory alone: the five ways to put an address into  *)
(* bytes agree with each other, whatever the widths and the addresses.     *)
(***************************************************************************)
LoadsSeeStores ==
  status = "halted" /\ program \in AccessPrograms =>
    LET st == program[1]
        ld == program[2]
        stored == Replaced(Number(image), st.src2[2], WidthOf(st.op), program[0].src2[2])
        part == Part(stored, ld.src2[2], WidthOf(ld.op))
        range == ByteRange ^ WidthOf(ld.op)
    IN  /\ Number(memory) = stored
        /\ \A a \in AccessedBytes .. MemoryBytes - 1 : memory[a] = image[a]
        /\ Read(L(1)) = IF IsSigned(ld.op) /\ part >= range \div 2
                        THEN (part - range) % Modulus ELSE part
=============================================================================
