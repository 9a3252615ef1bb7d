----------------------------- MODULE DataMemory -----------------------------
(***************************************************************************)
(* data_memory, an array of bytes, as the load and store instructions see  *)
(* it: big-endian words, halfwords and bytes.                              *)
(***************************************************************************)
EXTENDS SparcWords

CONSTANTS
  ByteRange,              \* 256 in the code, a quarter of a word
  MemoryBytes             \* data_memory_size, a multiple of 4

ASSUME MemoryAssumption ==
  /\ ByteRange \in Nat /\ ByteRange * ByteRange * ByteRange * ByteRange = Modulus
  /\ ByteRange % 2 = 0
  /\ MemoryBytes \in Nat \ {0} /\ MemoryBytes % 4 = 0 /\ MemoryBytes <= Modulus

Byte == 0 .. ByteRange - 1
Addresses == 0 .. MemoryBytes - 1
Memory == [Addresses -> Byte]

ByteLoads == {"LDSB", "LDSBA", "LDUB", "LDUBA"}
HalfLoads == {"LDSH", "LDSHA", "LDUH", "LDUHA"}
LoadOps == ByteLoads \cup HalfLoads \cup {"LD", "LDD"}
ByteStores == {"STB", "STBA"}
HalfStores == {"STH", "STHA"}
StoreOps == ByteStores \cup HalfStores \cup {"ST", "STA"}

Misaligned(op, a) ==
  \/ a % 2 # 0 /\ op \in HalfLoads \cup HalfStores
  \/ a % 4 # 0 /\ op \in {"LD", "ST", "STA"}

\* dst_value |= 0xffffff00 and 0xffff0000 when the sign bit of the part is set
FaultySignExtended(v, range) == IF 2 * v > range THEN v + Modulus - range ELSE v
SignExtended(v, range) == IF 2 * v >= range THEN v + Modulus - range ELSE v

HalfAt(m, a) == m[a] * ByteRange + m[a + 1]
WordAt(m, a) == HalfAt(m, a) * ByteRange * ByteRange + HalfAt(m, a + 2)

\* a load always reads the four bytes of the aligned word around a
LoadInBounds(a) == a - (a % 4) \in Addresses

Loaded(op, m, a) ==
  CASE op \in {"LDSB", "LDSBA"} -> SignExtended(m[a], ByteRange)
    [] op \in {"LDUB", "LDUBA"} -> m[a]
    [] op \in {"LDSH", "LDSHA"} -> SignExtended(HalfAt(m, a), ByteRange * ByteRange)
    [] op \in {"LDUH", "LDUHA"} -> HalfAt(m, a)
    [] op = "LD"                -> WordAt(m, a)

\* byte k of a word, the lowest being byte 0: v >> 8*k, & 0xff
ByteWeight(k) ==
  CASE k = 0 -> 1
    [] k = 1 -> ByteRange
    [] k = 2 -> ByteRange * ByteRange
    [] k = 3 -> ByteRange * ByteRange * ByteRange
ByteOf(v, k) == (v \div ByteWeight(k)) % ByteRange

StoredBytes(op) ==
  CASE op \in ByteStores -> 1
    [] op \in HalfStores -> 2
    [] OTHER             -> 4

StoreInBounds(op, a) == a + StoredBytes(op) - 1 \in Addresses

Stored(op, m, a, v) ==
  [x \in Addresses |->
     IF x \in a .. a + StoredBytes(op) - 1
     THEN ByteOf(v, a + StoredBytes(op) - 1 - x) ELSE m[x]]
=============================================================================
