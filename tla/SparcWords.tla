----------------------------- MODULE SparcWords -----------------------------
(***************************************************************************)
(* The machine words of the simulator (uint32_t in the code) and the four  *)
(* integer condition codes of its processor state register.  A word is a   *)
(* natural number below Modulus; HalfRange is the weight of the sign bit,  *)
(* 2^31 in the code.  Nothing here depends on the width being 32, so the   *)
(* theorems about these operators hold for every width.                    *)
(***************************************************************************)
EXTENDS Integers

\* Operators whose names begin with Faulty are variants with one plausible bug;
\* PROJECT.json pairs each with the definition it stands in for and the property
\* that must then fail.

CONSTANT HalfRange        \* weight of the sign bit: 2^31 in the code

ASSUME HalfRangeAssumption == HalfRange \in Nat \ {0}

Modulus == 2 * HalfRange
Word == 0 .. Modulus - 1

\* value & (1<<31)
Negative(a) == a >= HalfRange

\* (int32_t) a
Signed(a) == IF Negative(a) THEN a - Modulus ELSE a

FaultySubW(a, b) == a - b

\* uint32_t addition and subtraction
AddW(a, b) == (a + b) % Modulus
SubW(a, b) == (a - b) % Modulus
-----------------------------------------------------------------------------
(***************************************************************************)
(* The icc bits of the psr, as gen_sim.c computes them from the sign bits  *)
(* of the operands and of the result.                                      *)
(***************************************************************************)
IccType == [n : BOOLEAN, z : BOOLEAN, v : BOOLEAN, c : BOOLEAN]
IccClear == [n |-> FALSE, z |-> FALSE, v |-> FALSE, c |-> FALSE]

LogicIcc(d) == [n |-> Negative(d), z |-> d = 0, v |-> FALSE, c |-> FALSE]

\* the carry is lost when only one operand is negative
FaultyAddIcc(a, b, d) ==
  [LogicIcc(d) EXCEPT !.v = (Negative(a) = Negative(b) /\ Negative(a) # Negative(d)),
                      !.c = Negative(a) /\ Negative(b)]

AddIcc(a, b, d) ==
  [n |-> Negative(d),
   z |-> d = 0,
   v |-> \/ Negative(a) /\ Negative(b) /\ ~Negative(d)
         \/ ~Negative(a) /\ ~Negative(b) /\ Negative(d),
   c |-> \/ Negative(a) /\ Negative(b)
         \/ ~Negative(d) /\ (Negative(a) \/ Negative(b))]

\* the borrow is lost when the operands have the same sign
FaultySubIcc(a, b, d) ==
  [LogicIcc(d) EXCEPT !.v = (Negative(a) # Negative(b) /\ Negative(a) # Negative(d)),
                      !.c = ~Negative(a) /\ Negative(b)]

SubIcc(a, b, d) ==
  [n |-> Negative(d),
   z |-> d = 0,
   v |-> \/ Negative(a) /\ ~Negative(b) /\ ~Negative(d)
         \/ ~Negative(a) /\ Negative(b) /\ Negative(d),
   c |-> \/ ~Negative(a) /\ Negative(b)
         \/ Negative(d) /\ (~Negative(a) \/ Negative(b))]

FaultyCarry(icc) == IF icc.c THEN 0 ELSE 1

\* PSR_GET_C as the number the extended additions and subtractions use
Carry(icc) == IF icc.c THEN 1 ELSE 0

\* enum condition_codes
ConditionCodes == {"A", "N", "NE", "E", "G", "LE", "GE", "L",
                   "GU", "LEU", "CC", "CS", "POS", "NEG", "VC", "VS"}

EvaluateICC(cc, icc) ==
  \/ cc = "A"
  \/ cc = "NE"  /\ ~icc.z
  \/ cc = "E"   /\ icc.z
  \/ cc = "G"   /\ ~icc.z /\ icc.n = icc.v
  \/ cc = "LE"  /\ (icc.z \/ icc.n # icc.v)
  \/ cc = "GE"  /\ icc.n = icc.v
  \/ cc = "L"   /\ icc.n # icc.v
  \/ cc = "GU"  /\ ~icc.c /\ ~icc.z
  \/ cc = "LEU" /\ (icc.c \/ icc.z)
  \/ cc = "CC"  /\ ~icc.c
  \/ cc = "CS"  /\ icc.c
  \/ cc = "POS" /\ ~icc.n
  \/ cc = "NEG" /\ icc.n
  \/ cc = "VC"  /\ ~icc.v
  \/ cc = "VS"  /\ icc.v
=============================================================================
