---------------------------- MODULE IfConversion ----------------------------
(***************************************************************************)
(* One conditional assignment, "i0 = a cc b ? a : b", as the instruction   *)
(* sets of the four targets write it: with a branch (sparc_v8), with a     *)
(* conditional move, with a select, with a block predicated on the         *)
(* condition codes and with two blocks predicated on a predicate register. *)
(***************************************************************************)
EXTENDS SparcPrograms

CONSTANT Values           \* the words compared

Comparisons == {"E", "NE", "L", "GE", "LE", "G", "CS", "CC", "LEU", "GU"}

Variants(cc) ==
  {<<Bcc(cc, 6), Copy(I(0), L(0)), Copy(I(0), L(1))>>,
   <<Copy(I(0), L(1)), MovCC(I(0), L(0), cc)>>,
   <<SelCC(I(0), L(0), L(1), cc)>>,
   <<Copy(I(0), L(1)), BlockICC(cc), Copy(I(0), L(0)), BlockEnd>>,
   <<PredSetCC(0, cc), BlockPreg(0, 1), Copy(I(0), L(0)), BlockEnd,
     BlockPreg(0, 0), Copy(I(0), L(1)), BlockEnd>>}

Conditional(a, b, variant) ==
  Assembled(<<Set(L(0), a), Set(L(1), b), Compare(L(0), L(1))>> \o variant \o ReturnFromLeaf)

Conditionals ==
  {Conditional(a, b, v) : a \in Values, b \in Values, v \in UNION {Variants(cc) : cc \in Comparisons}}
-----------------------------------------------------------------------------
\* what the program compares, and the condition code it names
First == program[0].src2[2]
Second == program[1].src2[2]
Condition ==
  CHOOSE cc \in Comparisons :
    \E a \in DOMAIN program :
      \/ "cc" \in DOMAIN program[a] /\ program[a].cc = cc
      \/ "condition" \in DOMAIN program[a] /\ program[a].condition = [state |-> "ICC", icc |-> cc]

Holds(cc, a, b) ==
  \/ cc = "E"   /\ a = b
  \/ cc = "NE"  /\ a # b
  \/ cc = "L"   /\ Signed(a) < Signed(b)
  \/ cc = "GE"  /\ Signed(a) >= Signed(b)
  \/ cc = "LE"  /\ Signed(a) <= Signed(b)
  \/ cc = "G"   /\ Signed(a) > Signed(b)
  \/ cc = "CS"  /\ a < b
  \/ cc = "CC"  /\ a >= b
  \/ cc = "LEU" /\ a <= b
  \/ cc = "GU"  /\ a > b

(***************************************************************************)
(* Branch, conditional move, select and both kinds of predicated block     *)
(* compute the same conditional, for signed and unsigned comparisons: the  *)
(* extensions are interchangeable with the branch they replace.            *)
(***************************************************************************)
ConversionsAgree ==
  status = "halted" /\ program \in Conditionals =>
    Read(I(0)) = IF Holds(Condition, First, Second) THEN First ELSE Second
=============================================================================
