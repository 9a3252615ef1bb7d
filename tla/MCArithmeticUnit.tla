-------------------------- MODULE MCArithmeticUnit --------------------------
(***************************************************************************)
(* Instances of ArithmeticUnit for TLC.  The opcodes are split by the      *)
(* state they share: those that chain through the icc bits, with the       *)
(* shifts, and those that chain through the y register.                    *)
(***************************************************************************)
EXTENDS ArithmeticUnit

CarryOps == AddOps \cup SubOps \cup AddxOps \cup SubxOps \cup ShiftOps
YOps == {"UMUL"} \cup SmulOps \cup DivOps \cup {"WR", "RD"}
=============================================================================
