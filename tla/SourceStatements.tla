--------------------------- MODULE SourceStatements ---------------------------
(***************************************************************************)
(* What the grammar reads: a source file is a sequence of statements.      *)
(***************************************************************************)
EXTENDS TargetExtensions

CONSTANTS
  Main,                   \* the label "main"
  NoLabel                 \* the label of a datum that is a number

\* bound: .skip never goes back
IsStatement(s, labels) ==
  \/ s \in [kind : {"section"}, section : {"text", "data"}]
  \/ s \in [kind : {"align"}, bytes : Int]
  \/ s \in [kind : {"label"}, label : labels]
  \/ s \in [kind : {"data"}, bytes : {1, 2, 4}, value : Int, label : labels \cup {NoLabel}]
  \/ s \in [kind : {"skip"}, bytes : Nat]
  \/ /\ s \in [kind : {"instruction"}, instruction : {s.instruction}, guard : {"none", "icc", "preg"}]
     /\ IsInstruction(s.instruction, labels)
=============================================================================
