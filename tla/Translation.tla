------------------------------ MODULE Translation ------------------------------
(***************************************************************************)
(* What an assembler promises, without its lists and passes: a source that *)
(* breaks a rule is rejected; any other source is translated to the one    *)
(* binary it means, or is lost, and then nothing counts as output.         *)
(***************************************************************************)
CONSTANTS
  Targets,
  Correct(_, _), Binary(_, _)   \* of a target and a source

VARIABLES target, source, outcome, binary

translation == <<target, source, outcome, binary>>
-----------------------------------------------------------------------------
\* from any source
Init ==
  /\ target \in Targets
  /\ outcome = "open" /\ binary = << >>

Reject ==
  /\ outcome = "open" /\ ~Correct(target, source)
  /\ outcome' = "rejected"
  /\ UNCHANGED <<target, source, binary>>

Translate ==
  /\ outcome = "open" /\ Correct(target, source)
  /\ outcome' = "translated"
  /\ binary' = Binary(target, source)
  /\ UNCHANGED <<target, source>>

\* the process dies or cannot write
Lose ==
  /\ outcome = "open"
  /\ outcome' = "lost"
  /\ UNCHANGED <<target, source, binary>>

Next == Reject \/ Translate \/ Lose

SpecTranslation == Init /\ [][Next]_translation
=============================================================================
