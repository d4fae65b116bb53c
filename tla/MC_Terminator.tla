--------------------------- MODULE MC_Terminator ---------------------------
(***************************************************************************)
(* Terminator for TLC: callers are model values, the ways the service may  *)
(* answer are named sets.                                                  *)
(***************************************************************************)
EXTENDS Terminator

CONSTANTS machine, cleaner, late

TwoCallers == {machine, cleaner}
ThreeCallers == {machine, cleaner, late}
MachineCallers == {machine}
AllAnswers == Answers
CodeAnswers == {[missing |-> "code", strict |-> FALSE]}
=============================================================================
