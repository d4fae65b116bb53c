----------------------------- MODULE MC_Wakeups -----------------------------
(***************************************************************************)
(* Wakeups for TLC: the keys are model values of the configurations.       *)
(***************************************************************************)
EXTENDS Wakeups

=============================================================================
