------------------------- MODULE MC_ClusterTeardown -------------------------
(***************************************************************************)
(* ClusterTeardown for TLC: the machines are model values of the           *)
(* configurations.                                                         *)
(***************************************************************************)
EXTENDS ClusterTeardown, TLC

MachineSymmetry == Permutations(Machines)

=============================================================================
