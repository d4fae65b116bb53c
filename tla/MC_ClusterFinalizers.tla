------------------------ MODULE MC_ClusterFinalizers ------------------------
(***************************************************************************)
(* Instances of ClusterFinalizers for TLC: two or three machines as model  *)
(* values.                                                                 *)
(***************************************************************************)
EXTENDS ClusterFinalizers, TLC

MachineSymmetry == Permutations(Machines)
=============================================================================
