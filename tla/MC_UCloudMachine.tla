-------------------------- MODULE MC_UCloudMachine --------------------------
(***************************************************************************)
(* Instances of UCloudMachine for TLC: two instance ids as model values.   *)
(***************************************************************************)
EXTENDS UCloudMachine, TLC

HostSymmetry == Permutations(Hosts)
=============================================================================
