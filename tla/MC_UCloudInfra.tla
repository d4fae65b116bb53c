--------------------------- MODULE MC_UCloudInfra ---------------------------
(***************************************************************************)
(* UCloudInfra for TLC.  Its constants are numbers, Booleans and sets of   *)
(* strings, given in the configurations; resources have no symmetry, their *)
(* ids are handed out in order.                                            *)
(***************************************************************************)
EXTENDS UCloudInfra

=============================================================================
