---------------------------- MODULE MCNuimoLink ----------------------------
(***************************************************************************)
(* Instances of NuimoLink for TLC: devices of the list beside one that is  *)
(* not in it.                                                              *)
(***************************************************************************)
EXTENDS NuimoLink
=============================================================================
