-------------------------- MODULE MCIosEdgeClient --------------------------
(* Instances of IosEdgeClient for TLC.                                     *)
EXTENDS IosEdgeClient
=============================================================================
