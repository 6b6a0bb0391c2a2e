--------------------------- MODULE MCMacosBridge ---------------------------
(* Instances of MacosBridge for TLC.                                       *)
EXTENDS MacosBridge
=============================================================================
