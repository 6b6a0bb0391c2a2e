----------------------------- MODULE MCEdgeLink -----------------------------
(* Instances of EdgeLink for TLC: a full queue is a few frames away. *)
EXTENDS EdgeLink
=============================================================================
