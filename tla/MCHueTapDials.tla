---------------------------- MODULE MCHueTapDials ----------------------------
(* Instances of HueTapDials for TLC: the stored address may be another      *)
(* bridge's by now, and the token that of an older version.                 *)
EXTENDS HueTapDials

CONSTANTS h1, b1

MCTokens == [host : {h1}, id : {b1, NoId}]
=============================================================================
