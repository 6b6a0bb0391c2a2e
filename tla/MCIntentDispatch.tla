-------------------------- MODULE MCIntentDispatch --------------------------
(* Instances of IntentDispatch for TLC: an eager target and one whose *)
(* adapter comes online late.                                         *)
EXTENDS IntentDispatch

MCAmounts == {1, -1}
=============================================================================
