---------------------------- MODULE MCHueAdapter ----------------------------
(* Instances of HueAdapter for TLC.                                        *)
EXTENDS HueAdapter
=============================================================================
