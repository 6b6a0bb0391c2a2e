---------------------------- MODULE MCConfigSync ----------------------------
(* Instances of ConfigSync for TLC: two mappings, which the cycle's gesture *)
(* alternates.                                                              *)
EXTENDS ConfigSync

CONSTANTS m1, m2, v1, v2, g1

Alternate == [id \in {m1, m2} |-> IF id = m1 THEN m2 ELSE m1]

\* Two mappings under a cycle, one mapping without, nothing.
Configured(a, b, cycle) ==
  [mappings |-> [id \in {m1, m2} |-> IF id = m1 THEN a ELSE b], cycle |-> cycle, glyphs |-> g1]
MCStart == {Configured(v1, v2, m1), Configured(v1, Absent, NoCycle), Configured(Absent, Absent, NoCycle)}
=============================================================================
