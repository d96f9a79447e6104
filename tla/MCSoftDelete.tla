---------------------------- MODULE MCSoftDelete ----------------------------
(* SoftDelete on a chain r1 - r2 - r3 - r4, with a second parent r5 of r3  *)
(* and a row r6 that may be created below r3.                              *)
EXTENDS SoftDelete

CONSTANTS r1, r2, r3, r4, r5, r6

MCRows  == {r1, r2, r3, r4, r5, r6}
MCEdges == {<<r1, r2>>, <<r2, r3>>, <<r3, r4>>, <<r5, r3>>, <<r3, r6>>}
MCSpare == {r6}
=============================================================================
