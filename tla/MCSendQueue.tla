---------------------------- MODULE MCSendQueue ----------------------------
(* Instances of SendQueue for TLC: two callback threads.                   *)
EXTENDS SendQueue

CONSTANTS p1, p2

MCProducers == {p1, p2}
=============================================================================
