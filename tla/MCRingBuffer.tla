---------------------------- MODULE MCRingBuffer ----------------------------
(* Messages that leave room for another, that just fill the buffer, that   *)
(* are longer than the reader's buffer, and one that never fits.           *)
EXTENDS RingBuffer

MCMessages ==
  {<<0>>, <<2>>} \cup {[i \in 1 .. n |-> i % Base] : n \in {4, 6, 7}}
=============================================================================
