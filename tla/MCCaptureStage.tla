--------------------------- MODULE MCCaptureStage ---------------------------
(* The instance of CaptureStage for TLC. *)
EXTENDS CaptureStage

CONSTANTS h1, s1, s2, s3, s4

OneHandler == {h1}

\* kFrameSlotCount buffers.
FourSlots == {s1, s2, s3, s4}
=============================================================================
