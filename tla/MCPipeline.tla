----------------------------- MODULE MCPipeline -----------------------------
(* Instances of Pipeline for TLC. *)
EXTENDS Pipeline

CONSTANTS h1, enc, s1, s2

OneHandler == {h1}
OneProducer == {enc}

\* As many buffers as frames are captured; CaptureStage.cfg has all of them.
TwoSlots == {s1, s2}
=============================================================================
