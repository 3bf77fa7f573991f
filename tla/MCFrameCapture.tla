---------------------------- MODULE MCFrameCapture ----------------------------
(* Instances of FrameCapture for TLC.                                       *)
EXTENDS FrameCapture
=============================================================================
