----------------------------- MODULE MCCaptureRun ---------------------------
(* Instance: two captures that may draw the same name.                     *)
EXTENDS CaptureRun
=============================================================================
