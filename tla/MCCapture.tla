----------------------------- MODULE MCCapture ------------------------------
(* CaptureService as it is; the configurations give its constants. *)
EXTENDS CaptureService
=============================================================================
