--------------------------- MODULE MCCaptureWriter ---------------------------
(* TLC instances of CaptureWriter. The two closers are the connector's     *)
(* shutdown and the atexit hook.                                           *)
EXTENDS CaptureWriter
=============================================================================
