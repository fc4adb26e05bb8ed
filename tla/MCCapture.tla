----------------------------- MODULE MCCapture -----------------------------
(* Capture.tla with four buffers asked for and up to five granted.          *)
EXTENDS Capture
=============================================================================
