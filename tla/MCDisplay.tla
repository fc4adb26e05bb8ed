----------------------------- MODULE MCDisplay -----------------------------
(* Display.tla with a few events of each kind.                              *)
EXTENDS Display
=============================================================================
