----------------------------- MODULE MCStartup -----------------------------
(* Startup.tla with the script's two programs and a few started by hand.    *)
EXTENDS Startup
=============================================================================
