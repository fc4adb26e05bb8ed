----------------------------- MODULE MCSession -----------------------------
(* Session.tla on small instances.  The instances differ only in their      *)
(* constants, which the configurations give.                                *)
EXTENDS Session
=============================================================================
