----------------------------- MODULE MCHandshake -----------------------------
(* Bounds for Handshake: sizes to both sides of 2^31, scaled to IntMod = 64. *)
EXTENDS Handshake

MCWidths == {1, 3, 6}
MCHeights == {2, 3, 6}
MCPads == {0, 1}
=============================================================================
