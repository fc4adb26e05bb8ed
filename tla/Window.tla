------------------------------- MODULE Window -------------------------------
(***************************************************************************)
(* What the subscriber's loop may expect of its window: how far the user's *)
(* close can have come at each step of the program, and when the program   *)
(* acts on it.                                                             *)
(*                                                                         *)
(* Display.tla has the set-up, the Wayland connection and the destructors  *)
(* call by call and knows nothing of the publisher; Session.tla has the    *)
(* frames and the publisher, and only how far the close event has come.    *)
(* Both implement this module: a close moves in Display only where Session *)
(* lets it move, and both act on it at the same place.                     *)
(***************************************************************************)
VARIABLES step,    \* of the subscriber
          closing, \* the close event: "none", "wire", "queued" or "seen"
          deaf     \* the connection is known to be broken: nothing is dispatched any more

vars == <<step, closing, deaf>>

Init == step = "setup" /\ closing = "none" /\ ~deaf

\* what has come before a read is in the client's queue after it
Read == closing' \in {closing} \union (IF closing = "wire" THEN {"queued"} ELSE {})

\* a read may meet the end of the connection, for good
Listen == deaf' \in BOOLEAN /\ (deaf => deaf')

\* the wait for the first configure reads and dispatches at once; the libraries
\* that are set up after it may read
SetUp ==
  /\ step = "setup" /\ step' \in {"setup", "loop", "gone"}
  /\ Read \/ (closing = "wire" /\ closing' = "seen")
  /\ Listen

\* while (g_running && !should_close())
Check == step = "loop" /\ closing # "seen" /\ step' = "recv" /\ UNCHANGED <<closing, deaf>>

Receive == step = "recv" /\ step' = "draw" /\ UNCHANGED <<closing, deaf>>
Draw    == step = "draw" /\ step' = "swap" /\ UNCHANGED <<closing, deaf>>

\* the only call of the loop that reads
Swap == step = "swap" /\ step' = "ack" /\ Read /\ Listen

Ack == step = "ack" /\ step' = "dispatch" /\ UNCHANGED <<closing, deaf>>

\* dispatch_pending()
Dispatch ==
  /\ step = "dispatch"
  /\ closing' = IF closing = "queued" /\ ~deaf THEN "seen" ELSE closing
  /\ step' = IF closing' = "seen" THEN "gone" ELSE "loop"
  /\ UNCHANGED deaf

\* a signal, an error, the end of the stream, a crash
Leave == step' = "gone" /\ UNCHANGED <<closing, deaf>>

UserCloses == closing = "none" /\ closing' = "wire" /\ UNCHANGED <<step, deaf>>

Next == SetUp \/ Check \/ Receive \/ Draw \/ Swap \/ Ack \/ Dispatch \/ Leave \/ UserCloses

Spec == Init /\ [][Next]_vars
=============================================================================
