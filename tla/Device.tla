------------------------------- MODULE Device -------------------------------
(***************************************************************************)
(* What the set-up of the capture device and the publisher's loop have in  *)
(* common: the buffers the driver has between STREAMON and STREAMOFF.      *)
(*                                                                         *)
(* Capture.tla has the calls that lead to STREAMON and away from it, and   *)
(* only sketches the loop; Session.tla has the loop, and only assumes how  *)
(* it is entered.  Both implement this module: Capture from the start,     *)
(* Session from the state Running that Capture hands over.                 *)
(***************************************************************************)
CONSTANT Index \* indices the driver may grant

VARIABLES state,  \* "idle", "streaming" or "stopped", for good
          all,    \* the indices the two sides have agreed on
          inside  \* those the driver has: empty, being filled, or full

vars == <<state, all, inside>>

Init == state = "idle" /\ all = {} /\ inside = {}

\* the loop may begin
Running == state = "streaming" /\ all # {} /\ inside = all

\* STREAMON: every buffer was queued before
StreamOn ==
  /\ state = "idle" /\ state' = "streaming"
  /\ all' \in SUBSET Index /\ inside' = all'

\* DQBUF: only when the driver has all of them
Dequeue ==
  /\ state = "streaming" /\ inside = all
  /\ \E b \in all : inside' = all \ {b}
  /\ UNCHANGED <<state, all>>

\* QBUF: the one that was out, and no other
Queue ==
  /\ state = "streaming" /\ inside # all /\ inside' = all
  /\ UNCHANGED <<state, all>>

\* STREAMOFF, with or without a buffer out; or the device is closed unused
StreamOff ==
  /\ state # "stopped" /\ state' = "stopped"
  /\ all' = {} /\ inside' = {}

Next == StreamOn \/ Dequeue \/ Queue \/ StreamOff

Spec == Init /\ [][Next]_vars
LoopSpec == Running /\ [][Next]_vars
=============================================================================
