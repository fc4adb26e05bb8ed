------------------------------- MODULE Handoff -------------------------------
(***************************************************************************)
(* What the pipeline promises about its frame buffers, whatever the        *)
(* processes, the socket and the signals do: one party owns a buffer at a  *)
(* time, the camera writes only what it owns, the renderer reads only what *)
(* it was lent, and what was lent comes back before the camera gets it.    *)
(*                                                                         *)
(* Session.tla models the two programs and implements this specification   *)
(* (property Contract there).                                              *)
(***************************************************************************)
CONSTANTS Buf,   \* the V4L2 buffers, shared once as dma-buf fds
          None   \* no buffer

VARIABLES owner,    \* who may touch each buffer
          writing,  \* the buffer the camera's DMA fills now, or None
          reading   \* the buffer the renderer has imported now, or None

vars == <<owner, writing, reading>>

\* "nobody": the stream is off; the pages live on, the camera never comes back
Party == {"camera", "ready", "publisher", "subscriber", "nobody"}

Init == /\ owner = [b \in Buf |-> "camera"]
        /\ writing = None
        /\ reading = None

Pass(b, from, to) == /\ owner[b] = from
                     /\ owner' = [owner EXCEPT ![b] = to]

StartFill(b) == /\ writing = None
                /\ owner[b] = "camera"
                /\ writing' = b
                /\ UNCHANGED <<owner, reading>>

EndFill(b) == /\ writing = b
              /\ Pass(b, "camera", "ready")
              /\ writing' = None
              /\ UNCHANGED reading

\* DQBUF
Take(b) == Pass(b, "ready", "publisher") /\ UNCHANGED <<writing, reading>>

\* the index goes over the socket
Lend(b) == Pass(b, "publisher", "subscriber") /\ UNCHANGED <<writing, reading>>

\* eglCreateImageKHR; the publisher may be gone by then, never the buffer
StartRead(b) == /\ reading = None
                /\ owner[b] \in {"subscriber", "nobody"}
                /\ reading' = b
                /\ UNCHANGED <<owner, writing>>

\* eglDestroyImageKHR
EndRead == /\ reading # None
           /\ reading' = None
           /\ UNCHANGED <<owner, writing>>

\* the ack, or the end of a subscriber that held a frame (its image dies with it)
Return(b) == /\ Pass(b, "subscriber", "publisher")
             /\ reading' = None
             /\ UNCHANGED writing

\* QBUF
GiveBack(b) == Pass(b, "publisher", "camera") /\ UNCHANGED <<writing, reading>>

\* STREAMOFF: every buffer leaves the driver's queues at once
Stop == /\ owner' = [b \in Buf |-> "nobody"]
        /\ writing' = None
        /\ UNCHANGED reading

Next == \/ \E b \in Buf : \/ StartFill(b) \/ EndFill(b) \/ Take(b)
                          \/ Lend(b) \/ StartRead(b) \/ Return(b)
                          \/ GiveBack(b)
        \/ EndRead
        \/ Stop

Spec == Init /\ [][Next]_vars

-----------------------------------------------------------------------------
TypeOK == /\ owner \in [Buf -> Party]
          /\ writing \in Buf \union {None}
          /\ reading \in Buf \union {None}

(***************************************************************************)
(* The renderer samples only a buffer that was lent to it (or whose camera *)
(* is off), and the camera writes only a buffer it owns; so no byte of a   *)
(* frame changes while it is being shown.  The code has no lock: only the  *)
(* order DQBUF, send, import, destroy, ack, QBUF keeps this.               *)
(***************************************************************************)
Exclusive == /\ reading # None => owner[reading] \in {"subscriber", "nobody"}
             /\ writing # None => owner[writing] = "camera"
=============================================================================
