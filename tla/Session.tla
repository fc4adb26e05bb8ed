------------------------------- MODULE Session -------------------------------
(***************************************************************************)
(* The streaming session: the publisher's loop, the subscriber's loop, the *)
(* camera driver, the connected socket between the programs, the           *)
(* compositor and the signals, from the end of the handshake to the exit   *)
(* of both processes.                                                      *)
(*                                                                         *)
(* The C++ and the Rust programs run the same protocol, call for call, and *)
(* can be mixed; the module is a model of both.  The camera starts to      *)
(* stream before the publisher listens, so frames may already wait when    *)
(* the session begins.                                                     *)
(***************************************************************************)
EXTENDS Integers, Sequences, SequencesExt, FiniteSets

CONSTANTS N,               \* buffers the driver granted
          SwapWaitsForGpu, \* does eglSwapBuffers return only after the GPU is done?
          MayHide          \* may the compositor stop presenting the window?

\* publisher insists on two buffers or more, publisher_dma may run with one
\* (AtLeastTwo in Capture.tla)
NAssumption == N \in Nat \ {0}
ModeAssumption == SwapWaitsForGpu \in BOOLEAN /\ MayHide \in BOOLEAN
ASSUME NAssumption
ASSUME ModeAssumption

Buf == 0 .. N - 1
None == -1

VARIABLES
  queued, filling, done, \* the driver: empty buffers, the one under DMA, full ones
  undrawn,               \* history: captured frames not drawn yet, by buffer
  pub, held, pubRunning, \* publisher: step, dequeued buffer, g_running
  toSub, toPub,          \* the socket: indices under way, acks under way
  sub, cur, subRunning,  \* subscriber: step, received index, g_running
  image, gpu,            \* the imported buffer, the buffers GPU jobs still read
  closing, hidden        \* progress of the window's close event, window not presented

driver == <<queued, filling, done>>
publisher == <<pub, held, pubRunning>>
channel == <<toSub, toPub>>
subscriber == <<sub, cur, subRunning>>
screen == <<image, gpu>>
window == <<closing, hidden>>
vars == <<driver, undrawn, publisher, channel, subscriber, screen, window>>

PubStep == {"loop", "select", "send", "ack", "requeue", "giveback",
            "shutdown", "stop", "exited"}
SubStep == {"setup", "loop", "recv", "import", "draw", "swap", "destroy",
            "ack", "dispatch", "teardown", "close", "exited"}

Streaming == pub # "exited"
PubOpen == pub \notin {"stop", "exited"}
SubOpen == sub # "exited"

Init ==
  /\ queued = Buf /\ filling = None /\ done = <<>>
  /\ undrawn = <<>>
  /\ pub = "loop" /\ held = None /\ pubRunning = TRUE
  /\ toSub = <<>> /\ toPub = 0
  /\ sub = "setup" /\ cur = None /\ subRunning = TRUE
  /\ image = None /\ gpu = {}
  /\ closing = "none" /\ hidden = FALSE

-----------------------------------------------------------------------------
(* The camera driver.  It fills any buffer it has queued.                   *)

CaptureStart ==
  /\ Streaming /\ filling = None
  /\ \E b \in queued : filling' = b /\ queued' = queued \ {b}
  /\ UNCHANGED <<done, undrawn, publisher, channel, subscriber, screen, window>>

CaptureDone ==
  /\ filling # None
  /\ done' = Append(done, filling)
  /\ undrawn' = Append(undrawn, filling)
  /\ filling' = None
  /\ UNCHANGED <<queued, publisher, channel, subscriber, screen, window>>

-----------------------------------------------------------------------------
(* The publisher: dequeue, send the index, wait for the ack, requeue.       *)

PubGoto(step) == pub' = step /\ UNCHANGED pubRunning

\* a bug: the loop does not look at g_running
PubCheckNever ==
  /\ pub = "loop"
  /\ PubGoto("select")
  /\ UNCHANGED <<held, driver, channel, subscriber, screen, window, undrawn>>

\* while (g_running)
PubCheck ==
  /\ pub = "loop"
  /\ PubGoto(IF pubRunning THEN "select" ELSE "shutdown")
  /\ UNCHANGED <<held, driver, channel, subscriber, screen, window, undrawn>>

\* a bug: the newest frame first
PubDequeueLatest ==
  /\ pub = "select" /\ done # <<>>
  /\ held' = Last(done) /\ done' = Front(done)
  /\ PubGoto("send")
  /\ UNCHANGED <<queued, filling, undrawn, channel, subscriber, screen, window>>

\* select() and VIDIOC_DQBUF
PubDequeue ==
  /\ pub = "select" /\ done # <<>>
  /\ held' = Head(done) /\ done' = Tail(done)
  /\ PubGoto("send")
  /\ UNCHANGED <<queued, filling, undrawn, channel, subscriber, screen, window>>

\* nothing to dequeue: the two seconds are over or a signal interrupts select();
\* or select() or VIDIOC_DQBUF reports an error
PubDequeueFails ==
  /\ pub = "select"
  /\ PubGoto("shutdown")
  /\ UNCHANGED <<held, driver, channel, subscriber, screen, window, undrawn>>

\* a bug: a failed send drops the buffer
PubSendKeepsBuffer ==
  /\ pub = "send"
  /\ IF SubOpen THEN toSub' = Append(toSub, held) /\ PubGoto("ack") /\ UNCHANGED held
                ELSE UNCHANGED toSub /\ PubGoto("shutdown") /\ held' = None
  /\ UNCHANGED <<toPub, driver, subscriber, screen, window, undrawn>>

\* a bug: requeue without waiting for the ack
PubSendAhead ==
  /\ pub = "send"
  /\ IF SubOpen THEN toSub' = Append(toSub, held) /\ PubGoto("requeue")
                ELSE UNCHANGED toSub /\ PubGoto("giveback")
  /\ UNCHANGED <<held, toPub, driver, subscriber, screen, window, undrawn>>

\* a stream socket takes four bytes at once or reports that the peer is gone
PubSend ==
  /\ pub = "send"
  /\ IF SubOpen THEN toSub' = Append(toSub, held) /\ PubGoto("ack")
                ELSE UNCHANGED toSub /\ PubGoto("giveback")
  /\ UNCHANGED <<held, toPub, driver, subscriber, screen, window, undrawn>>

\* a bug: wait_for_ack does not notice the end of the stream
PubAckIgnoresEof ==
  /\ pub = "ack" /\ toPub > 0
  /\ toPub' = toPub - 1 /\ PubGoto("requeue")
  /\ UNCHANGED <<held, toSub, driver, subscriber, screen, window, undrawn>>

\* recv() blocks until an ack or the end of the stream; a signal restarts it
PubAck ==
  /\ pub = "ack"
  /\ \/ toPub > 0 /\ toPub' = toPub - 1 /\ PubGoto("requeue")
     \/ toPub = 0 /\ ~SubOpen /\ UNCHANGED toPub /\ PubGoto("giveback")
  /\ UNCHANGED <<held, toSub, driver, subscriber, screen, window, undrawn>>

\* a bug: a failed VIDIOC_QBUF does not end the loop
PubRequeueCarriesOn ==
  /\ pub = "requeue"
  /\ \/ queued' = queued \union {held} /\ held' = None
     \/ UNCHANGED <<queued, held>>
  /\ PubGoto("loop")
  /\ UNCHANGED <<filling, done, undrawn, channel, subscriber, screen, window>>

\* VIDIOC_QBUF; on failure the loop ends with the buffer still dequeued
PubRequeue ==
  /\ pub = "requeue"
  /\ \/ queued' = queued \union {held} /\ held' = None /\ PubGoto("loop")
     \/ UNCHANGED <<queued, held>> /\ PubGoto("shutdown")
  /\ UNCHANGED <<filling, done, undrawn, channel, subscriber, screen, window>>

\* the requeue before a break: its result is not looked at
PubGiveBack ==
  /\ pub = "giveback"
  /\ \/ queued' = queued \union {held} /\ held' = None
     \/ UNCHANGED <<queued, held>>
  /\ PubGoto("shutdown")
  /\ UNCHANGED <<filling, done, undrawn, channel, subscriber, screen, window>>

\* unlink the path, then the destructors in reverse order: the client socket first
PubShutdown ==
  /\ pub = "shutdown"
  /\ toPub' = 0 /\ PubGoto("stop")
  /\ UNCHANGED <<held, toSub, driver, subscriber, screen, window, undrawn>>

\* STREAMOFF takes every buffer out of the driver's queues
StreamOff == /\ queued' = {} /\ filling' = None /\ done' = <<>>

PubStop ==
  /\ pub = "stop"
  /\ StreamOff /\ held' = None /\ PubGoto("exited")
  /\ UNCHANGED <<channel, subscriber, screen, window, undrawn>>

PubSigint ==
  /\ pub # "exited" /\ pubRunning
  /\ pubRunning' = FALSE
  /\ UNCHANGED <<pub, held, driver, channel, subscriber, screen, window, undrawn>>

\* a crash: the kernel closes the descriptors of the process, the camera's included
PubKill ==
  /\ pub # "exited"
  /\ pub' = "exited" /\ held' = None /\ pubRunning' = FALSE
  /\ StreamOff /\ toPub' = 0
  /\ UNCHANGED <<toSub, subscriber, screen, window, undrawn>>

-----------------------------------------------------------------------------
(* The subscriber: receive, import, draw, swap, destroy the image, ack.     *)

SubGoto(step) == sub' = step /\ UNCHANGED subRunning

\* window, EGL context and renderer; each of them may fail.  A close may be read,
\* and even handled, on the way (Display.tla)
SubSetup ==
  /\ sub = "setup"
  /\ \E step \in {"loop", "teardown"} : SubGoto(step)
  /\ closing' \in {closing} \union (IF closing = "wire" THEN {"queued", "seen"} ELSE {})
  /\ UNCHANGED <<hidden, cur, driver, publisher, channel, screen, undrawn>>

\* a bug: while (g_running)
SubCheckBlind ==
  /\ sub = "loop"
  /\ SubGoto(IF subRunning THEN "recv" ELSE "teardown")
  /\ UNCHANGED <<cur, driver, publisher, channel, screen, window, undrawn>>

\* while (g_running && !should_close())
SubCheck ==
  /\ sub = "loop"
  /\ SubGoto(IF subRunning /\ closing # "seen" THEN "recv" ELSE "teardown")
  /\ UNCHANGED <<cur, driver, publisher, channel, screen, window, undrawn>>

\* a bug: recv_frame_idx does not notice the end of the stream
SubRecvIgnoresEof ==
  /\ sub = "recv" /\ toSub # <<>>
  /\ cur' = Head(toSub) /\ toSub' = Tail(toSub) /\ SubGoto("import")
  /\ UNCHANGED <<toPub, driver, publisher, screen, window, undrawn>>

\* recv(MSG_WAITALL) blocks until an index or the end of the stream
SubRecv ==
  /\ sub = "recv"
  /\ \/ toSub # <<>> /\ cur' = Head(toSub) /\ toSub' = Tail(toSub) /\ SubGoto("import")
     \/ toSub = <<>> /\ ~PubOpen /\ UNCHANGED <<cur, toSub>> /\ SubGoto("teardown")
  /\ UNCHANGED <<toPub, driver, publisher, screen, window, undrawn>>

\* a bug: a frame that cannot be imported is skipped without an ack
SubImportSkips ==
  /\ sub = "import"
  /\ \/ image' = cur /\ SubGoto("draw")
     \/ UNCHANGED image /\ SubGoto("loop")
  /\ UNCHANGED <<cur, gpu, driver, publisher, channel, window, undrawn>>

SubImport ==
  /\ sub = "import"
  /\ \/ image' = cur /\ SubGoto("draw")
     \/ UNCHANGED image /\ SubGoto("teardown")
  /\ UNCHANGED <<cur, gpu, driver, publisher, channel, window, undrawn>>

\* a bug: the image is destroyed and the ack sent without a swap
SubDrawSwapLater ==
  /\ sub = "draw"
  /\ gpu' = gpu \union {cur} /\ undrawn' = SubSeq(undrawn, 2, Len(undrawn)) /\ SubGoto("destroy")
  /\ UNCHANGED <<cur, image, driver, publisher, channel, window>>

\* glDrawArrays hands a job to the GPU that samples the buffer later
SubDraw ==
  /\ sub = "draw"
  /\ gpu' = gpu \union {cur} /\ undrawn' = SubSeq(undrawn, 2, Len(undrawn)) /\ SubGoto("swap")
  /\ UNCHANGED <<cur, image, driver, publisher, channel, window>>

\* eglSwapBuffers waits for the compositor's frame callback; to get it the
\* library may read the Wayland connection, the only place that does
SwapReturns(closingNext) ==
  /\ sub = "swap" /\ ~hidden
  /\ SwapWaitsForGpu => gpu = {}
  /\ closing' = closingNext
  /\ SubGoto("destroy")
  /\ UNCHANGED <<hidden, cur, driver, publisher, channel, screen, undrawn>>

SubSwap == SwapReturns(closing)
SubSwapReads == closing = "wire" /\ SwapReturns("queued")

\* a bug: the ack is sent before the image is destroyed
SubDestroyTooLate ==
  /\ sub = "destroy"
  /\ UNCHANGED image /\ SubGoto("ack")
  /\ UNCHANGED <<cur, gpu, driver, publisher, channel, window, undrawn>>

SubDestroy ==
  /\ sub = "destroy"
  /\ image' = None /\ SubGoto("ack")
  /\ UNCHANGED <<cur, gpu, driver, publisher, channel, window, undrawn>>

\* a bug: two bytes of ack
SubAckTwice ==
  /\ sub = "ack"
  /\ IF PubOpen THEN toPub' = toPub + 2 /\ SubGoto("dispatch")
                ELSE UNCHANGED toPub /\ SubGoto("teardown")
  /\ UNCHANGED <<cur, toSub, driver, publisher, screen, window, undrawn>>

SubAck ==
  /\ sub = "ack"
  /\ IF PubOpen THEN toPub' = toPub + 1 /\ SubGoto("dispatch")
                ELSE UNCHANGED toPub /\ SubGoto("teardown")
  /\ UNCHANGED <<cur, toSub, driver, publisher, screen, window, undrawn>>

\* a bug: dispatch_pending never handles the close event
SubDispatchForgets ==
  /\ sub = "dispatch"
  /\ SubGoto("loop")
  /\ UNCHANGED <<closing, hidden, cur, driver, publisher, channel, screen, undrawn>>

\* dispatch_pending() handles what was read before and reads nothing itself
SubDispatch ==
  /\ sub = "dispatch"
  /\ \/ /\ closing' = IF closing = "queued" THEN "seen" ELSE closing
        /\ SubGoto(IF closing' = "seen" THEN "teardown" ELSE "loop")
     \/ UNCHANGED closing /\ SubGoto("teardown") \* the compositor is gone
  /\ UNCHANGED <<hidden, cur, driver, publisher, channel, screen, undrawn>>

\* the destructors in reverse order: renderer, EGL context, window, ...
SubTeardown ==
  /\ sub = "teardown"
  /\ image' = None /\ SubGoto("close")
  /\ UNCHANGED <<cur, gpu, driver, publisher, channel, window, undrawn>>

\* ... the dma-buf fds and the socket
SubClose ==
  /\ sub = "close"
  /\ toSub' = <<>> /\ SubGoto("exited")
  /\ UNCHANGED <<cur, toPub, driver, publisher, screen, window, undrawn>>

SubSigint ==
  /\ sub # "exited" /\ subRunning
  /\ subRunning' = FALSE
  /\ UNCHANGED <<sub, cur, driver, publisher, channel, screen, window, undrawn>>

SubKill ==
  /\ sub # "exited"
  /\ sub' = "exited" /\ subRunning' = FALSE
  /\ image' = None /\ toSub' = <<>>
  /\ UNCHANGED <<cur, gpu, toPub, driver, publisher, window, undrawn>>

-----------------------------------------------------------------------------
(* The GPU and the compositor.                                              *)

GpuFinish ==
  /\ \E b \in gpu : gpu' = gpu \ {b}
  /\ UNCHANGED <<image, driver, publisher, channel, subscriber, window, undrawn>>

CompositorClose ==
  /\ closing = "none" /\ SubOpen
  /\ closing' = "wire"
  /\ UNCHANGED <<hidden, driver, publisher, channel, subscriber, screen, undrawn>>

CompositorHide ==
  /\ MayHide /\ SubOpen /\ hidden' = ~hidden
  /\ UNCHANGED <<closing, driver, publisher, channel, subscriber, screen, undrawn>>

\* both processes are gone
Terminated == pub = "exited" /\ sub = "exited" /\ UNCHANGED vars

-----------------------------------------------------------------------------
Camera == CaptureStart \/ CaptureDone
Publisher == \/ PubCheck \/ PubDequeue \/ PubDequeueFails \/ PubSend \/ PubAck
             \/ PubRequeue \/ PubGiveBack \/ PubShutdown \/ PubStop
Subscriber == \/ SubSetup \/ SubCheck \/ SubRecv \/ SubImport \/ SubDraw
              \/ SubSwap \/ SubSwapReads \/ SubDestroy \/ SubAck
              \/ SubDispatch \/ SubTeardown \/ SubClose
Signals == PubSigint \/ PubKill \/ SubSigint \/ SubKill
Compositor == GpuFinish \/ CompositorClose \/ CompositorHide

Next == Camera \/ Publisher \/ Subscriber \/ Signals \/ Compositor \/ Terminated

Spec == Init /\ [][Next]_vars

(***************************************************************************)
(* The scheduler runs a process that can run, a GPU job ends, and a swap   *)
(* that keeps waiting for frame callbacks reads what the compositor sent   *)
(* before them.  Nothing is assumed of the camera (it may stall), of the   *)
(* signals, or of the user.                                                *)
(***************************************************************************)
Fairness == /\ WF_vars(Publisher)
            /\ WF_vars(Subscriber)
            /\ WF_vars(GpuFinish)
            /\ SF_vars(SubSwapReads)

LiveSpec == Spec /\ Fairness

-----------------------------------------------------------------------------
(* Invariants.                                                              *)

TypeOK ==
  /\ queued \subseteq Buf /\ filling \in Buf \union {None} /\ done \in Seq(Buf)
  /\ undrawn \in Seq(Buf)
  /\ pub \in PubStep /\ held \in Buf \union {None} /\ pubRunning \in BOOLEAN
  /\ toSub \in Seq(Buf) /\ toPub \in 0 .. 1
  /\ sub \in SubStep /\ cur \in Buf \union {None} /\ subRunning \in BOOLEAN
  /\ image \in Buf \union {None} /\ gpu \subseteq Buf
  /\ closing \in {"none", "wire", "queued", "seen"} /\ hidden \in BOOLEAN

(***************************************************************************)
(* The camera neither has nor fills the buffer the renderer has imported:  *)
(* what the order import, draw, destroy, ack, QBUF is there for.  A wait   *)
(* for the ack that ends early (the peer died, its window failed) requeues *)
(* the buffer too, and must not do so under a living image.                *)
(***************************************************************************)
ImportedNotCaptured == image # None => image \notin queued \union {filling}

(***************************************************************************)
(* While the camera streams, every buffer is in exactly one place: no path *)
(* through the loop, its breaks or a failed QBUF loses a buffer or returns *)
(* it twice.  The publisher holds at most one, so the driver has the other *)
(* N - 1 and never starves.                                                *)
(***************************************************************************)
Conservation ==
  Streaming =>
    /\ \A b \in Buf : b \in queued \/ b = filling \/ b \in ToSet(done) \/ b = held
    /\ \A b \in queued : b # filling /\ b \notin ToSet(done) /\ b # held
    /\ filling # None => filling \notin ToSet(done) /\ filling # held
    /\ held # None => held \notin ToSet(done)
    /\ IsInjective(done)

Processing == sub \in {"import", "draw", "swap", "destroy", "ack"}

(***************************************************************************)
(* As long as the publisher lives, the index on the wire, the buffer the   *)
(* subscriber works on and the one the publisher waits for are the same,   *)
(* and an ack under way answers it: the protocol has no sequence numbers,  *)
(* an ack is one byte, so a stray one would free the wrong buffer.         *)
(***************************************************************************)
OneFrameInFlight ==
  pub # "exited" => /\ toSub # <<>> => pub = "ack" /\ toSub = <<held>> /\ ~Processing
                    /\ Processing => pub = "ack" /\ cur = held
                    /\ toPub > 0 => pub = "ack" /\ toSub = <<>> /\ ~Processing

(***************************************************************************)
(* Both programs block in recv() without a timeout.  They never wait for   *)
(* each other: not after a failed import, a failed send, an early exit.    *)
(***************************************************************************)
NoMutualWait ==
  ~ /\ pub = "ack" /\ toPub = 0 /\ SubOpen
    /\ sub = "recv" /\ toSub = <<>> /\ PubOpen

(***************************************************************************)
(* No GPU job still samples a buffer the camera may write.  The programs   *)
(* order only the calls: nothing waits for the GPU (no glFinish, no fence) *)
(* unless eglSwapBuffers happens to.                                       *)
(***************************************************************************)
GpuDoneBeforeRequeue ==
  sub # "exited" => gpu \intersect (queued \union {filling}) = {}

(***************************************************************************)
(* The inductive invariant behind these: the three above and what the step *)
(* of each program says of the buffer it handles.                          *)
(***************************************************************************)
StepsAgree ==
  /\ pub \in {"send", "ack", "requeue", "giveback"} => held # None
  /\ pub \in {"loop", "select"} => held = None
  /\ pub = "exited" => queued = {} /\ filling = None /\ done = <<>> /\ held = None
  /\ Processing => cur # None
  /\ image # None => image = cur /\ sub \in {"draw", "swap", "destroy"}
  /\ sub = "exited" => toSub = <<>>
  /\ pub = "ack" /\ toPub = 0 /\ sub \in {"setup", "loop", "recv", "dispatch"} => toSub # <<>>

(***************************************************************************)
(* For the order of the frames: what is still to be drawn is the buffer    *)
(* between the two loops, unless it is drawn already, then the full queue. *)
(***************************************************************************)
Underway == \/ pub = "send"
            \/ pub = "ack" /\ (toSub # <<>> \/ sub \in {"import", "draw"})
Drawn == \/ pub \in {"loop", "select", "requeue"}
         \/ pub = "ack" /\ (toPub > 0 \/ sub \in {"swap", "destroy", "ack"})

InOrder ==
  /\ Underway => undrawn = <<held>> \o done
  /\ Drawn => undrawn = done
  /\ pub = "exited" /\ toSub # <<>> =>
       Len(toSub) = 1 /\ ~Processing /\ undrawn # <<>> /\ Head(undrawn) = toSub[1]
  /\ pub = "exited" /\ sub \in {"import", "draw"} => undrawn # <<>> /\ Head(undrawn) = cur

IInv == TypeOK /\ Conservation /\ OneFrameInFlight /\ StepsAgree /\ InOrder

-----------------------------------------------------------------------------
(* Action properties.                                                       *)

(***************************************************************************)
(* Every captured frame is drawn once, in the order of capture, none       *)
(* skipped, however signals, stalls and the queues of the driver and of    *)
(* the socket interleave: the buffer drawn is the oldest undrawn one.      *)
(***************************************************************************)
FramesShownInOrder ==
  [][(sub = "draw" /\ sub' = "swap") => undrawn # <<>> /\ cur = Head(undrawn)]_vars

-----------------------------------------------------------------------------
(* Winding down: once a program has been told to stop, what the two of them *)
(* can still do.                                                            *)

\* a program that will not begin another round, whatever the other one does
PubTold == ~pubRunning \/ pub \in {"giveback", "shutdown", "stop", "exited"}
SubTold == \/ ~subRunning \/ closing = "seen"
           \/ closing = "queued" /\ sub \in {"destroy", "ack", "dispatch"}
           \/ sub \in {"teardown", "close", "exited"}
Told == PubTold \/ SubTold

\* most steps to the exit of a program that is told
PubToExit == [exited |-> 0, stop |-> 1, shutdown |-> 2, loop |-> 3, giveback |-> 3,
              requeue |-> 4, ack |-> 5, send |-> 6, select |-> 7]
SubToExit == [exited |-> 0, close |-> 1, teardown |-> 2, loop |-> 3, setup |-> 4,
              dispatch |-> 4, ack |-> 5, destroy |-> 6, swap |-> 7, draw |-> 8,
              import |-> 9, recv |-> 10]

\* most steps of any other one to the next wait for its peer
PubToWait == [ack |-> IF toPub > 0 THEN 5 ELSE 0, send |-> 1, select |-> 2, loop |-> 3,
              requeue |-> 4]
SubToWait == [recv |-> 0, loop |-> 1, setup |-> 2, dispatch |-> 2, ack |-> 3,
              destroy |-> 4, swap |-> 5, draw |-> 6, import |-> 7]
Waiting == IF toSub # <<>> THEN 8 ELSE 0 \* an index to come makes a round more

(***************************************************************************)
(* The measure.  A step of a told program can let the other one go on to   *)
(* its next wait (an ack: 5 steps, an index: 8) and costs more than that;  *)
(* to learn that one has to stop never makes the rest longer.              *)
(***************************************************************************)
Left == IF PubTold /\ SubTold THEN PubToExit[pub] + SubToExit[sub]
        ELSE IF PubTold THEN 9 * PubToExit[pub] + 11 + SubToWait[sub] + Waiting
        ELSE 6 * SubToExit[sub] + 8 + PubToWait[pub]

(***************************************************************************)
(* From a signal, a close or an exit on, every step of either program      *)
(* brings the end of both nearer, and no step of anybody else defers it:   *)
(* whatever happens in between, the programs cannot go round any more.     *)
(***************************************************************************)
WindsDown ==
  [][Told => Told' /\ Left' <= Left /\ (Left' < Left \/ UNCHANGED <<pub, sub>>)]_vars

-----------------------------------------------------------------------------
(* Liveness.                                                                *)

BothExited == pub = "exited" /\ sub = "exited"

(***************************************************************************)
(* SIGINT or SIGTERM to either program ends both, wherever they are: the   *)
(* handlers only clear g_running, and recv() is restarted after a signal,  *)
(* so the other side's frames, acks and end of stream must do the rest.    *)
(***************************************************************************)
StopEndsSession == (~pubRunning \/ ~subRunning) ~> BothExited

(***************************************************************************)
(* Closing the window ends both programs, although the event is only read  *)
(* inside eglSwapBuffers and only handled after the ack.                   *)
(***************************************************************************)
CloseEndsSession == (closing = "wire") ~> BothExited

(***************************************************************************)
(* A program that exits or crashes takes the other one with it.            *)
(***************************************************************************)
OneExitEndsBoth == (pub = "exited" \/ sub = "exited") ~> BothExited

(***************************************************************************)
(* The publisher's wait for an ack, which has no timeout, always ends.     *)
(***************************************************************************)
AckWaitEnds == (pub = "ack") ~> (pub # "ack")

-----------------------------------------------------------------------------
(* The ownership contract.                                                  *)

Lent == pub = "ack" /\ SubOpen /\ toPub = 0

Owner == [b \in Buf |->
            IF ~Streaming THEN "nobody"
            ELSE IF b = held THEN IF Lent THEN "subscriber" ELSE "publisher"
            ELSE IF b \in ToSet(done) THEN "ready" ELSE "camera"]

Ownership == INSTANCE Handoff
  WITH owner <- Owner, writing <- filling, reading <- image

(***************************************************************************)
(* The session implements the ownership contract of Handoff.tla.           *)
(***************************************************************************)
Contract == Ownership!Spec

-----------------------------------------------------------------------------
(* The device and the window, which other modules have in detail.           *)

Capturing == INSTANCE Device
  WITH Index <- Buf,
       state <- IF Streaming THEN "streaming" ELSE "stopped",
       all <- IF Streaming THEN Buf ELSE {},
       inside <- (queued \union {filling} \union ToSet(done)) \ {None}

(***************************************************************************)
(* The loop uses the device as Capture.tla has set it up: it takes one     *)
(* buffer, takes no other until that one is back, and stops the camera on  *)
(* every way out.                                                          *)
(***************************************************************************)
UsesDevice == Capturing!LoopSpec

Win == INSTANCE Window
  WITH step <- CASE sub \in {"import", "draw"} -> "draw"
                 [] sub \in {"destroy", "ack"} -> "ack"
                 [] sub \in {"teardown", "close", "exited"} -> "gone"
                 [] OTHER -> sub,
       deaf <- FALSE

(***************************************************************************)
(* The close event reaches the loop where Display.tla lets it, and ends it *)
(* before the next frame.  (The compositor does not die in this module.)   *)
(***************************************************************************)
UsesWindow == Win!Spec
=============================================================================
