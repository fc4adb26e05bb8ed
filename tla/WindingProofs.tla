---------------------------- MODULE WindingProofs ----------------------------
(***************************************************************************)
(* How a session ends, for every number of buffers: from the first signal, *)
(* close or exit on, every step of either program lowers the number Left   *)
(* of Session.tla, which starts at 89 at most, and as long as it is not 0  *)
(* some program can take its next step or waits for its compositor.        *)
(***************************************************************************)
EXTENDS SessionProofs

USE NoneIsNoBuffer DEF PubStep, SubStep, Streaming, PubOpen, SubOpen, Processing,
        driver, publisher, channel, subscriber, screen, window, vars,
        PubGoto, SubGoto, StreamOff, SwapReturns

-----------------------------------------------------------------------------
(* The tables, read out.                                                    *)

LEMMA PubExits ==
  /\ PubToExit["exited"] = 0 /\ PubToExit["stop"] = 1 /\ PubToExit["shutdown"] = 2
  /\ PubToExit["loop"] = 3 /\ PubToExit["giveback"] = 3 /\ PubToExit["requeue"] = 4
  /\ PubToExit["ack"] = 5 /\ PubToExit["send"] = 6 /\ PubToExit["select"] = 7
BY DEF PubToExit

LEMMA SubExits ==
  /\ SubToExit["exited"] = 0 /\ SubToExit["close"] = 1 /\ SubToExit["teardown"] = 2
  /\ SubToExit["loop"] = 3 /\ SubToExit["setup"] = 4 /\ SubToExit["dispatch"] = 4
  /\ SubToExit["ack"] = 5 /\ SubToExit["destroy"] = 6 /\ SubToExit["swap"] = 7
  /\ SubToExit["draw"] = 8 /\ SubToExit["import"] = 9 /\ SubToExit["recv"] = 10
BY DEF SubToExit

LEMMA PubWaits ==
  /\ PubToWait["ack"] = (IF toPub > 0 THEN 5 ELSE 0) /\ PubToWait["send"] = 1
  /\ PubToWait["select"] = 2 /\ PubToWait["loop"] = 3 /\ PubToWait["requeue"] = 4
BY DEF PubToWait

LEMMA SubWaits ==
  /\ SubToWait["recv"] = 0 /\ SubToWait["loop"] = 1 /\ SubToWait["setup"] = 2
  /\ SubToWait["dispatch"] = 2 /\ SubToWait["ack"] = 3 /\ SubToWait["destroy"] = 4
  /\ SubToWait["swap"] = 5 /\ SubToWait["draw"] = 6 /\ SubToWait["import"] = 7
BY DEF SubToWait

InBounds ==
  /\ PubToExit[pub] \in 0 .. 7 /\ SubToExit[sub] \in 0 .. 10
  /\ ~PubTold => PubToWait[pub] \in 0 .. 5
  /\ ~SubTold => SubToWait[sub] \in 0 .. 7
  /\ Waiting \in {0, 8}

LEMMA Bounds == IInv => InBounds
<1> SUFFICES ASSUME IInv PROVE InBounds OBVIOUS
<1>1. pub \in PubStep /\ sub \in SubStep BY DEF IInv, TypeOK
<1>2. PubToExit[pub] \in 0 .. 7 BY <1>1, PubExits
<1>3. SubToExit[sub] \in 0 .. 10 BY <1>1, SubExits
<1>4. ~PubTold => PubToWait[pub] \in 0 .. 5 BY <1>1, PubWaits DEF PubTold
<1>5. ~SubTold => SubToWait[sub] \in 0 .. 7 BY <1>1, SubWaits DEF SubTold
<1>6. Waiting \in {0, 8} BY DEF Waiting
<1> QED BY <1>2, <1>3, <1>4, <1>5, <1>6 DEF InBounds

-----------------------------------------------------------------------------
(* What a step of each program does to the tables.                          *)

LEMMA PublisherCounts ==
  ASSUME IInv, Publisher
  PROVE  /\ PubTold => PubTold' /\ PubToExit[pub'] < PubToExit[pub]
         /\ ~PubTold /\ ~PubTold' => PubToWait'[pub'] < PubToWait[pub]
         /\ Waiting' <= Waiting + 8
         /\ UNCHANGED <<sub, SubTold>>
<1>1. pub \in PubStep /\ toPub \in 0 .. 1 /\ (pub = "send" => toPub = 0)
  BY DEF IInv, TypeOK, OneFrameInFlight
<1>2. UNCHANGED <<sub, SubTold>>
  BY DEF Publisher, PubCheck, PubDequeue, PubDequeueFails, PubSend, PubAck, PubRequeue,
         PubGiveBack, PubShutdown, PubStop, SubTold
<1>3. Waiting' <= Waiting + 8
  BY DEF Waiting
<1>4. ASSUME PubTold PROVE PubTold' /\ PubToExit[pub'] < PubToExit[pub]
  BY <1>4, PubExits DEF PubTold, Publisher, PubCheck, PubDequeue, PubDequeueFails, PubSend,
         PubAck, PubRequeue, PubGiveBack, PubShutdown, PubStop
<1>5. ASSUME ~PubTold, ~PubTold' PROVE PubToWait'[pub'] < PubToWait[pub]
  <2>1. /\ PubToWait'["ack"] = (IF toPub' > 0 THEN 5 ELSE 0) /\ PubToWait'["send"] = 1
        /\ PubToWait'["select"] = 2 /\ PubToWait'["loop"] = 3 /\ PubToWait'["requeue"] = 4
    BY PubWaits DEF PubToWait
  <2>2. \/ pub = "loop" /\ pub' = "select"
        \/ pub = "select" /\ pub' = "send"
        \/ pub = "send" /\ pub' = "ack" /\ toPub' = 0
        \/ pub = "ack" /\ toPub > 0 /\ pub' = "requeue"
        \/ pub = "requeue" /\ pub' = "loop"
    BY <1>1, <1>5 DEF PubTold, Publisher, PubCheck, PubDequeue, PubDequeueFails, PubSend,
         PubAck, PubRequeue, PubGiveBack, PubShutdown, PubStop
  <2> QED BY <2>1, <2>2, PubWaits
<1> QED BY <1>2, <1>3, <1>4, <1>5

LEMMA SubscriberCounts ==
  ASSUME IInv, Subscriber
  PROVE  /\ SubTold => SubTold' /\ SubToExit[sub'] < SubToExit[sub]
         /\ ~SubTold /\ ~SubTold' => SubToWait[sub'] + Waiting' < SubToWait[sub] + Waiting
         /\ ~PubTold => PubToWait'[pub'] <= PubToWait[pub] + 5
         /\ UNCHANGED <<pub, PubTold>>
<1> USE DEF Subscriber, SubSetup, SubCheck, SubRecv, SubImport, SubDraw, SubSwap,
            SubSwapReads, SubDestroy, SubAck, SubDispatch, SubTeardown, SubClose
<1>1. /\ pub \in PubStep /\ sub \in SubStep /\ toSub \in Seq(Buf) /\ toPub \in 0 .. 1
      /\ closing \in {"none", "wire", "queued", "seen"}
      /\ sub = "recv" /\ toSub # <<>> => Len(toSub) = 1
  BY DEF IInv, TypeOK, OneFrameInFlight, InOrder
<1>2. UNCHANGED <<pub, PubTold>>
  BY DEF PubTold
<1>3. ASSUME SubTold PROVE SubTold' /\ SubToExit[sub'] < SubToExit[sub]
  <2>1. SubTold'
    BY <1>1, <1>3 DEF SubTold
  <2>2. SubToExit[sub'] < SubToExit[sub]
    BY <1>1, <1>3, SubExits DEF SubTold
  <2> QED BY <2>1, <2>2
<1>4. ASSUME ~SubTold, ~SubTold'
      PROVE  SubToWait[sub'] + Waiting' < SubToWait[sub] + Waiting
  <2>1. CASE sub = "recv"
    <3>1. toSub # <<>> /\ toSub' = Tail(toSub) /\ sub' = "import"
      BY <1>4, <2>1 DEF SubTold
    <3>2. toSub' = <<>>
      BY <1>1, <2>1, <3>1
    <3> QED BY <2>1, <3>1, <3>2, SubWaits DEF Waiting
  <2>2. CASE sub # "recv"
    <3>1. Waiting' = Waiting
      BY <1>1, <1>4, <2>2 DEF SubTold, Waiting
    <3>2. SubToWait[sub'] < SubToWait[sub] /\ SubToWait[sub'] \in Int /\ SubToWait[sub] \in Int
      BY <1>1, <1>4, <2>2, SubWaits DEF SubTold
    <3>3. Waiting \in Int
      BY DEF Waiting
    <3> QED BY <3>1, <3>2, <3>3
  <2> QED BY <2>1, <2>2
<1>5. ASSUME ~PubTold PROVE PubToWait'[pub'] <= PubToWait[pub] + 5
  BY <1>1, <1>2, <1>5, PubWaits DEF PubTold, PubToWait
<1> QED BY <1>2, <1>3, <1>4, <1>5

-----------------------------------------------------------------------------
(* What a step of anybody does to the number.                               *)

LEMMA PublisherWinds == ASSUME IInv, IInv', Told, Publisher PROVE Told' /\ Left' < Left
<1>1. InBounds /\ InBounds' BY Bounds, PTL
<1> QED BY <1>1, PublisherCounts DEF InBounds, Told, Left

LEMMA SubscriberWinds == ASSUME IInv, IInv', Told, Subscriber PROVE Told' /\ Left' < Left
<1>1. InBounds /\ InBounds' BY Bounds, PTL
<1> QED BY <1>1, SubscriberCounts DEF InBounds, Told, Left

LEMMA SigintWinds ==
  ASSUME IInv, IInv', Told, PubSigint \/ SubSigint
  PROVE  Told' /\ Left' <= Left /\ UNCHANGED <<pub, sub>>
<1>1. InBounds /\ InBounds' BY Bounds, PTL
<1>2. /\ UNCHANGED <<pub, sub, closing, toSub, toPub>>
      /\ (PubTold => PubTold') /\ (SubTold => SubTold')
      /\ UNCHANGED SubTold \/ UNCHANGED PubTold
  BY DEF PubSigint, SubSigint, PubTold, SubTold
<1>3. UNCHANGED <<Waiting, PubToWait>>
  BY <1>2 DEF Waiting, PubToWait
<1> QED BY <1>1, <1>2, <1>3 DEF InBounds, Told, Left

LEMMA KillWinds == ASSUME IInv, IInv', Told, PubKill \/ SubKill PROVE Told' /\ Left' < Left
<1>1. InBounds /\ InBounds' BY Bounds, PTL
<1>2. CASE PubKill
  <2>1. /\ UNCHANGED <<sub, SubTold, Waiting>> /\ PubTold'
        /\ pub' = "exited" /\ PubToExit[pub] > 0 /\ PubToExit[pub'] = 0
    BY <1>2, PubExits DEF PubKill, SubTold, PubTold, Waiting, IInv, TypeOK
  <2> QED BY <1>1, <2>1 DEF InBounds, Told, Left
<1>3. CASE SubKill
  <2>1. /\ UNCHANGED <<pub, PubTold, toPub>> /\ SubTold'
        /\ sub' = "exited" /\ SubToExit[sub] > 0 /\ SubToExit[sub'] = 0
    BY <1>3, SubExits DEF SubKill, SubTold, PubTold, IInv, TypeOK
  <2>2. UNCHANGED PubToWait
    BY <2>1 DEF PubToWait
  <2> QED BY <1>1, <2>1, <2>2 DEF InBounds, Told, Left
<1> QED BY <1>2, <1>3

LEMMA OthersWind ==
  ASSUME Camera \/ Compositor \/ UNCHANGED vars, Told
  PROVE  Told' /\ Left' = Left /\ UNCHANGED <<pub, sub>>
<1>1. /\ UNCHANGED <<pub, pubRunning, sub, subRunning, toSub, toPub>>
      /\ UNCHANGED closing \/ (closing = "none" /\ closing' = "wire")
  BY DEF Camera, CaptureStart, CaptureDone, Compositor, GpuFinish, CompositorClose, CompositorHide
<1>2. UNCHANGED <<PubTold, SubTold, Waiting, PubToWait>>
  BY <1>1 DEF PubTold, SubTold, Waiting, PubToWait
<1> QED BY <1>1, <1>2 DEF Told, Left

(***************************************************************************)
(* Once one of the programs is told to stop, no step makes the rest        *)
(* longer and every step of a program makes it shorter.                    *)
(***************************************************************************)
THEOREM WindingDown == Spec => WindsDown
<1>1. IInv /\ IInv' /\ [Next]_vars =>
        [Told => Told' /\ Left' <= Left /\ (Left' < Left \/ UNCHANGED <<pub, sub>>)]_vars
  <2> SUFFICES ASSUME IInv, IInv', [Next]_vars, Told
               PROVE  Told' /\ Left' <= Left /\ (Left' < Left \/ UNCHANGED <<pub, sub>>)
    OBVIOUS
  <2>1. Left \in Int /\ Left' \in Int
    <3>1. InBounds /\ InBounds' BY Bounds, PTL
    <3> QED BY <3>1 DEF InBounds, Left
  <2>2. CASE Publisher  BY <2>1, <2>2, PublisherWinds
  <2>3. CASE Subscriber BY <2>1, <2>3, SubscriberWinds
  <2>4. CASE Signals    BY <2>1, <2>4, SigintWinds, KillWinds DEF Signals
  <2>5. CASE Camera \/ Compositor \/ UNCHANGED vars BY <2>1, <2>5, OthersWind
  <2> QED BY <2>2, <2>3, <2>4, <2>5 DEF Next, Terminated
<1> QED BY <1>1, Inductive, PTL DEF Spec, WindsDown

(***************************************************************************)
(* That is at most 89 steps of the two programs together, and none is left *)
(* exactly when both have exited.                                          *)
(***************************************************************************)
THEOREM EndingBounded == Spec => [](Told => Left \in 0 .. 89 /\ (Left = 0 <=> BothExited))
<1>1. IInv => (Told => Left \in 0 .. 89 /\ (Left = 0 <=> BothExited))
  <2> SUFFICES ASSUME IInv, Told PROVE Left \in 0 .. 89 /\ (Left = 0 <=> BothExited) OBVIOUS
  <2>1. InBounds BY Bounds
  <2>2. PubToExit[pub] = 0 <=> pub = "exited" BY PubExits DEF IInv, TypeOK
  <2>3. SubToExit[sub] = 0 <=> sub = "exited" BY SubExits DEF IInv, TypeOK
  <2>4. BothExited => PubTold /\ SubTold BY DEF BothExited, PubTold, SubTold
  <2> QED BY <2>1, <2>2, <2>3, <2>4 DEF InBounds, Told, Left, BothExited
<1> QED BY <1>1, Inductive, PTL

\* when a program waits: for its peer, or for a frame callback of the compositor
PubWaiting == pub = "ack" /\ toPub = 0 /\ SubOpen
SubWaiting == sub = "recv" /\ toSub = <<>> /\ PubOpen
Presenting == sub = "swap"

(***************************************************************************)
(* Until both have exited, one of them is at a step that does not wait for *)
(* the other one, or the subscriber presents a frame: with WindsDown all   *)
(* that is left to fairness is that a program that can run runs, and that  *)
(* the compositor presents.                                                *)
(***************************************************************************)
THEOREM OneCanGoOn ==
  Spec => [](BothExited \/ Presenting \/ (pub # "exited" /\ ~PubWaiting)
                        \/ (sub # "exited" /\ ~SubWaiting))
<1>1. IInv => BothExited \/ Presenting \/ (pub # "exited" /\ ~PubWaiting)
                         \/ (sub # "exited" /\ ~SubWaiting)
  BY DEF IInv, StepsAgree, BothExited, Presenting, PubWaiting, SubWaiting
<1> QED BY <1>1, Inductive, PTL

-----------------------------------------------------------------------------
(* The device that Capture.tla hands over.                                  *)

Inside == (queued \union {filling} \union ToSet(done)) \ {None}

\* all the driver lacks is the buffer the publisher holds
AllButHeld == Streaming => Inside = Buf \ {held}

LEMMA DriverHasTheRest == IInv => AllButHeld
<1> SUFFICES ASSUME IInv, Streaming PROVE Inside = Buf \ {held} BY DEF AllButHeld
<1>1. queued \subseteq Buf /\ filling \in Buf \union {None} /\ ToSet(done) \subseteq Buf
  <2>1. done \in Seq(Buf) BY DEF IInv, TypeOK
  <2>2. \A i \in DOMAIN done : done[i] \in Buf BY <2>1, LenProperties, ElementOfSeq
  <2> QED BY <2>2 DEF IInv, TypeOK, ToSet
<1> QED BY <1>1 DEF IInv, Conservation, Inside

(***************************************************************************)
(* The publisher's loop uses the device as Device.tla allows, from the     *)
(* state in which Capture.tla hands it over.                               *)
(***************************************************************************)
THEOREM UsesTheDevice == Spec => UsesDevice
<1> USE DEF Capturing!vars
<1>1. Init => Capturing!Running
  <2> SUFFICES ASSUME Init PROVE Capturing!Running OBVIOUS
  <2>1. 0 \in Buf BY NAssumption DEF NAssumption, Buf
  <2>2. ToSet(done) = {} BY DEF Init, ToSet
  <2> QED BY <2>1, <2>2 DEF Init, Capturing!Running
<1>2. IInv /\ IInv' /\ [Next]_vars => [Capturing!Next]_(Capturing!vars)
  <2> SUFFICES ASSUME IInv, IInv', [Next]_vars
               PROVE  Capturing!Next \/ UNCHANGED Capturing!vars
    OBVIOUS
  <2>1. /\ Streaming => Inside = Buf \ {held}
        /\ Streaming' => Inside' = Buf \ {held'}
    <3>1. AllButHeld /\ AllButHeld' BY DriverHasTheRest, PTL
    <3> QED BY <3>1 DEF AllButHeld
  <2>2. CASE Streaming /\ Streaming' /\ held = None /\ held' \in Buf
    BY <2>1, <2>2 DEF Inside, Capturing!Next, Capturing!Dequeue
  <2>3. CASE Streaming /\ Streaming' /\ held \in Buf /\ held' = None
    BY <2>1, <2>3 DEF Inside, Capturing!Next, Capturing!Queue
  <2>4. CASE Streaming /\ Streaming' /\ held' = held
    BY <2>1, <2>4 DEF Inside
  <2>5. CASE Streaming /\ ~Streaming' /\ queued' = {} /\ filling' = None /\ done' = <<>>
    BY <2>5 DEF ToSet, Capturing!Next, Capturing!StreamOff
  <2>6. CASE UNCHANGED <<queued, filling, done, pub>>
    BY <2>6
  <2>7. pub \in PubStep /\ held \in Buf \union {None} /\ held' \in Buf \union {None}
        /\ (pub \in {"loop", "select"} => held = None)
    BY DEF IInv, TypeOK, StepsAgree
  <2>8. CASE Camera
    BY <2>8, <2>4 DEF Camera, CaptureStart, CaptureDone, IInv, StepsAgree
  <2>9. CASE Publisher
    BY <2>2, <2>3, <2>4, <2>5, <2>7, <2>9
       DEF Publisher, PubCheck, PubDequeue, PubDequeueFails, PubSend, PubAck, PubRequeue,
           PubGiveBack, PubShutdown, PubStop, IInv, StepsAgree
  <2>10. CASE Subscriber \/ Compositor \/ UNCHANGED vars
    BY <2>6, <2>10
       DEF Subscriber, SubSetup, SubCheck, SubRecv, SubImport, SubDraw, SubSwap,
           SubSwapReads, SubDestroy, SubAck, SubDispatch, SubTeardown, SubClose,
           Compositor, GpuFinish, CompositorClose, CompositorHide
  <2>11. CASE Signals
    BY <2>5, <2>6, <2>11 DEF Signals, PubSigint, PubKill, SubSigint, SubKill
  <2> QED BY <2>8, <2>9, <2>10, <2>11 DEF Next, Terminated
<1> QED BY <1>1, <1>2, Inductive, PTL DEF Spec, UsesDevice, Capturing!LoopSpec

-----------------------------------------------------------------------------
(* The window that Display.tla provides.                                    *)

(***************************************************************************)
(* The subscriber's loop relies on no more of its window than Window.tla   *)
(* says, and acts on a close when it says.                                 *)
(***************************************************************************)
THEOREM UsesTheWindow == Spec => UsesWindow
<1> USE DEF Win!vars
<1>1. Init => Win!Init
  BY DEF Init, Win!Init
<1>2. IInv /\ [Next]_vars => [Win!Next]_(Win!vars)
  <2> SUFFICES ASSUME IInv, [Next]_vars PROVE Win!Next \/ UNCHANGED Win!vars OBVIOUS
  <2> USE DEF Win!Next
  <2>1. CASE Camera    BY <2>1 DEF Camera, CaptureStart, CaptureDone
  <2>2. CASE Publisher
    BY <2>2 DEF Publisher, PubCheck, PubDequeue, PubDequeueFails, PubSend, PubAck,
                PubRequeue, PubGiveBack, PubShutdown, PubStop
  <2>3. CASE Subscriber
    <3>1. CASE SubSetup  BY <3>1 DEF SubSetup, Win!SetUp, Win!Read, Win!Listen
    <3>2. CASE SubCheck  BY <3>2 DEF SubCheck, Win!Check, Win!Leave
    <3>3. CASE SubRecv   BY <3>3 DEF SubRecv, Win!Receive, Win!Leave
    <3>4. CASE SubImport BY <3>4 DEF SubImport, Win!Leave
    <3>5. CASE SubDraw   BY <3>5 DEF SubDraw, Win!Draw
    <3>6. CASE SubSwap \/ SubSwapReads BY <3>6 DEF SubSwap, SubSwapReads, Win!Swap, Win!Read, Win!Listen
    <3>7. CASE SubDestroy BY <3>7 DEF SubDestroy
    <3>8. CASE SubAck    BY <3>8 DEF SubAck, Win!Ack, Win!Leave
    <3>9. CASE SubDispatch BY <3>9 DEF SubDispatch, Win!Dispatch, Win!Leave
    <3>10. CASE SubTeardown \/ SubClose BY <3>10 DEF SubTeardown, SubClose
    <3> QED BY <2>3, <3>1, <3>2, <3>3, <3>4, <3>5, <3>6, <3>7, <3>8, <3>9, <3>10 DEF Subscriber
  <2>4. CASE Signals    BY <2>4 DEF Signals, PubSigint, PubKill, SubSigint, SubKill, Win!Leave
  <2>5. CASE Compositor
    BY <2>5 DEF Compositor, GpuFinish, CompositorClose, CompositorHide, Win!UserCloses
  <2>6. CASE UNCHANGED vars BY <2>6
  <2> QED BY <2>1, <2>2, <2>3, <2>4, <2>5, <2>6 DEF Next, Terminated
<1> QED BY <1>1, <1>2, Inductive, PTL DEF Spec, UsesWindow, Win!Spec
=============================================================================
